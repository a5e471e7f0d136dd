------------------------- MODULE MCGatewayResilience -------------------------
(* Three calls of one provider for TLC, two of them under the outage window. *)
EXTENDS GatewayResilience

CONSTANTS w1, w2, p
=============================================================================
