------------------------- MODULE MCInvocationRegistry -------------------------
(* Three requests of one run for TLC, the second a reuse of the first one's *)
(* idempotency key under another action id, and one request of a second     *)
(* run.                                                                     *)
EXTENDS InvocationRegistry, TLC

CONSTANTS i1, i2, i3, j1

Requests == {i1, i2, i3, j1}
RequestRun == (i1 :> "a") @@ (i2 :> "a") @@ (i3 :> "a") @@ (j1 :> "b")
RequestAction == (i1 :> "x") @@ (i2 :> "y") @@ (i3 :> "z") @@ (j1 :> "x")
RequestKey == (i1 :> "k") @@ (i2 :> "k") @@ (i3 :> "l") @@ (j1 :> "k")
=============================================================================
