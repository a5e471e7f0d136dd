--------------------------- MODULE MCRuntimeEvents ---------------------------
(* A small buffer for TLC: three statuses fill its places before its bytes, *)
(* two failures its bytes before its places.                               *)
EXTENDS RuntimeEvents

FailureHeavyBytes == [k \in FrameKinds |-> IF k = "failure-redacted" THEN 2 ELSE 1]
States == {"running", "awaiting-approval", "succeeded", "recovery-required"}
=============================================================================
