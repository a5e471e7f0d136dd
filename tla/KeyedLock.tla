------------------------------- MODULE KeyedLock -------------------------------
(***************************************************************************)
(* What the workspace services rely on when they run under the mutex: a    *)
(* flow waits for exactly the flows that share a key with it and were      *)
(* there when it arrived, and for nobody else, however many keys it takes. *)
(***************************************************************************)
CONSTANTS Calls, Keys

VARIABLES
    phase,    \* phase[c]: "idle", "waiting", "running" or "released"
    keysOf,   \* keysOf[c]: the keys c takes
    ahead     \* ahead[c]: the flows c still waits for

Present == {c \in Calls : phase[c] \in {"waiting", "running"}}

Init ==
    /\ phase = [c \in Calls |-> "idle"]
    /\ keysOf = [c \in Calls |-> {}]
    /\ ahead = [c \in Calls |-> {}]

Arrive(c, ks) ==
    /\ phase[c] = "idle"
    /\ phase' = [phase EXCEPT ![c] = "waiting"]
    /\ keysOf' = [keysOf EXCEPT ![c] = ks]
    /\ ahead' = [ahead EXCEPT ![c] = {d \in Present : keysOf[d] \cap ks # {}}]

Grant(c) ==
    /\ phase[c] = "waiting" /\ ahead[c] = {}
    /\ phase' = [phase EXCEPT ![c] = "running"]
    /\ UNCHANGED <<keysOf, ahead>>

Leave(c) ==
    /\ phase[c] = "running"
    /\ phase' = [phase EXCEPT ![c] = "released"]
    /\ ahead' = [d \in Calls |-> ahead[d] \ {c}]
    /\ UNCHANGED keysOf

Next ==
    \E c \in Calls :
        \/ \E ks \in SUBSET Keys : Arrive(c, ks)
        \/ Grant(c)
        \/ Leave(c)

Spec == Init /\ [][Next]_<<phase, keysOf, ahead>>
=============================================================================
