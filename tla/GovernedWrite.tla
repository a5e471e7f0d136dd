----------------------------- MODULE GovernedWrite -----------------------------
(***************************************************************************)
(* What the journal of external writes promises to a chat turn: the story  *)
(* it tells of each write moves only as the fate of the write allows, a    *)
(* write is sent at most once and never behind one whose fate is open, and *)
(* an action is asked for again only after it was refused.                 *)
(***************************************************************************)
CONSTANTS
    Invocations,
    None,
    ActionOf,    \* ActionOf[i]: the action i asks for
    CallOf       \* CallOf[i]: the tool call i belongs to, or None

VARIABLES
    told,    \* told[i]: the outcome a reader is told of i, None for no write
    fate     \* fate[i]: "none", "wire", "applied" or "refused"

Refused     == {"not-dispatched", "rejected"}
Unconfirmed == {i \in Invocations : told[i] = "succeeded-unconfirmed"}

SameCall(i, j) == CallOf[i] # None /\ CallOf[i] = CallOf[j]

Init ==
    /\ told = [i \in Invocations |-> None]
    /\ fate = [i \in Invocations |-> "none"]

Register(i) ==
    /\ told[i] = None
    /\ \A j \in Invocations : ActionOf[j] = ActionOf[i] => told[j] \in Refused \cup {None}
    /\ told' = [told EXCEPT ![i] = "not-dispatched"]
    /\ UNCHANGED fate

Decline(i) ==
    /\ told[i] = "not-dispatched" /\ fate[i] = "none"
    /\ told' = [told EXCEPT ![i] = "rejected"]
    /\ UNCHANGED fate

Send(i) ==
    /\ told[i] = "not-dispatched" /\ fate[i] = "none"
    /\ \A j \in Invocations : fate[j] # "wire" /\ told[j] # "unknown"
    /\ \A j \in Unconfirmed : SameCall(i, j)
    /\ \A j \in Invocations : ActionOf[j] = ActionOf[i] => fate[j] # "applied"
    /\ told' = [told EXCEPT ![i] = "unknown"]
    /\ fate' = [fate EXCEPT ![i] = "wire"]

Land(i) ==
    /\ fate[i] = "wire"
    /\ \E f \in {"applied", "refused"} : fate' = [fate EXCEPT ![i] = f]
    /\ UNCHANGED told

Learn(i) ==
    /\ told[i] = "unknown"
    /\ \/ fate[i] = "applied" /\ told' = [told EXCEPT ![i] = "succeeded-unconfirmed"]
       \/ fate[i] = "refused" /\ told' = [told EXCEPT ![i] = "rejected"]
    /\ UNCHANGED fate

Confirm(i) ==
    /\ CallOf[i] = None
    /\ told[i] = "succeeded-unconfirmed"
    /\ told' = [told EXCEPT ![i] = "succeeded"]
    /\ UNCHANGED fate

(* Writes of a tool call are confirmed only while none of it is unknown.   *)
(* Not all of them need to be: a crash can leave a call half confirmed.    *)
ConfirmCall(c) ==
    /\ c # None
    /\ \A i \in Invocations : CallOf[i] = c => told[i] # "unknown"
    /\ \E done \in SUBSET {i \in Unconfirmed : CallOf[i] = c} :
          told' = [i \in Invocations |-> IF i \in done THEN "succeeded" ELSE told[i]]
    /\ UNCHANGED fate

Next ==
    \/ \E i \in Invocations :
          Register(i) \/ Decline(i) \/ Send(i) \/ Land(i) \/ Learn(i) \/ Confirm(i)
    \/ \E i \in Invocations : ConfirmCall(CallOf[i])

Spec == Init /\ [][Next]_<<told, fate>>
=============================================================================
