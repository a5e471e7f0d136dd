----------------------------- MODULE GovernedEdit -----------------------------
(***************************************************************************)
(* What a governed edit tool promises the model and the user, whatever     *)
(* leases, queues, reviews and signals are behind it: an edit is applied   *)
(* to the tree at most once and never after its call has been answered,    *)
(* and a call answered "completed" names an edit that was applied.         *)
(***************************************************************************)
CONSTANTS Edits, None

VARIABLES
    tree,    \* the edits applied to the working tree
    answer   \* answer[e]: what the call of e was told, or None

Answers == {"completed", "refused"}

Init ==
    /\ tree = {}
    /\ answer = [e \in Edits |-> None]

Apply(e) ==
    /\ e \notin tree /\ answer[e] = None
    /\ tree' = tree \cup {e}
    /\ UNCHANGED answer

Answer(e, a) ==
    /\ answer[e] = None
    /\ a = "completed" => e \in tree
    /\ answer' = [answer EXCEPT ![e] = a]
    /\ UNCHANGED tree

Next == \E e \in Edits : Apply(e) \/ \E a \in Answers : Answer(e, a)

Spec == Init /\ [][Next]_<<tree, answer>>
=============================================================================
