--------------------------- MODULE MCTaskWorkspace ---------------------------
(* TaskWorkspace for TLC.  The safety run explores three flows of two      *)
(* actors on one workspace, and on both one flow beside a pending pointer  *)
(* flip, with one actor and one identity each: the sum of these two        *)
(* instances, not their product.                                           *)
EXTENDS TaskWorkspace, FiniteSets, TLC

(* Requesters, requests and workspaces are interchangeable.                *)
Symmetry == Permutations(Actors) \cup Permutations(Flows) \cup Permutations(Workspaces)

Busy == {f \in Flows : flow[f] # Idle}

Untouched(w) ==
    row[w] = None /\ disk[w] = minted[w] /\ minted[w] \in {0, 1}
    /\ pointer # w /\ \A f \in Busy : flow[f].ws # w

ActorsAtWork ==
    {flow[f].actor : f \in Busy} \cup {row[w].lock.owner : w \in {v \in Workspaces : row[v] # None /\ row[v].lock # None}}

Awaiting == {f \in Busy : flow[f].pc # "flip"}

Explored ==
    \/ \E w \in Workspaces : Untouched(w)
    \/ /\ Cardinality(Busy) <= 2 /\ Cardinality(Awaiting) <= 1
       /\ Cardinality(ActorsAtWork \ {None}) <= 1
       /\ \A w \in Workspaces : minted[w] <= 1
=============================================================================
