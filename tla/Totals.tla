-------------------------------- MODULE Totals --------------------------------
(***************************************************************************)
(* Sums of the sizes of things, as the counters of the runtime keep them:  *)
(* a thing x of size w[x] is w[x] units, the pairs <<x, 1>> to             *)
(* <<x, w[x]>>, and a total is a number of units.  Said like this, and not *)
(* by recursion over the set, what addition and removal do to a total can  *)
(* be proved.                                                              *)
(***************************************************************************)
EXTENDS Naturals, FiniteSets

Units(w, S) == UNION {{x} \X (1 .. w[x]) : x \in S}
Total(w, S) == Cardinality(Units(w, S))
=============================================================================
