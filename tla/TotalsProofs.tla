----------------------------- MODULE TotalsProofs -----------------------------
(***************************************************************************)
(* What additions, removals and renamings do to a total.  The sets need    *)
(* not be finite themselves, only the units counted: a thing of size 0     *)
(* does not count.                                                         *)
(***************************************************************************)
EXTENDS Totals, FiniteSetTheorems, TLAPS

LEMMA UnitsOf ==
  ASSUME NEW w, NEW S
  PROVE  \A u : u \in Units(w, S) <=> \E x \in S : \E n \in 1 .. w[x] : u = <<x, n>>
  BY DEF Units

(* A part and the rest make up the whole.                                  *)
LEMMA TotalSplit ==
  ASSUME NEW w, NEW S, NEW T \in SUBSET S, IsFiniteSet(Units(w, S))
  PROVE  /\ IsFiniteSet(Units(w, T)) /\ IsFiniteSet(Units(w, S \ T))
         /\ Total(w, S) = Total(w, T) + Total(w, S \ T)
         /\ Total(w, S) \in Nat /\ Total(w, T) \in Nat /\ Total(w, S \ T) \in Nat
<1>1. Units(w, S) = Units(w, T) \cup Units(w, S \ T)
  BY DEF Units
<1>2. Units(w, T) \cap Units(w, S \ T) = {}
  <2> SUFFICES ASSUME NEW u \in Units(w, T), u \in Units(w, S \ T) PROVE FALSE
    OBVIOUS
  <2>1. PICK x \in T : \E n \in 1 .. w[x] : u = <<x, n>>
    BY UnitsOf
  <2>2. PICK y \in S \ T : \E n \in 1 .. w[y] : u = <<y, n>>
    BY UnitsOf
  <2> QED BY <2>1, <2>2
<1>3. IsFiniteSet(Units(w, T)) /\ IsFiniteSet(Units(w, S \ T))
  BY <1>1, FS_Subset
<1>4. Total(w, S) = Total(w, T) + Total(w, S \ T) - 0
  BY <1>1, <1>2, <1>3, FS_Union, FS_EmptySet DEF Total
<1>5. Total(w, S) \in Nat /\ Total(w, T) \in Nat /\ Total(w, S \ T) \in Nat
  BY <1>3, FS_CardinalityType DEF Total
<1> QED BY <1>3, <1>4, <1>5

(* The total of one thing is its size.                                     *)
LEMMA TotalOne ==
  ASSUME NEW w, NEW x, w[x] \in Nat
  PROVE  IsFiniteSet(Units(w, {x})) /\ Total(w, {x}) = w[x]
<1>1. Units(w, {x}) = {x} \X (1 .. w[x])
  BY DEF Units
<1>2. IsFiniteSet(1 .. w[x]) /\ Cardinality(1 .. w[x]) = w[x]
  BY FS_Interval
<1>3. IsFiniteSet({x}) /\ Cardinality({x}) = 1
  BY FS_Singleton
<1>4. IsFiniteSet({x} \X (1 .. w[x])) /\ Cardinality({x} \X (1 .. w[x])) = 1 * w[x]
  BY <1>2, <1>3, FS_Product
<1> QED BY <1>1, <1>4 DEF Total

LEMMA TotalNone == ASSUME NEW w PROVE IsFiniteSet(Units(w, {})) /\ Total(w, {}) = 0
<1>1. Units(w, {}) = {}
  BY DEF Units
<1> QED BY <1>1, FS_EmptySet DEF Total

(* One more thing adds its size.                                           *)
LEMMA TotalAdd ==
  ASSUME NEW w, NEW S, NEW x, x \notin S, w[x] \in Nat, IsFiniteSet(Units(w, S))
  PROVE  /\ IsFiniteSet(Units(w, S \cup {x}))
         /\ Total(w, S \cup {x}) = Total(w, S) + w[x]
         /\ Total(w, S) \in Nat
<1>1. Units(w, S \cup {x}) = Units(w, S) \cup Units(w, {x})
  BY DEF Units
<1>2. Units(w, S) \cap Units(w, {x}) = {}
  <2> SUFFICES ASSUME NEW u \in Units(w, S), u \in Units(w, {x}) PROVE FALSE
    OBVIOUS
  <2>1. PICK y \in S : \E n \in 1 .. w[y] : u = <<y, n>>
    BY UnitsOf
  <2>2. \E n \in 1 .. w[x] : u = <<x, n>>
    BY UnitsOf
  <2> QED BY <2>1, <2>2
<1>3. IsFiniteSet(Units(w, {x})) /\ Cardinality(Units(w, {x})) = w[x]
  BY TotalOne DEF Total
<1>4. Cardinality(Units(w, S)) \in Nat
  BY FS_CardinalityType
<1>5. /\ IsFiniteSet(Units(w, S \cup {x}))
      /\ Cardinality(Units(w, S \cup {x})) = Cardinality(Units(w, S)) + w[x] - 0
  <2> DEFINE A == Units(w, S)
             B == Units(w, {x})
  <2>1. /\ IsFiniteSet(A) /\ IsFiniteSet(B) /\ A \cap B = {}
        /\ Cardinality(B) = w[x] /\ Units(w, S \cup {x}) = A \cup B
    BY <1>1, <1>2, <1>3
  <2>2. Cardinality({}) = 0
    BY FS_EmptySet
  <2> HIDE DEF A, B
  <2>3. /\ IsFiniteSet(A \cup B)
        /\ Cardinality(A \cup B) = Cardinality(A) + Cardinality(B) - Cardinality(A \cap B)
    BY <2>1, FS_Union
  <2> QED BY <2>1, <2>2, <2>3 DEF A
<1> QED BY <1>4, <1>5 DEF Total

(* Only the sizes of the things counted matter.                            *)
LEMMA TotalSame ==
  ASSUME NEW w, NEW v, NEW S, \A x \in S : w[x] = v[x]
  PROVE  Units(w, S) = Units(v, S) /\ Total(w, S) = Total(v, S)
  BY DEF Units, Total

(* Things of no size do not count.                                         *)
LEMMA TotalOfSized ==
  ASSUME NEW w, NEW S, NEW T \in SUBSET S, \A x \in S \ T : w[x] = 0
  PROVE  Units(w, S) = Units(w, T) /\ Total(w, S) = Total(w, T)
<1>1. Units(w, S) = Units(w, T)
  <2>1. \A x \in S \ T : 1 .. w[x] = {}
    OBVIOUS
  <2> QED BY <2>1 DEF Units
<1> QED BY <1>1 DEF Total

(* Another size for one thing replaces its share.                          *)
LEMMA TotalResize ==
  ASSUME NEW w, NEW v, NEW S, NEW x \in S, w[x] \in Nat, v[x] \in Nat,
         \A y \in S \ {x} : w[y] = v[y], IsFiniteSet(Units(w, S))
  PROVE  /\ IsFiniteSet(Units(v, S))
         /\ Total(v, S) = Total(w, S) - w[x] + v[x]
         /\ Total(v, S) \in Nat /\ Total(w, S) \in Nat /\ w[x] <= Total(w, S)
<1>1. /\ Total(w, S) = w[x] + Total(w, S \ {x})
      /\ IsFiniteSet(Units(w, S \ {x}))
      /\ Total(w, S) \in Nat /\ Total(w, S \ {x}) \in Nat
  <2> DEFINE one == {x}
  <2>1. one \in SUBSET S
    OBVIOUS
  <2>2. Total(w, one) = w[x]
    BY TotalOne
  <2> HIDE DEF one
  <2>3. /\ Total(w, S) = Total(w, one) + Total(w, S \ one)
        /\ IsFiniteSet(Units(w, S \ one))
        /\ Total(w, S) \in Nat /\ Total(w, S \ one) \in Nat
    BY <2>1, TotalSplit
  <2> QED BY <2>2, <2>3 DEF one
<1>2. /\ IsFiniteSet(Units(v, S \ {x}))
      /\ Total(v, S \ {x}) = Total(w, S \ {x})
  BY <1>1, TotalSame
<1>3. x \notin S \ {x} /\ (S \ {x}) \cup {x} = S
  OBVIOUS
<1>4. IsFiniteSet(Units(v, S)) /\ Total(v, S) = Total(v, S \ {x}) + v[x]
  BY <1>2, <1>3, TotalAdd
<1> QED BY <1>1, <1>2, <1>4

(* A one-to-one renaming that keeps the sizes keeps the total.             *)
LEMMA TotalRenamed ==
  ASSUME NEW w, NEW v, NEW S, NEW T, NEW f \in [S -> T],
         \A x, y \in S : f[x] = f[y] => x = y,
         \A z \in T : \E x \in S : f[x] = z,
         \A x \in S : v[f[x]] = w[x],
         IsFiniteSet(Units(w, S))
  PROVE  IsFiniteSet(Units(v, T)) /\ Total(v, T) = Total(w, S)
<1> DEFINE U == Units(w, S)
           V == Units(v, T)
           g == [u \in U |-> <<f[u[1]], u[2]>>]
<1>1. g \in [U -> V]
  <2> SUFFICES ASSUME NEW u \in U PROVE <<f[u[1]], u[2]>> \in V
    OBVIOUS
  <2>1. PICK x \in S : \E n \in 1 .. w[x] : u = <<x, n>>
    BY UnitsOf
  <2>2. PICK n \in 1 .. w[x] : u = <<x, n>>
    BY <2>1
  <2>3. f[x] \in T /\ n \in 1 .. v[f[x]] /\ u[1] = x /\ u[2] = n
    BY <2>2
  <2> QED BY <2>3, UnitsOf
<1>2. \A a, b \in U : g[a] = g[b] => a = b
  <2> SUFFICES ASSUME NEW a \in U, NEW b \in U, g[a] = g[b] PROVE a = b
    OBVIOUS
  <2>1. PICK x \in S : \E n \in 1 .. w[x] : a = <<x, n>>
    BY UnitsOf
  <2>2. PICK y \in S : \E n \in 1 .. w[y] : b = <<y, n>>
    BY UnitsOf
  <2>3. <<f[a[1]], a[2]>> = <<f[b[1]], b[2]>>
    OBVIOUS
  <2> QED BY <2>1, <2>2, <2>3
<1>3. \A z \in V : \E a \in U : g[a] = z
  <2> SUFFICES ASSUME NEW z \in V PROVE \E a \in U : g[a] = z
    OBVIOUS
  <2>1. PICK t \in T : \E n \in 1 .. v[t] : z = <<t, n>>
    BY UnitsOf
  <2>2. PICK n \in 1 .. v[t] : z = <<t, n>>
    BY <2>1
  <2>3. PICK x \in S : f[x] = t
    OBVIOUS
  <2>4. <<x, n>> \in U
    BY <2>2, <2>3, UnitsOf
  <2>5. g[<<x, n>>] = z
    BY <2>2, <2>3, <2>4
  <2> QED BY <2>4, <2>5
<1> HIDE DEF U, V, g
<1>4. ExistsBijection(U, V)
  BY <1>1, <1>2, <1>3 DEF ExistsBijection, Bijection, Injection, Surjection, IsInjective
<1> QED BY <1>4, FS_Bijection DEF U, V, Total

(* Finitely many things of a finite size are finitely many units.          *)
LEMMA UnitsFinite ==
  ASSUME NEW w, NEW S, IsFiniteSet(S), \A x \in S : w[x] \in Nat
  PROVE  IsFiniteSet(Units(w, S))
<1> DEFINE f == [x \in S |-> {x} \X (1 .. w[x])]
           P == {{x} \X (1 .. w[x]) : x \in S}
<1>1. f \in Surjection(S, P)
  BY DEF Surjection
<1>2. \A p \in P : IsFiniteSet(p)
  <2> SUFFICES ASSUME NEW x \in S PROVE IsFiniteSet({x} \X (1 .. w[x]))
    OBVIOUS
  <2> HIDE DEF f, P
  <2>1. w[x] \in Int /\ 1 \in Int
    OBVIOUS
  <2>2. IsFiniteSet(1 .. w[x]) /\ IsFiniteSet({x})
    BY <2>1, FS_Interval, FS_Singleton
  <2> QED BY <2>2, FS_Product
<1> HIDE DEF f, P
<1>3. IsFiniteSet(P)
  BY <1>1, FS_Surjection
<1>4. IsFiniteSet(UNION P)
  BY <1>2, <1>3, FS_UNION
<1> QED BY <1>4 DEF Units, P
=============================================================================
