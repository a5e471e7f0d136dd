-------------------------- MODULE RuntimeEventsProofs --------------------------
(***************************************************************************)
(* Machine-checked proofs about RuntimeEvents, for every set of browsers   *)
(* and of model calls, every size of frame and every limit: a browser      *)
(* reads frames once and in order, a connected one has read everything the *)
(* buffer retains, a retry phase has a call that is being retried, and a   *)
(* critical frame stays.  The buffer keeps its limits, its byte counter    *)
(* does not drift, and the reserve always has room for the frame that      *)
(* contains the run.                                                       *)
(***************************************************************************)
EXTENDS RuntimeEvents, TotalsProofs, SequenceTheorems, WellFoundedInduction

Seqs(h) == {f.seq : f \in h.frames}

(* Only a failure is ever demoted: these frames are never evicted.         *)
Lasting(f) == f.critical /\ f.kind # "failure-redacted"

(* A buffer whose frames lie below its next number and may be evicted if   *)
(* they speak of a retry.                                                  *)
Buffer(h) ==
    /\ DOMAIN h = {"next", "frames", "bytes", "terminal"}
    /\ h.next \in Nat /\ h.terminal \in BOOLEAN /\ h.frames \subseteq Frames
    /\ \A f \in h.frames : /\ f.seq < h.next
                           /\ f.kind = "model-gateway-retrying" => ~f.critical

(* The buffer g is h after evictions and demotions.                        *)
Shrunk(h, g) ==
    /\ Buffer(g) /\ g.next = h.next /\ g.terminal = h.terminal
    /\ Seqs(g) \subseteq Seqs(h)
    /\ \A f \in h.frames : Lasting(f) => f \in g.frames
    /\ NewestIsRetrying(g) => NewestIsRetrying(h)

(* What a publication p into the buffer h does, whatever it evicts.        *)
Published(h, p) ==
    /\ p.ok \in BOOLEAN /\ Buffer(p.hub)
    /\ \A f \in h.frames : Lasting(f) => f \in p.hub.frames
    /\ p.ok => p.hub.next = h.next + 1 /\ Seqs(p.hub) \subseteq Seqs(h) \cup {h.next}
    /\ ~p.ok => Shrunk(h, p.hub)

(* A browser that read r, of a buffer that retains the frames F and has    *)
(* numbered those below b: in order, and no retained frame was skipped.    *)
Reads(r, F, b) ==
    /\ r \in Seq(Nat)
    /\ \A i \in 1 .. Len(r) : r[i] < b
    /\ \A i, j \in 1 .. Len(r) : i < j => r[i] < r[j]
    /\ \A n \in F : \A i \in 1 .. Len(r) : n <= r[i] => \E j \in 1 .. Len(r) : r[j] = n

Current(r, F) == \A n \in F : \E j \in 1 .. Len(r) : r[j] = n

Readers ==
    \A c \in Clients :
        /\ acked[c] \in 0 .. Len(received[c])
        /\ \E b \in Nat : Reads(received[c], Seqs(hub), b) /\ (state # "pruned" => b = hub.next)

Connected == \A c \in subs : Current(received[c], Seqs(hub)) /\ ~hub.terminal /\ state # "pruned"

(* A retry phase belongs to a live run with a call that is retried.        *)
RetryVisible ==
    NewestIsRetrying(hub) => /\ Live(state) /\ ~hub.terminal
                             /\ \E m \in Calls : calls[m] = "open"

Shape ==
    /\ state \in RunStates \cup {"pruned"} /\ Buffer(hub)
    /\ subs \subseteq Clients
    /\ received \in [Clients -> Seq(Nat)] /\ acked \in [Clients -> Nat]
    /\ calls \in [Calls -> {"idle", "closed", "open"}]

IInv == Shape /\ Readers /\ Connected /\ RetryVisible

--------------------------------------------------------------------------
(* Sorted enumerations.                                                    *)

Less == {ss \in Nat \X Nat : ss[1] < ss[2]}
LEMMA LessWellFounded == IsWellFoundedOn(Less, Nat)
  BY NatLessThanWellFounded DEF OpToRel, Less

(* A set of numbers that is not empty has a least one.                     *)
LEMMA LeastNumber ==
  ASSUME NEW T \in SUBSET Nat, T # {}
  PROVE  \E x \in T : \A y \in T : x <= y
<1>1. T \subseteq Nat
  OBVIOUS
<1>2. PICK x \in T : \A y \in T : <<y, x>> \notin Less
  BY <1>1, LessWellFounded, WFMin
<1>3. \A y \in T : ~(y < x)
  BY <1>2 DEF Less
<1> QED BY <1>3

Enumerates(q, n, S) ==
    /\ n \in Nat /\ q \in [1 .. n -> S]
    /\ \A x \in S : \E i \in 1 .. n : q[i] = x
    /\ \A i, j \in 1 .. n : i < j => q[i] < q[j]

(* Every set of numbers below a bound can be listed in order: otherwise a  *)
(* least bound k + 1 has a set that cannot, its part below k can, and k is *)
(* either not in the set or goes to the end.                               *)
LEMMA EnumerationExists ==
  ASSUME NEW b \in Nat, NEW S \in SUBSET (0 .. b - 1)
  PROVE  \E n \in Nat : \E q : Enumerates(q, n, S)
<1> DEFINE Fine(k) == \A T \in SUBSET (0 .. k - 1) : \E n \in Nat : \E q : Enumerates(q, n, T)
           Bad == {k \in Nat : ~Fine(k)}
<1>1. Fine(0)
  <2> SUFFICES ASSUME NEW T \in SUBSET (0 .. -1) PROVE Enumerates(<<>>, 0, T)
    OBVIOUS
  <2>1. T = {} /\ 1 .. 0 = {}
    OBVIOUS
  <2> QED BY <2>1 DEF Enumerates
<1>2. ASSUME NEW k \in Nat, Fine(k) PROVE Fine(k + 1)
  <2> SUFFICES ASSUME NEW T \in SUBSET (0 .. k) PROVE \E n \in Nat : \E q : Enumerates(q, n, T)
    BY (k + 1) - 1 = k
  <2>0. PICK n \in Nat : \E q : Enumerates(q, n, T \ {k})
    <3>1. T \ {k} \in SUBSET (0 .. k - 1)
      OBVIOUS
    <3> QED BY <1>2, <3>1
  <2>1. PICK q : Enumerates(q, n, T \ {k})
    BY <2>0
  <2>2. CASE k \notin T
    BY <2>1, <2>2, T \ {k} = T
  <2>3. CASE k \in T
    <3> DEFINE more == [i \in 1 .. n + 1 |-> IF i = n + 1 THEN k ELSE q[i]]
    <3>1. \A i \in 1 .. n : q[i] \in T /\ q[i] < k
      <4>1. \A x \in T \ {k} : x \in T /\ x < k
        OBVIOUS
      <4>2. \A i \in 1 .. n : q[i] \in T \ {k}
        BY <2>1 DEF Enumerates
      <4> QED BY <4>1, <4>2
    <3>2. more \in [1 .. n + 1 -> T]
      <4>1. \A i \in 1 .. n + 1 : i = n + 1 \/ i \in 1 .. n
        OBVIOUS
      <4> QED BY <2>3, <3>1, <4>1
    <3>3. \A x \in T : \E i \in 1 .. n + 1 : more[i] = x
      <4> SUFFICES ASSUME NEW x \in T PROVE \E i \in 1 .. n + 1 : more[i] = x
        OBVIOUS
      <4>1. CASE x = k
        BY <4>1
      <4>2. CASE x # k
        <5>1. PICK i \in 1 .. n : q[i] = x
          BY <2>1, <4>2 DEF Enumerates
        <5>2. i \in 1 .. n + 1 /\ i # n + 1
          OBVIOUS
        <5> QED BY <5>1, <5>2
      <4> QED BY <4>1, <4>2
    <3>4. \A i, j \in 1 .. n + 1 : i < j => more[i] < more[j]
      <4> SUFFICES ASSUME NEW i \in 1 .. n + 1, NEW j \in 1 .. n + 1, i < j
                   PROVE  more[i] < more[j]
        OBVIOUS
      <4>1. i \in 1 .. n /\ more[i] = q[i]
        OBVIOUS
      <4>2. CASE j = n + 1
        BY <3>1, <4>1, <4>2
      <4>3. CASE j \in 1 .. n
        <5>1. more[j] = q[j]
          BY <4>3
        <5> QED BY <2>1, <4>1, <4>3, <5>1 DEF Enumerates
      <4> QED BY <4>2, <4>3
    <3>5. n + 1 \in Nat
      OBVIOUS
    <3> QED BY <3>2, <3>3, <3>4, <3>5 DEF Enumerates
  <2> QED BY <2>2, <2>3
<1>3. Bad = {}
  <2> SUFFICES ASSUME Bad # {} PROVE FALSE
    OBVIOUS
  <2>1. PICK k \in Bad : \A y \in Bad : k <= y
    <3>1. Bad \in SUBSET Nat
      OBVIOUS
    <3> HIDE DEF Bad
    <3> QED BY <3>1, LeastNumber
  <2>2. k \in Nat /\ ~Fine(k)
    OBVIOUS
  <2>3. k # 0
    BY <1>1, <2>2
  <2>4. k - 1 \in Nat /\ (k - 1) + 1 = k
    BY <2>2, <2>3
  <2>5. Fine(k - 1)
    <3>1. k - 1 \notin Bad
      BY <2>1, <2>2, <2>4
    <3> QED BY <2>4, <3>1
  <2> HIDE DEF Fine
  <2> QED BY <1>2, <2>2, <2>4, <2>5
<1>4. Fine(b)
  BY <1>3
<1> QED BY <1>4

(* InOrder lists its set, in order.                                        *)
LEMMA InOrderLists ==
  ASSUME NEW b \in Nat, NEW S \in SUBSET (0 .. b - 1)
  PROVE  LET q == InOrder(S)
         IN /\ q \in Seq(Nat)
            /\ \A i \in 1 .. Len(q) : q[i] \in S
            /\ \A x \in S : \E i \in 1 .. Len(q) : q[i] = x
            /\ \A i, j \in 1 .. Len(q) : i < j => q[i] < q[j]
<1> DEFINE Lists(q) == /\ ToSet(q) = S
                       /\ \A i, j \in 1 .. Cardinality(S) : i < j => q[i] < q[j]
           q == InOrder(S)
<1>0. \A x \in S : x \in Nat
  OBVIOUS
<1>1. PICK n \in Nat : \E r : Enumerates(r, n, S)
  BY EnumerationExists
<1>2. PICK r : Enumerates(r, n, S)
  BY <1>1
<1>3. Cardinality(S) = n
  <2>1. \A i, j \in 1 .. n : r[i] = r[j] => i = j
    <3> SUFFICES ASSUME NEW i \in 1 .. n, NEW j \in 1 .. n, i < j PROVE r[i] # r[j]
      OBVIOUS
    <3>1. r[i] < r[j] /\ r[i] \in S /\ r[j] \in S
      BY <1>2 DEF Enumerates
    <3>2. \A x, y \in Nat : x < y => x # y
      OBVIOUS
    <3> QED BY <1>0, <3>1, <3>2
  <2>2. r \in Injection(1 .. n, S) /\ r \in Surjection(1 .. n, S)
    BY <1>2, <2>1 DEF Enumerates, Injection, IsInjective, Surjection
  <2>3. ExistsBijection(1 .. n, S)
    BY <2>2 DEF ExistsBijection, Bijection
  <2> QED BY <2>3, FS_CountingElements
<1>4. r \in [1 .. Cardinality(S) -> S] /\ Lists(r)
  <2>1. r \in [1 .. n -> S] /\ DOMAIN r = 1 .. n
    BY <1>2 DEF Enumerates
  <2>2. ToSet(r) = S
    BY <1>2, <2>1 DEF Enumerates, ToSet
  <2> QED BY <1>2, <1>3, <2>1, <2>2 DEF Enumerates
<1>5. q \in [1 .. Cardinality(S) -> S] /\ Lists(q)
  <2> HIDE DEF Lists
  <2>1. q = CHOOSE p \in [1 .. Cardinality(S) -> S] : Lists(p)
    BY DEF InOrder, Lists
  <2> QED BY <1>4, <2>1
<1> HIDE DEF q
<1>6. q \in [1 .. n -> Nat] /\ DOMAIN q = 1 .. n
  <2>1. q \in [1 .. n -> S]
    BY <1>3, <1>5
  <2> QED BY <1>0, <2>1
<1>7. q \in Seq(Nat) /\ Len(q) = n
  BY <1>6
<1>8. \A x \in S : \E i \in 1 .. n : q[i] = x
  BY <1>5, <1>6 DEF ToSet
<1> QED BY <1>3, <1>5, <1>7, <1>8 DEF q

--------------------------------------------------------------------------
(* What a browser has read.                                                *)

(* A connection that ends early leaves a part of what was read.            *)
LEMMA ReadsPrefix ==
  ASSUME NEW r, NEW F \in SUBSET Nat, NEW b \in Nat, Reads(r, F, b), NEW m \in 0 .. Len(r)
  PROVE  /\ Reads(SubSeq(r, 1, m), F, b)
         /\ Len(SubSeq(r, 1, m)) = m
<1> DEFINE s == SubSeq(r, 1, m)
<1>1. r \in Seq(Nat) /\ Len(r) \in Nat
  BY DEF Reads
<1>2. s \in Seq(Nat) /\ Len(s) = m /\ \A i \in 1 .. m : i \in 1 .. Len(r) /\ s[i] = r[i]
  BY <1>1
<1> HIDE DEF s
<1>3. ASSUME NEW n \in F, NEW i \in 1 .. m, n <= s[i] PROVE \E j \in 1 .. m : s[j] = n
  <2>1. n <= r[i] /\ i \in 1 .. Len(r)
    BY <1>2, <1>3
  <2>2. PICK j \in 1 .. Len(r) : r[j] = n
    BY <2>1 DEF Reads
  <2>3. ~(i < j)
    <3>1. i < j => r[i] < r[j]
      BY <2>1 DEF Reads
    <3>2. r[i] \in Nat /\ r[j] \in Nat
      BY <1>1, <2>1
    <3> QED BY <2>1, <2>2, <3>1, <3>2
  <2>4. j \in 1 .. m
    BY <1>1, <2>3
  <2> QED BY <1>2, <2>2, <2>4
<1>4. Reads(s, F, b)
  BY <1>2, <1>3 DEF Reads
<1> QED BY <1>2, <1>4 DEF s

(* A new number and evictions change nothing for a browser that was not    *)
(* written to.                                                             *)
LEMMA ReadsLater ==
  ASSUME NEW r, NEW F \in SUBSET Nat, NEW b \in Nat, Reads(r, F, b),
         NEW G \in SUBSET (F \cup {b})
  PROVE  Reads(r, G, b + 1)
<1>1. r \in Seq(Nat) /\ \A i \in 1 .. Len(r) : r[i] \in Nat /\ r[i] < b
  BY DEF Reads
<1>2. ASSUME NEW n \in G, NEW i \in 1 .. Len(r), n <= r[i] PROVE n \in F
  BY <1>1, <1>2
<1> QED BY <1>1, <1>2 DEF Reads

(* A browser that has read everything retained reads the next frame.       *)
LEMMA ReadsNext ==
  ASSUME NEW r, NEW F \in SUBSET Nat, NEW b \in Nat, Reads(r, F, b), Current(r, F),
         NEW G \in SUBSET (F \cup {b})
  PROVE  Reads(Append(r, b), G, b + 1) /\ Current(Append(r, b), G)
<1> DEFINE s == Append(r, b)
<1>1. r \in Seq(Nat) /\ Len(r) \in Nat /\ \A i \in 1 .. Len(r) : r[i] \in Nat /\ r[i] < b
  BY DEF Reads
<1>2. /\ s \in Seq(Nat) /\ Len(s) = Len(r) + 1 /\ s[Len(r) + 1] = b
      /\ \A i \in 1 .. Len(r) : s[i] = r[i]
  BY <1>1
<1> HIDE DEF s
<1>3. \A i \in 1 .. Len(s) : i \in 1 .. Len(r) \/ i = Len(r) + 1
  BY <1>1, <1>2
<1>4. Current(s, G)
  <2> SUFFICES ASSUME NEW n \in G PROVE \E j \in 1 .. Len(s) : s[j] = n
    BY DEF Current
  <2>1. CASE n = b
    BY <1>1, <1>2, <2>1
  <2>2. CASE n \in F
    <3>1. PICK j \in 1 .. Len(r) : r[j] = n
      BY <2>2 DEF Current
    <3>2. j \in 1 .. Len(s)
      BY <1>1, <1>2
    <3> QED BY <1>2, <3>1, <3>2
  <2> QED BY <2>1, <2>2
<1>5. \A i \in 1 .. Len(s) : s[i] < b + 1
  BY <1>1, <1>2, <1>3
<1>6. \A i, j \in 1 .. Len(s) : i < j => s[i] < s[j]
  <2> SUFFICES ASSUME NEW i \in 1 .. Len(s), NEW j \in 1 .. Len(s), i < j PROVE s[i] < s[j]
    OBVIOUS
  <2>1. i \in 1 .. Len(r)
    BY <1>1, <1>2
  <2>2. CASE j = Len(r) + 1
    BY <1>1, <1>2, <2>1, <2>2
  <2>3. CASE j \in 1 .. Len(r)
    <3>1. r[i] < r[j]
      BY <2>1, <2>3 DEF Reads
    <3> QED BY <1>2, <2>1, <2>3, <3>1
  <2> QED BY <1>3, <2>2, <2>3
<1>7. Reads(s, G, b + 1)
  BY <1>2, <1>4, <1>5, <1>6 DEF Reads, Current
<1> QED BY <1>4, <1>7 DEF s

(* A replay from the last number read brings everything that is retained.  *)
LEMMA ReadsReplay ==
  ASSUME NEW b \in Nat, NEW F \in SUBSET (0 .. b - 1), NEW r, Reads(r, F, b), NEW cursor,
         cursor = IF r = <<>> THEN -1 ELSE Last(r),
         NEW q, q = InOrder({n \in F : n > cursor})
  PROVE  /\ q \in Seq(Nat) /\ Reads(r \o q, F, b) /\ Current(r \o q, F)
<1> DEFINE t == r \o q
           S == {n \in F : n > cursor}
           k == Len(r)
<1>1. r \in Seq(Nat) /\ k \in Nat /\ \A i \in 1 .. k : r[i] \in Nat /\ r[i] < b
  BY DEF Reads
<1>2. /\ q \in Seq(Nat) /\ Len(q) \in Nat
      /\ \A i \in 1 .. Len(q) : q[i] \in S
      /\ \A x \in S : \E i \in 1 .. Len(q) : q[i] = x
      /\ \A i, j \in 1 .. Len(q) : i < j => q[i] < q[j]
  <2>1. S \in SUBSET (0 .. b - 1) /\ q = InOrder(S)
    OBVIOUS
  <2> HIDE DEF S
  <2>2. q \in Seq(Nat) => Len(q) \in Nat
    OBVIOUS
  <2> QED BY <2>1, <2>2, InOrderLists
<1>3. cursor \in Int /\ \A i \in 1 .. k : r[i] <= cursor
  <2>1. CASE r = <<>>
    <3>1. k = 0 /\ cursor = -1
      BY <2>1
    <3> QED BY <3>1
  <2>2. CASE r # <<>>
    <3>1. k \in 1 .. k /\ cursor = r[k]
      BY <1>1, <2>2 DEF Last
    <3>2. \A i \in 1 .. k : i < k => r[i] < r[k]
      BY <3>1 DEF Reads
    <3>3. \A i \in 1 .. k : i = k \/ i < k
      BY <1>1
    <3> QED BY <1>1, <3>1, <3>2, <3>3
  <2> QED BY <2>1, <2>2
<1>4. \A x \in S : x \in Nat /\ x < b /\ cursor < x
  BY <1>3
<1>5. /\ t \in Seq(Nat) /\ Len(t) = k + Len(q)
      /\ \A i \in 1 .. k : i \in 1 .. Len(t) /\ t[i] = r[i]
      /\ \A i \in 1 .. Len(q) : k + i \in 1 .. Len(t) /\ t[k + i] = q[i]
  <2>1. /\ t \in Seq(Nat) /\ Len(t) = k + Len(q)
        /\ \A i \in 1 .. k + Len(q) : t[i] = IF i <= k THEN r[i] ELSE q[i - k]
    BY <1>1, <1>2, ConcatProperties
  <2> HIDE DEF t, S
  <2>2. ASSUME NEW i \in 1 .. k PROVE i \in 1 .. Len(t) /\ t[i] = r[i]
    BY <1>1, <1>2, <2>1
  <2>3. ASSUME NEW i \in 1 .. Len(q) PROVE k + i \in 1 .. Len(t) /\ t[k + i] = q[i]
    <3>1. k + i \in 1 .. k + Len(q) /\ ~(k + i <= k) /\ (k + i) - k = i
      BY <1>1, <1>2
    <3> QED BY <2>1, <3>1
  <2> QED BY <2>1, <2>2, <2>3
<1>6. \A i \in 1 .. Len(t) : i \in 1 .. k \/ \E j \in 1 .. Len(q) : i = k + j
  <2> SUFFICES ASSUME NEW i \in 1 .. Len(t), i \notin 1 .. k
               PROVE  \E j \in 1 .. Len(q) : i = k + j
    OBVIOUS
  <2>1. i - k \in 1 .. Len(q) /\ i = k + (i - k)
    BY <1>1, <1>2, <1>5
  <2> QED BY <2>1
<1> HIDE DEF t, S
<1>7. Current(t, F)
  <2> SUFFICES ASSUME NEW n \in F PROVE \E j \in 1 .. Len(t) : t[j] = n
    BY DEF Current
  <2>1. CASE n > cursor
    <3>1. n \in S
      BY <2>1 DEF S
    <3>2. PICK j \in 1 .. Len(q) : q[j] = n
      BY <1>2, <3>1
    <3> QED BY <1>5, <3>2
  <2>2. CASE n <= cursor
    <3>1. n \in Nat
      OBVIOUS
    <3>2. r # <<>>
      BY <1>3, <2>2, <3>1
    <3>3. k \in 1 .. k /\ n <= r[k]
      BY <1>1, <2>2, <3>2 DEF Last
    <3>4. PICK j \in 1 .. k : r[j] = n
      BY <3>3 DEF Reads
    <3> QED BY <1>5, <3>4
  <2> QED BY <1>3, <2>1, <2>2
<1>8. \A i \in 1 .. Len(t) : t[i] \in Nat /\ t[i] < b
  <2> SUFFICES ASSUME NEW i \in 1 .. Len(t) PROVE t[i] \in Nat /\ t[i] < b
    OBVIOUS
  <2>1. CASE i \in 1 .. k
    BY <1>1, <1>5, <2>1
  <2>2. ASSUME NEW j \in 1 .. Len(q), i = k + j PROVE t[i] \in Nat /\ t[i] < b
    BY <1>2, <1>4, <1>5, <2>2
  <2> QED BY <1>6, <2>1, <2>2
<1>9. ASSUME NEW i \in 1 .. Len(t), NEW j \in 1 .. Len(t), i < j PROVE t[i] < t[j]
  <2>1. CASE i \in 1 .. k /\ j \in 1 .. k
    BY <1>5, <1>9, <2>1 DEF Reads
  <2>2. ASSUME i \in 1 .. k, NEW y \in 1 .. Len(q), j = k + y PROVE t[i] < t[j]
    <3>1. t[i] <= cursor /\ cursor < t[j]
      BY <1>2, <1>3, <1>4, <1>5, <2>2
    <3> QED BY <1>3, <1>8, <3>1
  <2>3. ASSUME NEW x \in 1 .. Len(q), NEW y \in 1 .. Len(q), i = k + x, j = k + y
        PROVE  t[i] < t[j]
    <3>1. x < y
      BY <1>1, <1>9, <2>3
    <3> QED BY <1>2, <1>5, <2>3, <3>1
  <2>4. i \in 1 .. k \/ j \notin 1 .. k
    BY <1>1, <1>9
  <2> QED BY <1>6, <2>1, <2>2, <2>3, <2>4
<1>10. Reads(t, F, b)
  BY <1>5, <1>7, <1>8, <1>9 DEF Reads, Current
<1> QED BY <1>2, <1>7, <1>10 DEF t

(* A replay that breaks off is a prefix of one that does not.              *)
LEMMA ReadsPartOfReplay ==
  ASSUME NEW F \in SUBSET Nat, NEW b \in Nat, NEW r \in Seq(Nat), NEW q \in Seq(Nat),
         Reads(r \o q, F, b), NEW n \in 0 .. Len(q)
  PROVE  Reads(r \o SubSeq(q, 1, n), F, b) /\ Len(r \o SubSeq(q, 1, n)) = Len(r) + n
<1> DEFINE part == SubSeq(q, 1, n)
<1>1. /\ Len(r) \in Nat /\ Len(q) \in Nat /\ Len(r) + n \in 0 .. Len(r \o q)
      /\ Len(r \o q) = Len(r) + Len(q)
  BY ConcatProperties
<1>2. part \in Seq(Nat) /\ Len(part) = n /\ \A i \in 1 .. n : part[i] = q[i]
  BY <1>1
<1> HIDE DEF part
<1>3. /\ r \o part \in Seq(Nat) /\ Len(r \o part) = Len(r) + n
      /\ \A i \in 1 .. Len(r) + n : (r \o part)[i] = IF i <= Len(r) THEN r[i] ELSE part[i - Len(r)]
  BY <1>2, ConcatProperties
<1>4. \A i \in 1 .. Len(r) + Len(q) : (r \o q)[i] = IF i <= Len(r) THEN r[i] ELSE q[i - Len(r)]
  BY ConcatProperties
<1>5. /\ SubSeq(r \o q, 1, Len(r) + n) \in Seq(Nat)
      /\ Len(SubSeq(r \o q, 1, Len(r) + n)) = Len(r) + n
      /\ \A i \in 1 .. Len(r) + n : SubSeq(r \o q, 1, Len(r) + n)[i] = (r \o q)[i]
  <2>1. r \o q \in Seq(Nat)
    BY ConcatProperties
  <2> QED BY <1>1, <2>1
<1>6. \A i \in 1 .. Len(r) + n : SubSeq(r \o q, 1, Len(r) + n)[i] = (r \o part)[i]
  <2> SUFFICES ASSUME NEW i \in 1 .. Len(r) + n PROVE (r \o q)[i] = (r \o part)[i]
    BY <1>5
  <2>1. i \in 1 .. Len(r) + Len(q)
    BY <1>1
  <2>2. ~(i <= Len(r)) => i - Len(r) \in 1 .. n
    BY <1>1
  <2> QED BY <1>2, <1>3, <1>4, <2>1, <2>2
<1>7. r \o part = SubSeq(r \o q, 1, Len(r) + n)
  BY <1>3, <1>5, <1>6, SeqEqual
<1> QED BY <1>1, <1>3, <1>7, ReadsPrefix DEF part

--------------------------------------------------------------------------
(* The hub.                                                                *)

LEMMA ShrunkTrans ==
  ASSUME NEW h, NEW g, NEW k, Shrunk(h, g), Shrunk(g, k)
  PROVE  Shrunk(h, k)
  BY DEF Shrunk

LEMMA ShrunkSelf ==
  ASSUME NEW h, Buffer(h)
  PROVE  Shrunk(h, h)
  BY DEF Shrunk

LEMMA KeepFromKeeps ==
  ASSUME NEW h, Buffer(h), NEW n \in Int
  PROVE  LET k == KeepFrom(h, n)
         IN /\ DOMAIN k = {"next", "frames", "bytes", "terminal"}
            /\ k.next = h.next /\ k.terminal = h.terminal
            /\ k.frames = h.frames \ {f \in h.frames : ~f.critical /\ f.seq < n}
<1> DEFINE gone == {f \in h.frames : ~f.critical /\ f.seq < n}
           k == KeepFrom(h, n)
<1>1. k = [h EXCEPT !.frames = h.frames \ gone, !.bytes = h.bytes - BytesOf(gone)]
  BY DEF KeepFrom
<1> HIDE DEF k
<1> QED BY <1>1 DEF Buffer, k

(* An eviction of lossy frames, oldest first, never uncovers a retry       *)
(* frame: that one is older and lossy, so it is evicted before.            *)
LEMMA KeepFromShrinks ==
  ASSUME NEW h, Buffer(h), NEW n \in Int
  PROVE  Shrunk(h, KeepFrom(h, n))
<1> DEFINE gone == {f \in h.frames : ~f.critical /\ f.seq < n}
           k == KeepFrom(h, n)
<1>1. /\ DOMAIN k = {"next", "frames", "bytes", "terminal"}
      /\ k.next = h.next /\ k.frames = h.frames \ gone /\ k.terminal = h.terminal
  BY KeepFromKeeps
<1> HIDE DEF k
<1>2. \A f \in h.frames : f.seq \in Nat
  BY DEF Buffer, Frames
<1>3. Buffer(k)
  BY <1>1 DEF Buffer
<1>4. ASSUME NewestIsRetrying(k) PROVE NewestIsRetrying(h)
  <2>1. PICK f \in k.frames : /\ f.kind = "model-gateway-retrying"
                             /\ \A g \in k.frames : g.seq <= f.seq
    BY <1>4 DEF NewestIsRetrying
  <2>2. f \in h.frames /\ ~f.critical /\ ~(f.seq < n)
    BY <1>1, <2>1 DEF Buffer
  <2>3. ASSUME NEW g \in h.frames PROVE g.seq <= f.seq
    <3>1. CASE g \in k.frames
      BY <2>1, <3>1
    <3>2. CASE g \notin k.frames
      <4>1. g.seq < n
        BY <1>1, <3>2
      <4> QED BY <1>2, <2>2, <4>1
    <3> QED BY <3>1, <3>2
  <2> QED BY <2>1, <2>2, <2>3 DEF NewestIsRetrying
<1>5. Seqs(k) \subseteq Seqs(h)
  BY <1>1 DEF Seqs
<1>6. \A f \in h.frames : Lasting(f) => f \in k.frames
  BY <1>1 DEF Lasting
<1>7. k.next = h.next /\ k.terminal = h.terminal
  BY <1>1
<1> QED BY <1>3, <1>4, <1>5, <1>6, <1>7 DEF Shrunk, k

(* After all lossy frames are gone there is no retry frame.                *)
LEMMA NoLossyNoRetry ==
  ASSUME NEW h, Buffer(h), \A f \in h.frames : f.critical
  PROVE  ~NewestIsRetrying(h)
  BY DEF Buffer, NewestIsRetrying

LEMMA RemoveLossyShrinks ==
  ASSUME NEW h, Buffer(h)
  PROVE  /\ Shrunk(h, RemoveLossy(h))
         /\ \A f \in RemoveLossy(h).frames : f.critical
<1> DEFINE k == RemoveLossy(h)
<1>0. k = [h EXCEPT !.frames = Critical(h.frames),
                   !.bytes = h.bytes - BytesOf(h.frames \ Critical(h.frames))]
  BY DEF RemoveLossy
<1> HIDE DEF k
<1>1. /\ DOMAIN k = {"next", "frames", "bytes", "terminal"}
      /\ k.next = h.next /\ k.frames = Critical(h.frames) /\ k.terminal = h.terminal
  BY <1>0 DEF Buffer
<1>2. k.frames \subseteq h.frames /\ \A f \in k.frames : f.critical
  BY <1>1 DEF Critical
<1>3. Buffer(k)
  BY <1>1, <1>2 DEF Buffer
<1>4. ~NewestIsRetrying(k)
  BY <1>2, <1>3, NoLossyNoRetry
<1>5. Seqs(k) \subseteq Seqs(h)
  BY <1>2 DEF Seqs
<1>6. \A f \in h.frames : Lasting(f) => f \in k.frames
  BY <1>1 DEF Lasting, Critical
<1>7. k.next = h.next /\ k.terminal = h.terminal
  BY <1>1
<1> QED BY <1>2, <1>3, <1>4, <1>5, <1>6, <1>7 DEF Shrunk, k

LEMMA DemotionShrinks ==
  ASSUME NEW h, Buffer(h)
  PROVE  Shrunk(h, DemotePriorTurnFailures(h))
<1> DEFINE Demoted(f) == IF f.kind = "failure-redacted" THEN [f EXCEPT !.critical = FALSE] ELSE f
           k == DemotePriorTurnFailures(h)
<1>0. k = [h EXCEPT !.frames = {Demoted(f) : f \in h.frames}]
  BY DEF DemotePriorTurnFailures
<1>2. ASSUME NEW f \in h.frames
      PROVE  /\ Demoted(f) \in Frames /\ Demoted(f).seq = f.seq /\ Demoted(f).kind = f.kind
             /\ f.kind # "failure-redacted" => Demoted(f) = f
  BY DEF Buffer, Frames
<1> HIDE DEF k, Demoted
<1>1. /\ DOMAIN k = {"next", "frames", "bytes", "terminal"}
      /\ k.next = h.next /\ k.frames = {Demoted(f) : f \in h.frames} /\ k.terminal = h.terminal
  BY <1>0 DEF Buffer
<1>3. Buffer(k)
  <2>1. k.frames \subseteq Frames
    BY <1>1, <1>2
  <2>2. ASSUME NEW g \in k.frames
        PROVE  g.seq < h.next /\ (g.kind = "model-gateway-retrying" => ~g.critical)
    <3>1. PICK f \in h.frames : g = Demoted(f)
      BY <1>1
    <3> QED BY <1>2, <3>1 DEF Buffer
  <2> QED BY <1>1, <2>1, <2>2 DEF Buffer
<1>4. Seqs(k) \subseteq Seqs(h)
  BY <1>1, <1>2 DEF Seqs
<1>5. \A f \in h.frames : Lasting(f) => f \in k.frames
  BY <1>1, <1>2 DEF Lasting
<1>6. ASSUME NewestIsRetrying(k) PROVE NewestIsRetrying(h)
  <2>1. PICK g \in k.frames : /\ g.kind = "model-gateway-retrying"
                             /\ \A x \in k.frames : x.seq <= g.seq
    BY <1>6 DEF NewestIsRetrying
  <2>2. PICK f \in h.frames : g = Demoted(f)
    BY <1>1, <2>1
  <2>3. f.kind = "model-gateway-retrying" /\ f.seq = g.seq
    BY <1>2, <2>1, <2>2
  <2>4. ASSUME NEW x \in h.frames PROVE x.seq <= f.seq
    <3>1. Demoted(x) \in k.frames
      BY <1>1
    <3> QED BY <1>2, <2>1, <2>3, <3>1
  <2> QED BY <2>3, <2>4 DEF NewestIsRetrying
<1>7. k.next = h.next /\ k.terminal = h.terminal
  BY <1>1
<1> QED BY <1>3, <1>4, <1>5, <1>6, <1>7 DEF Shrunk, k

(* Room is made by evictions alone, and refused only to a critical frame   *)
(* or with no lossy frame left.                                            *)
LEMMA MakeCapacityShrinks ==
  ASSUME NEW h, Buffer(h), NEW f
  PROVE  LET room == MakeCapacity(h, f)
         IN /\ room.ok \in BOOLEAN /\ Shrunk(h, room.hub)
            /\ room = [ok |-> room.ok, hub |-> room.hub]
            /\ ~room.ok /\ ~f.critical => ~NewestIsRetrying(room.hub)
<1> DEFINE cuts == {n \in 0 .. h.next : HasRoom(KeepFrom(h, n), f)}
<1>1. CASE ReserveTaken(h, f)
  <2>1. MakeCapacity(h, f) = [ok |-> FALSE, hub |-> h]
    BY <1>1 DEF MakeCapacity
  <2>2. f.critical
    BY <1>1 DEF ReserveTaken
  <2> QED BY <2>1, <2>2, ShrunkSelf
<1>2. CASE ~ReserveTaken(h, f) /\ cuts = {}
  <2> DEFINE k == KeepFrom(h, h.next)
  <2>1. MakeCapacity(h, f) = [ok |-> FALSE, hub |-> k]
    BY <1>2 DEF MakeCapacity
  <2>2. Shrunk(h, k)
    BY KeepFromShrinks DEF Buffer
  <2>3. k.frames = h.frames \ {g \in h.frames : ~g.critical /\ g.seq < h.next}
    BY KeepFromKeeps DEF Buffer
  <2>4. \A g \in k.frames : g.critical
    BY <2>3 DEF Buffer
  <2> HIDE DEF k
  <2>5. ~NewestIsRetrying(k)
    BY <2>2, <2>4, NoLossyNoRetry DEF Shrunk
  <2> QED BY <2>1, <2>2, <2>5
<1>3. CASE ~ReserveTaken(h, f) /\ cuts # {}
  <2> DEFINE n == Min(cuts)
  <2>1. MakeCapacity(h, f) = [ok |-> TRUE, hub |-> KeepFrom(h, n)]
    BY <1>3 DEF MakeCapacity
  <2>2. n \in Int
    <3>1. cuts \in SUBSET Nat
      BY DEF Buffer
    <3> HIDE DEF cuts, n
    <3>2. \E x \in cuts : \A y \in cuts : x <= y
      BY <1>3, <3>1, LeastNumber
    <3>3. n \in cuts
      BY <3>2 DEF Min, n
    <3> QED BY <3>1, <3>3
  <2> HIDE DEF n
  <2>3. Shrunk(h, KeepFrom(h, n))
    BY <2>2, KeepFromShrinks
  <2> QED BY <2>1, <2>3
<1> QED BY <1>1, <1>2, <1>3

(* Of the kinds that are published, only a failure weighs in the judgement *)
(* of a frame; the rest is its state.                                      *)
LEMMA Judged ==
  ASSUME NEW s, NEW k \in FrameKinds
  PROVE  /\ IsTerminal(s, k) = (s \in TerminalStates)
         /\ IsContainment(s, k) = Contained(s)
         /\ IsCritical(s, k) = (Contained(s) \/ s = "awaiting-approval" \/ k = "failure-redacted")
<1>1. IsTerminal(s, k) = (s \in TerminalStates)
  BY DEF IsTerminal, FrameKinds
<1>2. IsContainment(s, k) = Contained(s)
  BY DEF IsContainment, IsTerminal, Contained, FrameKinds
<1>3. IsCritical(s, k) = (Contained(s) \/ s = "awaiting-approval" \/ k = "failure-redacted")
  BY DEF IsCritical, IsContainment, IsTerminal, Contained, FrameKinds
<1> QED BY <1>1, <1>2, <1>3

(* A publication numbers the frame when it is taken, only evicts when it   *)
(* is refused, and never drops a lasting frame.                            *)
LEMMA PublishPublishes ==
  ASSUME NEW h, Buffer(h), NEW s \in RunStates, NEW k \in FrameKinds,
         k = "model-gateway-retrying" => Live(s)
  PROVE  LET p == Publish(h, s, k)
         IN /\ Published(h, p)
            /\ p.ok => /\ p.hub.terminal = (s \in TerminalStates)
                       /\ NewestIsRetrying(p.hub) => k = "model-gateway-retrying"
            /\ ~p.ok /\ (Contained(s) \/ ~IsCritical(s, k)) => ~NewestIsRetrying(p.hub)
<1> DEFINE f == [seq |-> h.next, state |-> s, kind |-> k, critical |-> IsCritical(s, k)]
           cleared == IF Contained(s) THEN RemoveLossy(h) ELSE h
           demoted == IF k = "failure-redacted" THEN DemotePriorTurnFailures(cleared) ELSE cleared
           room == MakeCapacity(demoted, f)
           taken == [next |-> h.next + 1, frames |-> room.hub.frames \cup {f},
                     bytes |-> room.hub.bytes + FrameBytes[k], terminal |-> s \in TerminalStates]
           p == Publish(h, s, k)
<1>1. p = IF room.ok THEN [ok |-> TRUE, hub |-> taken] ELSE room
  BY Judged DEF Publish
<1>2. Shrunk(h, cleared) /\ (Contained(s) => ~NewestIsRetrying(cleared))
  BY RemoveLossyShrinks, ShrunkSelf, NoLossyNoRetry DEF Shrunk
<1>3. Shrunk(h, demoted) /\ (Contained(s) => ~NewestIsRetrying(demoted))
  <2> HIDE DEF cleared
  <2> QED BY <1>2, DemotionShrinks, ShrunkTrans DEF Shrunk
<1>4. f \in Frames
  <2>1. IsCritical(s, k) \in BOOLEAN
    BY DEF IsCritical
  <2> QED BY <2>1 DEF Frames, Buffer
<1>5. f.seq = h.next /\ f.kind = k /\ f.critical = IsCritical(s, k)
  OBVIOUS
<1> HIDE DEF demoted, f, p
<1>6. /\ room.ok \in BOOLEAN /\ Shrunk(demoted, room.hub)
      /\ room = [ok |-> room.ok, hub |-> room.hub]
      /\ ~room.ok /\ ~f.critical => ~NewestIsRetrying(room.hub)
  BY <1>3, MakeCapacityShrinks DEF Shrunk
<1> HIDE DEF room
<1>7. Shrunk(h, room.hub) /\ (Contained(s) => ~NewestIsRetrying(room.hub))
  BY <1>3, <1>6, ShrunkTrans DEF Shrunk
<1>8. CASE room.ok
  <2>1. p.ok = TRUE /\ p.hub = taken
    BY <1>1, <1>8
  <2>2. k = "model-gateway-retrying" => ~IsCritical(s, k)
    BY Judged DEF Live, Contained, TerminalStates
  <2>3. room.hub.frames \subseteq Frames /\ \A g \in room.hub.frames : g.seq < h.next
    BY <1>7 DEF Shrunk, Buffer
  <2>4. /\ taken.next = h.next + 1 /\ taken.frames = room.hub.frames \cup {f}
        /\ taken.terminal = (s \in TerminalStates) /\ taken.terminal \in BOOLEAN
        /\ DOMAIN taken = {"next", "frames", "bytes", "terminal"}
    OBVIOUS
  <2> HIDE DEF taken
  <2>5. Buffer(taken)
    <3>1. h.next \in Nat /\ h.next + 1 \in Nat
      BY DEF Buffer
    <3>2. taken.frames \subseteq Frames
      BY <1>4, <2>3, <2>4
    <3>3. ASSUME NEW g \in taken.frames
          PROVE  g.seq < taken.next /\ (g.kind = "model-gateway-retrying" => ~g.critical)
      <4>1. CASE g = f
        BY <1>5, <2>2, <2>4, <3>1, <4>1
      <4>2. CASE g \in room.hub.frames
        <5>1. g.seq \in Nat /\ g.seq < h.next
          BY <2>3, <4>2 DEF Frames
        <5>2. g.kind = "model-gateway-retrying" => ~g.critical
          BY <1>7, <4>2 DEF Shrunk, Buffer
        <5> QED BY <2>4, <3>1, <5>1, <5>2
      <4> QED BY <2>4, <3>3, <4>1, <4>2
    <3> QED BY <2>4, <3>1, <3>2, <3>3 DEF Buffer
  <2>6. ASSUME NewestIsRetrying(taken) PROVE k = "model-gateway-retrying"
    <3>1. PICK g \in taken.frames : /\ g.kind = "model-gateway-retrying"
                                   /\ \A x \in taken.frames : x.seq <= g.seq
      BY <2>6 DEF NewestIsRetrying
    <3>2. h.next <= g.seq
      BY <1>5, <2>4, <3>1
    <3>3. g \notin room.hub.frames
      <4>1. g \in room.hub.frames => g.seq \in Nat /\ g.seq < h.next
        BY <2>3 DEF Frames
      <4>2. h.next \in Nat
        BY DEF Buffer
      <4> QED BY <3>2, <4>1, <4>2
    <3> QED BY <1>5, <2>4, <3>1, <3>3
  <2>7. Seqs(taken) \subseteq Seqs(h) \cup {h.next}
    <3>1. Seqs(taken) = Seqs(room.hub) \cup {f.seq}
      BY <2>4 DEF Seqs
    <3> QED BY <1>5, <1>7, <3>1 DEF Shrunk
  <2>8. \A g \in h.frames : Lasting(g) => g \in taken.frames
    BY <1>7, <2>4 DEF Shrunk
  <2> QED BY <2>1, <2>4, <2>5, <2>6, <2>7, <2>8 DEF Published, p
<1>9. CASE ~room.ok
  <2>1. p.ok = FALSE /\ p.hub = room.hub
    BY <1>1, <1>6, <1>9
  <2>2. Published(h, p)
    BY <1>7, <2>1 DEF Published, Shrunk
  <2> QED BY <1>5, <1>6, <1>7, <1>9, <2>1, <2>2 DEF p
<1> QED BY <1>6, <1>8, <1>9

(* A publication into a buffer that an earlier one has shrunk.             *)
LEMMA PublishedAgain ==
  ASSUME NEW h, NEW g, NEW p, Shrunk(h, g), Published(g, p)
  PROVE  Published(h, p)
<1>1. ~p.ok => Shrunk(h, p.hub)
  BY ShrunkTrans DEF Published
<1> QED BY <1>1 DEF Published, Shrunk

LEMMA SeqsNumbered ==
  ASSUME NEW h, Buffer(h)
  PROVE  Seqs(h) \in SUBSET (0 .. h.next - 1) /\ Seqs(h) \in SUBSET Nat
<1>1. \A f \in h.frames : f.seq \in Nat /\ f.seq < h.next
  BY DEF Buffer, Frames
<1>2. h.next \in Nat
  BY DEF Buffer
<1>3. \A n \in Nat : n < h.next => n \in 0 .. h.next - 1
  BY <1>2
<1> QED BY <1>1, <1>3 DEF Seqs

LEMMA NotPruned == "pruned" \notin RunStates
  BY EventConstants DEF LegalTransitions, TerminalStates

LEMMA ContainedIsNotLive == \A s : Live(s) => ~Contained(s) /\ s # "pruned"
  BY DEF Live, Contained, TerminalStates

--------------------------------------------------------------------------
(* The inductive invariant.                                                *)

LEMMA InitIInv == Init => IInv
<1> SUFFICES ASSUME Init PROVE IInv
  OBVIOUS
<1>1. Buffer(hub) /\ Seqs(hub) = {} /\ hub.next = 0
  BY DEF Init, NewRun, Buffer, Seqs
<1>2. Shape
  BY <1>1, EventConstants DEF Init, Shape
<1>3. Readers
  <2>1. Reads(<<>>, {}, 0)
    BY DEF Reads
  <2> QED BY <1>1, <2>1 DEF Init, Readers
<1>4. Connected /\ RetryVisible
  BY DEF Init, Connected, RetryVisible, NewRun, NewestIsRetrying
<1> QED BY <1>2, <1>3, <1>4 DEF IInv

LastingStay == state' # "pruned" => \A f \in hub.frames : Lasting(f) => f \in hub'.frames

(* A publication with its fan-out, whatever it evicts and whoever stalls.  *)
LEMMA EmitKeeps ==
  ASSUME IInv, NEW p, Published(hub, p), Emit(p), state \in RunStates, state' \in RunStates,
         calls' \in [Calls -> {"idle", "closed", "open"}], RetryVisible'
  PROVE  IInv' /\ LastingStay
<1>1. /\ hub' = p.hub /\ Buffer(hub) /\ Buffer(hub') /\ acked' = acked /\ p.ok \in BOOLEAN
      /\ subs \subseteq Clients /\ hub.next \in Nat
  BY DEF IInv, Shape, Emit, Published, Buffer
<1>2. LastingStay
  BY <1>1 DEF Published, LastingStay
<1>3. state # "pruned" /\ state' # "pruned"
  BY NotPruned
<1>4. \A c \in Clients : /\ received[c] \in Seq(Nat) /\ acked[c] \in 0 .. Len(received[c])
                        /\ Reads(received[c], Seqs(hub), hub.next)
  BY <1>3 DEF IInv, Shape, Readers
<1>5. Seqs(hub) \in SUBSET Nat /\ Seqs(hub') \in SUBSET Nat
  BY <1>1, SeqsNumbered
<1>6. CASE ~p.ok
  <2>1. UNCHANGED <<received, subs>>
    BY <1>6 DEF Emit
  <2>2. Seqs(hub') \subseteq Seqs(hub) /\ hub'.next = hub.next /\ hub'.terminal = hub.terminal
    BY <1>1, <1>6 DEF Published, Shrunk
  <2>3. \A c \in Clients : Reads(received[c], Seqs(hub'), hub.next)
    BY <1>4, <2>2 DEF Reads
  <2>4. Readers'
    BY <1>1, <1>4, <2>1, <2>2, <2>3 DEF Readers
  <2>5. Connected'
    BY <1>3, <2>1, <2>2 DEF IInv, Connected, Current
  <2> QED BY <1>1, <1>2, <2>1, <2>4, <2>5 DEF IInv, Shape
<1>7. CASE p.ok
  <2>1. hub'.next = hub.next + 1 /\ Seqs(hub') \subseteq Seqs(hub) \cup {hub.next}
    BY <1>1, <1>7 DEF Published
  <2>2. PICK stalled \in SUBSET subs : \E late \in SUBSET stalled :
          /\ received' = [c \in Clients |-> IF c \in (subs \ stalled) \cup late
                                            THEN Append(received[c], hub.next) ELSE received[c]]
          /\ subs' = IF hub'.terminal THEN {} ELSE subs \ stalled
    BY <1>1, <1>7 DEF Emit, FanOut
  <2>3. PICK late \in SUBSET stalled :
          /\ received' = [c \in Clients |-> IF c \in (subs \ stalled) \cup late
                                            THEN Append(received[c], hub.next) ELSE received[c]]
          /\ subs' = IF hub'.terminal THEN {} ELSE subs \ stalled
    BY <2>2
  <2>4. ASSUME NEW c \in subs
        PROVE  /\ Reads(Append(received[c], hub.next), Seqs(hub'), hub.next + 1)
               /\ Current(Append(received[c], hub.next), Seqs(hub'))
    <3>1. Current(received[c], Seqs(hub)) /\ c \in Clients
      BY <1>1 DEF IInv, Connected
    <3> QED BY <1>1, <1>4, <1>5, <2>1, <3>1, ReadsNext
  <2>5. ASSUME NEW c \in Clients
        PROVE  /\ Reads(received'[c], Seqs(hub'), hub.next + 1)
               /\ received'[c] \in Seq(Nat)
               /\ acked[c] \in 0 .. Len(received'[c])
    <3>1. CASE c \in (subs \ stalled) \cup late
      <4>1. received'[c] = Append(received[c], hub.next) /\ c \in subs
        BY <2>3, <3>1
      <4>2. Len(Append(received[c], hub.next)) = Len(received[c]) + 1
        BY <1>1, <1>4
      <4>3. acked[c] \in 0 .. Len(received[c]) + 1
        BY <1>4
      <4> QED BY <2>4, <4>1, <4>2, <4>3 DEF Reads
    <3>2. CASE c \notin (subs \ stalled) \cup late
      <4>1. received'[c] = received[c]
        BY <2>3, <3>2
      <4> QED BY <1>1, <1>4, <1>5, <2>1, <4>1, ReadsLater
    <3> QED BY <3>1, <3>2
  <2>6. Readers'
    <3>1. hub.next + 1 \in Nat
      BY <1>1
    <3> QED BY <1>1, <2>1, <2>5, <3>1 DEF Readers
  <2>7. Connected'
    <3> SUFFICES ASSUME NEW c \in subs'
                 PROVE  Current(received'[c], Seqs(hub')) /\ ~hub'.terminal
      BY <1>3 DEF Connected
    <3>1. c \in subs \ stalled /\ ~hub'.terminal
      BY <2>3
    <3>2. received'[c] = Append(received[c], hub.next)
      BY <1>1, <2>3, <3>1
    <3> QED BY <2>4, <3>1, <3>2
  <2>8. received' \in [Clients -> Seq(Nat)] /\ subs' \subseteq Clients
    <3>1. DOMAIN received' = Clients /\ received' = [c \in Clients |-> received'[c]]
      BY <2>3
    <3> QED BY <1>1, <2>3, <2>5, <3>1
  <2> QED BY <1>1, <1>2, <2>6, <2>7, <2>8 DEF IInv, Shape
<1> QED BY <1>1, <1>6, <1>7

(* A step that touches only the calls.                                     *)
LEMMA OnlyCallsKeep ==
  ASSUME IInv, UNCHANGED <<state, hub, subs, received, acked>>,
         calls' \in [Calls -> {"idle", "closed", "open"}], RetryVisible'
  PROVE  IInv' /\ LastingStay
<1>1. Shape' /\ LastingStay
  BY DEF IInv, Shape, LastingStay
<1>2. Readers' /\ Connected'
  BY DEF IInv, Readers, Connected
<1> QED BY <1>1, <1>2 DEF IInv

(* The second publication, after a refused one, ends any retry phase.      *)
LEMMA RecoverKeeps ==
  ASSUME IInv, state \in RunStates, NEW p, Published(hub, p), ~p.ok, RecoverFrom(p),
         UNCHANGED calls
  PROVE  IInv' /\ LastingStay
<1> DEFINE q == Publish(p.hub, "recovery-required", "status")
<1>1. Shrunk(hub, p.hub) /\ Buffer(p.hub)
  BY DEF Published
<1>2. "recovery-required" \in RunStates /\ "status" \in FrameKinds
      /\ Contained("recovery-required")
  BY EventConstants DEF FrameKinds, Contained
<1>3. Published(p.hub, q) /\ ~NewestIsRetrying(q.hub) /\ q.ok \in BOOLEAN
  <2> HIDE DEF q
  <2>1. /\ Published(p.hub, q)
        /\ q.ok => (NewestIsRetrying(q.hub) => "status" = "model-gateway-retrying")
        /\ ~q.ok => ~NewestIsRetrying(q.hub)
    BY <1>1, <1>2, PublishPublishes DEF q
  <2> QED BY <2>1 DEF Published
<1>4. Published(hub, q)
  BY <1>1, <1>3, PublishedAgain
<1>5. state' = "recovery-required" /\ Emit(q) /\ hub' = q.hub
  BY DEF RecoverFrom, Emit
<1>6. RetryVisible'
  BY <1>3, <1>5 DEF RetryVisible
<1>7. calls' \in [Calls -> {"idle", "closed", "open"}]
  BY DEF IInv, Shape
<1> HIDE DEF q
<1> QED BY <1>2, <1>4, <1>5, <1>6, <1>7, EmitKeeps

(* A status or tool frame that is taken, or that contains the run.         *)
LEMMA ProjectionKeeps ==
  ASSUME IInv, state \in RunStates, NEW s \in RunStates, NEW k \in {"status", "tool-event"},
         LET p == Publish(hub, s, k)
         IN IF p.ok \/ Contained(s) THEN state' = s /\ Emit(p) ELSE RecoverFrom(p),
         UNCHANGED calls
  PROVE  IInv' /\ LastingStay
<1> DEFINE p == Publish(hub, s, k)
<1>1. Buffer(hub) /\ k \in FrameKinds /\ k # "model-gateway-retrying"
  BY DEF IInv, Shape, FrameKinds
<1>2. /\ Published(hub, p)
      /\ p.ok => ~NewestIsRetrying(p.hub)
      /\ ~p.ok /\ Contained(s) => ~NewestIsRetrying(p.hub)
  <2> HIDE DEF p
  <2> QED BY <1>1, PublishPublishes DEF p
<1>3. IF p.ok \/ Contained(s) THEN state' = s /\ Emit(p) ELSE RecoverFrom(p)
  OBVIOUS
<1> HIDE DEF p
<1>4. p.ok \in BOOLEAN
  BY <1>2 DEF Published
<1>5. CASE p.ok \/ Contained(s)
  <2>1. state' = s /\ Emit(p) /\ hub' = p.hub /\ ~NewestIsRetrying(p.hub)
    BY <1>2, <1>3, <1>4, <1>5 DEF Emit
  <2>2. RetryVisible'
    BY <2>1 DEF RetryVisible
  <2>3. calls' \in [Calls -> {"idle", "closed", "open"}]
    BY DEF IInv, Shape
  <2> QED BY <1>2, <2>1, <2>2, <2>3, EmitKeeps
<1>6. CASE ~(p.ok \/ Contained(s))
  BY <1>2, <1>3, <1>6, RecoverKeeps
<1> QED BY <1>5, <1>6

LEMMA MayPublishRunning ==
  ASSUME IInv, MayPublish
  PROVE  state \in RunStates
  BY DEF IInv, Shape, MayPublish

LEMMA TransitionKeeps ==
  ASSUME IInv, NEW to \in RunStates, Transition(to)
  PROVE  IInv' /\ LastingStay
<1>1. state \in RunStates
  BY MayPublishRunning DEF Transition
<1> QED BY <1>1, ProjectionKeeps DEF Transition

LEMMA PublishOrRecoverKeeps ==
  ASSUME IInv, PublishOrRecover
  PROVE  IInv' /\ LastingStay
<1>1. state \in RunStates
  BY MayPublishRunning DEF PublishOrRecover
<1> QED BY <1>1, ProjectionKeeps DEF PublishOrRecover

(* A settled run in which not even a revision fits needs recovery, and the *)
(* refusal of the first frame leaves no retry to show.                     *)
LEMMA AdvanceRevisionKeeps ==
  ASSUME IInv, AdvanceRevision
  PROVE  IInv' /\ LastingStay
<1> DEFINE p == Publish(hub, state, "status")
<1>1. state \in RunStates
  BY MayPublishRunning DEF AdvanceRevision
<1>2. Buffer(hub) /\ "status" \in FrameKinds
  BY DEF IInv, Shape, FrameKinds
<1>3. /\ Published(hub, p)
      /\ p.ok => ~NewestIsRetrying(p.hub)
      /\ ~p.ok /\ Contained(state) => ~NewestIsRetrying(p.hub)
  <2> HIDE DEF p
  <2> QED BY <1>1, <1>2, PublishPublishes DEF p
<1>4. /\ IF p.ok \/ state = "recovery-required"
         THEN state' = state /\ Emit(p) ELSE RecoverFrom(p)
      /\ UNCHANGED calls
  BY DEF AdvanceRevision
<1> HIDE DEF p
<1>5. CASE p.ok \/ state = "recovery-required"
  <2>1. state' = state /\ Emit(p) /\ hub' = p.hub /\ ~NewestIsRetrying(p.hub)
    BY <1>3, <1>4, <1>5 DEF Emit, Contained, Published
  <2>2. RetryVisible'
    BY <2>1 DEF RetryVisible
  <2>3. calls' \in [Calls -> {"idle", "closed", "open"}]
    BY <1>4 DEF IInv, Shape
  <2> QED BY <1>1, <1>3, <2>1, <2>2, <2>3, EmitKeeps
<1>6. CASE ~(p.ok \/ state = "recovery-required")
  BY <1>1, <1>3, <1>4, <1>6, RecoverKeeps
<1> QED BY <1>5, <1>6

LEMMA PruneKeeps ==
  ASSUME IInv, PruneSettled
  PROVE  IInv' /\ LastingStay
<1>1. state' = "pruned" /\ subs' = {} /\ UNCHANGED <<received, acked, calls>>
  BY DEF PruneSettled
<1>2. Buffer(hub') /\ Seqs(hub') = {} /\ ~NewestIsRetrying(hub')
  BY DEF PruneSettled, NewRun, Buffer, Seqs, NewestIsRetrying
<1>3. Shape' /\ Connected' /\ RetryVisible' /\ LastingStay
  BY <1>1, <1>2 DEF IInv, Shape, Connected, RetryVisible, LastingStay
<1>4. Readers'
  <2> SUFFICES ASSUME NEW c \in Clients
               PROVE  /\ acked[c] \in 0 .. Len(received[c])
                      /\ \E b \in Nat : Reads(received[c], {}, b)
    BY <1>1, <1>2 DEF Readers
  <2>1. PICK b \in Nat : Reads(received[c], Seqs(hub), b)
    BY DEF IInv, Readers
  <2>2. Reads(received[c], {}, b)
    BY <2>1 DEF Reads
  <2> QED BY <2>2 DEF IInv, Readers
<1> QED BY <1>3, <1>4 DEF IInv

LEMMA CallStartsKeeps ==
  ASSUME IInv, NEW m \in Calls, CallStarts(m)
  PROVE  IInv' /\ LastingStay
<1>1. /\ calls \in [Calls -> {"idle", "closed", "open"}] /\ calls[m] = "idle"
      /\ calls' = [calls EXCEPT ![m] = "closed"]
      /\ UNCHANGED <<state, hub, subs, received, acked>>
  BY DEF IInv, Shape, CallStarts
<1>2. \A n \in Calls : calls[n] = "open" => calls'[n] = "open"
  BY <1>1
<1>3. RetryVisible'
  BY <1>1, <1>2 DEF IInv, RetryVisible
<1>4. calls' \in [Calls -> {"idle", "closed", "open"}]
  BY <1>1
<1> QED BY <1>1, <1>3, <1>4, OnlyCallsKeep

(* A retry fact is shown with its call marked, or leaves no retry shown.   *)
LEMMA HearRetryKeeps ==
  ASSUME IInv, NEW m \in Calls, HearRetry(m)
  PROVE  IInv' /\ LastingStay
<1> DEFINE p == Publish(hub, state, "model-gateway-retrying")
<1>1. /\ Live(state) /\ state' = state /\ Emit(p)
      /\ calls' = [calls EXCEPT ![m] = IF p.ok THEN "open" ELSE @]
      /\ state \in RunStates
  BY MayPublishRunning DEF HearRetry
<1>2. Buffer(hub) /\ calls \in [Calls -> {"idle", "closed", "open"}]
      /\ "model-gateway-retrying" \in FrameKinds
  BY DEF IInv, Shape, FrameKinds
<1>3. ~IsCritical(state, "model-gateway-retrying") /\ state \notin TerminalStates
  BY <1>1, <1>2, ContainedIsNotLive, Judged DEF Live, TerminalStates
<1>4. /\ Published(hub, p)
      /\ p.ok => p.hub.terminal = (state \in TerminalStates)
      /\ ~p.ok => ~NewestIsRetrying(p.hub)
  <2> HIDE DEF p
  <2> QED BY <1>1, <1>2, <1>3, PublishPublishes DEF p
<1> HIDE DEF p
<1>5. hub' = p.hub
  BY <1>1 DEF Emit
<1>6. calls' \in [Calls -> {"idle", "closed", "open"}] /\ (p.ok => calls'[m] = "open")
  BY <1>1, <1>2
<1>7. RetryVisible'
  <2>1. p.ok => ~hub'.terminal
    BY <1>3, <1>4, <1>5
  <2> QED BY <1>1, <1>4, <1>5, <1>6, <2>1 DEF RetryVisible
<1> QED BY <1>1, <1>4, <1>6, <1>7, EmitKeeps

(* A fact that ends a phase: it is the newest frame, or it was refused for *)
(* want of room, with every lossy frame gone, or no phase was shown.       *)
LEMMA SurfaceKeeps ==
  ASSUME IInv, NEW fact \in {"model-gateway-recovered", "model-gateway-retry-stopped"},
         Surface(fact), UNCHANGED state, calls' \in [Calls -> {"idle", "closed", "open"}]
  PROVE  IInv' /\ LastingStay
<1> DEFINE p == Publish(hub, state, fact)
<1>1. Buffer(hub) /\ fact \in FrameKinds /\ fact # "model-gateway-retrying"
      /\ fact # "failure-redacted"
  BY DEF IInv, Shape, FrameKinds
<1>2. CASE Live(state) /\ ~hub.terminal
  <2>1. Emit(p) /\ state \in RunStates /\ state' = state
    BY <1>2, ContainedIsNotLive DEF Surface, IInv, Shape
  <2>2. ~IsCritical(state, fact)
    BY <1>1, <1>2, ContainedIsNotLive, Judged DEF Live
  <2>3. Published(hub, p) /\ ~NewestIsRetrying(p.hub)
    <3> HIDE DEF p
    <3>1. /\ Published(hub, p)
          /\ p.ok => ~NewestIsRetrying(p.hub)
          /\ ~p.ok => ~NewestIsRetrying(p.hub)
      BY <1>1, <2>1, <2>2, PublishPublishes DEF p
    <3> QED BY <3>1 DEF Published
  <2> HIDE DEF p
  <2>4. hub' = p.hub
    BY <2>1 DEF Emit
  <2>5. RetryVisible'
    BY <2>3, <2>4 DEF RetryVisible
  <2> QED BY <2>1, <2>3, <2>5, EmitKeeps
<1>3. CASE ~(Live(state) /\ ~hub.terminal)
  <2>1. UNCHANGED <<state, hub, subs, received, acked>>
    BY <1>3 DEF Surface
  <2>2. RetryVisible'
    BY <1>3, <2>1 DEF IInv, RetryVisible
  <2> QED BY <2>1, <2>2, OnlyCallsKeep
<1> QED BY <1>2, <1>3

LEMMA HearAnswerKeeps ==
  ASSUME IInv, NEW m \in Calls, HearAnswer(m)
  PROVE  IInv' /\ LastingStay
<1>1. calls' \in [Calls -> {"idle", "closed", "open"}]
  BY DEF IInv, Shape, HearAnswer
<1> QED BY <1>1, SurfaceKeeps DEF HearAnswer

(* A failure is critical: its refusal only shrinks the buffer, and shows   *)
(* no retry that was not shown before.                                     *)
LEMMA ReportTurnFailureKeeps ==
  ASSUME IInv, NEW m \in Calls, ReportTurnFailure(m)
  PROVE  IInv' /\ LastingStay
<1> DEFINE p == Publish(hub, state, "failure-redacted")
<1>1. /\ Live(state) /\ state' = state /\ calls' = calls /\ Emit(p) /\ state \in RunStates
  BY MayPublishRunning DEF ReportTurnFailure
<1>2. Buffer(hub) /\ calls' \in [Calls -> {"idle", "closed", "open"}]
      /\ "failure-redacted" \in FrameKinds
  BY <1>1 DEF IInv, Shape, FrameKinds
<1>3. Published(hub, p) /\ (p.ok => ~NewestIsRetrying(p.hub))
  <2> HIDE DEF p
  <2> QED BY <1>1, <1>2, PublishPublishes DEF p
<1> HIDE DEF p
<1>4. hub' = p.hub
  BY <1>1 DEF Emit
<1>5. ~p.ok => /\ hub'.terminal = hub.terminal
               /\ NewestIsRetrying(hub') => NewestIsRetrying(hub)
  BY <1>3, <1>4 DEF Published, Shrunk
<1>6. RetryVisible'
  <2>1. NewestIsRetrying(hub') => NewestIsRetrying(hub) /\ ~p.ok
    BY <1>3, <1>4, <1>5
  <2> QED BY <1>1, <1>5, <2>1 DEF IInv, RetryVisible
<1> QED BY <1>1, <1>2, <1>3, <1>6, EmitKeeps

LEMMA CallEndsKeeps ==
  ASSUME IInv, NEW m \in Calls, CallEnds(m)
  PROVE  IInv' /\ LastingStay
<1>1. /\ calls \in [Calls -> {"idle", "closed", "open"}]
      /\ calls' = [calls EXCEPT ![m] = "idle"] /\ state' = state
  BY DEF IInv, Shape, CallEnds
<1>2. calls' \in [Calls -> {"idle", "closed", "open"}]
  BY <1>1
<1>3. CASE calls[m] = "open" /\ NewestIsRetrying(hub)
  BY <1>1, <1>2, <1>3, SurfaceKeeps DEF CallEnds
<1>4. CASE ~(calls[m] = "open" /\ NewestIsRetrying(hub))
  <2>1. UNCHANGED <<state, hub, subs, received, acked>>
    BY <1>4 DEF CallEnds
  <2>2. NewestIsRetrying(hub) => \E n \in Calls : calls'[n] = "open"
    <3>1. \A n \in Calls : n # m => calls'[n] = calls[n]
      BY <1>1
    <3> QED BY <1>4, <3>1 DEF IInv, RetryVisible
  <2>3. RetryVisible'
    BY <2>1, <2>2 DEF IInv, RetryVisible
  <2> QED BY <1>2, <2>1, <2>3, OnlyCallsKeep
<1> QED BY <1>3, <1>4

--------------------------------------------------------------------------
(* The browsers.                                                           *)

(* A step of browser c alone, which leaves the run and its buffer alone.   *)
LEMMA BrowserKeeps ==
  ASSUME IInv, NEW c \in Clients, UNCHANGED <<state, hub, calls>>, state # "pruned",
         NEW r, NEW a, Reads(r, Seqs(hub), hub.next), a \in 0 .. Len(r),
         received' = [received EXCEPT ![c] = r], acked' = [acked EXCEPT ![c] = a],
         subs' \subseteq subs \cup {c},
         c \in subs' => Current(r, Seqs(hub)) /\ ~hub.terminal
  PROVE  IInv' /\ LastingStay
<1>1. /\ received \in [Clients -> Seq(Nat)] /\ acked \in [Clients -> Nat]
      /\ hub.next \in Nat /\ r \in Seq(Nat) /\ a \in Nat
  BY DEF IInv, Shape, Buffer, Reads
<1>2. /\ received' \in [Clients -> Seq(Nat)] /\ acked' \in [Clients -> Nat]
      /\ received'[c] = r /\ acked'[c] = a
      /\ \A d \in Clients : d # c => received'[d] = received[d] /\ acked'[d] = acked[d]
  BY <1>1
<1>3. Shape'
  BY <1>2 DEF IInv, Shape
<1>4. Readers'
  <2> SUFFICES ASSUME NEW d \in Clients
               PROVE  /\ acked'[d] \in 0 .. Len(received'[d])
                      /\ Reads(received'[d], Seqs(hub), hub.next)
    BY <1>1 DEF Readers
  <2>1. CASE d = c
    BY <1>2, <2>1
  <2>2. CASE d # c
    BY <1>2, <2>2 DEF IInv, Readers
  <2> QED BY <2>1, <2>2
<1>5. Connected'
  <2> SUFFICES ASSUME NEW d \in subs'
               PROVE  Current(received'[d], Seqs(hub)) /\ ~hub.terminal
    BY DEF Connected
  <2>1. CASE d = c
    BY <1>2, <2>1
  <2>2. CASE d # c
    <3>1. d \in subs /\ d \in Clients
      BY <2>2 DEF IInv, Shape
    <3> QED BY <1>2, <2>2, <3>1 DEF IInv, Connected
  <2> QED BY <2>1, <2>2
<1>6. RetryVisible' /\ LastingStay
  BY DEF IInv, RetryVisible, LastingStay
<1> QED BY <1>3, <1>4, <1>5, <1>6 DEF IInv

(* Whatever part of the replay is written, nothing is skipped; only when   *)
(* all of it is may the browser stay connected.                            *)
LEMMA AttachKeeps ==
  ASSUME IInv, NEW c \in Clients, Connectable(c), NEW had, NEW cursor,
         Reads(had, Seqs(hub), hub.next),
         cursor = IF had = <<>> THEN -1 ELSE Last(had),
         Attach(c, had, cursor), UNCHANGED <<state, hub, calls>>
  PROVE  IInv' /\ LastingStay
<1> DEFINE q == Replay(hub, cursor)
<1>1. Buffer(hub) /\ hub.next \in Nat /\ state # "pruned" /\ c \notin subs
  BY DEF IInv, Shape, Buffer, Connectable
<1>2. Seqs(hub) \in SUBSET (0 .. hub.next - 1) /\ Seqs(hub) \in SUBSET Nat
  BY <1>1, SeqsNumbered
<1>3. q = InOrder({n \in Seqs(hub) : n > cursor})
  <2>1. {f.seq : f \in {g \in hub.frames : g.seq > cursor}} = {n \in Seqs(hub) : n > cursor}
    BY DEF Seqs
  <2> QED BY <2>1 DEF Replay
<1>4. had \in Seq(Nat)
  BY DEF Reads
<1>5. /\ acked' = [acked EXCEPT ![c] = Len(had)]
      /\ \/ /\ received' = [received EXCEPT ![c] = had \o q]
            /\ subs' = IF hub.terminal THEN subs ELSE subs \cup {c}
         \/ \E n \in 0 .. Len(q) - 1 :
               /\ received' = [received EXCEPT ![c] = had \o SubSeq(q, 1, n)]
               /\ UNCHANGED subs
  BY DEF Attach
<1> HIDE DEF q
<1>6. q \in Seq(Nat) /\ Reads(had \o q, Seqs(hub), hub.next) /\ Current(had \o q, Seqs(hub))
  BY <1>1, <1>2, <1>3, ReadsReplay
<1>7. CASE /\ received' = [received EXCEPT ![c] = had \o q]
           /\ subs' = IF hub.terminal THEN subs ELSE subs \cup {c}
  <2>1. Len(had) \in 0 .. Len(had \o q)
    BY <1>4, <1>6
  <2>2. subs' \subseteq subs \cup {c} /\ (c \in subs' => ~hub.terminal)
    BY <1>1, <1>7
  <2> QED BY <1>1, <1>5, <1>6, <1>7, <2>1, <2>2, BrowserKeeps
<1>8. CASE \E n \in 0 .. Len(q) - 1 :
             /\ received' = [received EXCEPT ![c] = had \o SubSeq(q, 1, n)]
             /\ UNCHANGED subs
  <2>1. PICK n \in 0 .. Len(q) - 1 :
             /\ received' = [received EXCEPT ![c] = had \o SubSeq(q, 1, n)]
             /\ UNCHANGED subs
    BY <1>8
  <2>2. n \in 0 .. Len(q)
    BY <1>6, <2>1
  <2>3. /\ Reads(had \o SubSeq(q, 1, n), Seqs(hub), hub.next)
        /\ Len(had \o SubSeq(q, 1, n)) = Len(had) + n
    BY <1>1, <1>2, <1>4, <1>6, <2>2, ReadsPartOfReplay
  <2>4. Len(had) \in 0 .. Len(had \o SubSeq(q, 1, n))
    BY <1>4, <2>2, <2>3
  <2> QED BY <1>1, <1>5, <2>1, <2>3, <2>4, BrowserKeeps
<1> QED BY <1>5, <1>7, <1>8

(* What an unpruned run's browser has read, by the invariant.              *)
LEMMA HasRead ==
  ASSUME IInv, state # "pruned", NEW c \in Clients
  PROVE  /\ Reads(received[c], Seqs(hub), hub.next)
         /\ acked[c] \in 0 .. Len(received[c])
         /\ hub.next \in Nat /\ Seqs(hub) \in SUBSET Nat
  BY SeqsNumbered DEF IInv, Shape, Readers, Buffer

LEMMA NothingRead == \A F, b : Reads(<<>>, F, b) /\ Len(<<>>) = 0
  BY DEF Reads

LEMMA ConnectKeeps ==
  ASSUME IInv, NEW c \in Clients, Connect(c)
  PROVE  IInv' /\ LastingStay
<1>1. Reads(<<>>, Seqs(hub), hub.next)
  BY NothingRead
<1> QED BY <1>1, AttachKeeps DEF Connect

LEMMA ResumeKeeps ==
  ASSUME IInv, NEW c \in Clients, Resume(c)
  PROVE  IInv' /\ LastingStay
<1>1. Reads(received[c], Seqs(hub), hub.next)
  BY HasRead DEF Resume, Connectable
<1> QED BY <1>1, AttachKeeps DEF Resume, Cursor

LEMMA ResumeResetKeeps ==
  ASSUME IInv, NEW c \in Clients, ResumeReset(c)
  PROVE  IInv' /\ LastingStay
<1>1. /\ state # "pruned" /\ c \notin subs /\ UNCHANGED <<state, hub, subs, calls>>
      /\ received' = [received EXCEPT ![c] = <<>>] /\ acked' = [acked EXCEPT ![c] = 0]
  BY DEF ResumeReset, Connectable
<1>2. Reads(<<>>, Seqs(hub), hub.next) /\ 0 \in 0 .. Len(<<>>)
  BY NothingRead
<1> QED BY <1>1, <1>2, BrowserKeeps

(* A lost tail leaves a prefix of what was read.                           *)
LEMMA DisconnectKeeps ==
  ASSUME IInv, NEW c \in Clients, Disconnect(c)
  PROVE  IInv' /\ LastingStay
<1>1. PICK n \in acked[c] .. Len(received[c]) :
           received' = [received EXCEPT ![c] = SubSeq(received[c], 1, n)]
  BY DEF Disconnect
<1>2. /\ c \in subs /\ subs' = subs \ {c} /\ UNCHANGED <<state, hub, acked, calls>>
      /\ state # "pruned"
  BY DEF Disconnect, IInv, Connected
<1>3. /\ Reads(received[c], Seqs(hub), hub.next) /\ acked[c] \in 0 .. Len(received[c])
      /\ hub.next \in Nat /\ Seqs(hub) \in SUBSET Nat /\ Len(received[c]) \in Nat
  BY <1>2, HasRead DEF IInv, Shape
<1>4. n \in 0 .. Len(received[c]) /\ acked[c] \in 0 .. n
  BY <1>1, <1>3
<1>5. /\ Reads(SubSeq(received[c], 1, n), Seqs(hub), hub.next)
      /\ Len(SubSeq(received[c], 1, n)) = n
  BY <1>3, <1>4, ReadsPrefix
<1>6. acked' = [acked EXCEPT ![c] = acked[c]]
  BY <1>2 DEF IInv, Shape
<1> QED BY <1>1, <1>2, <1>4, <1>5, <1>6, BrowserKeeps

--------------------------------------------------------------------------
LEMMA NextKeeps ==
  ASSUME IInv, [Next]_vars
  PROVE  IInv' /\ LastingStay
<1>1. ASSUME NEW to \in RunStates, Transition(to) PROVE IInv' /\ LastingStay
  BY <1>1, TransitionKeeps
<1>2. CASE PublishOrRecover
  BY <1>2, PublishOrRecoverKeeps
<1>3. CASE AdvanceRevision
  BY <1>3, AdvanceRevisionKeeps
<1>4. CASE PruneSettled
  BY <1>4, PruneKeeps
<1>5. ASSUME NEW m \in Calls, CallStarts(m) PROVE IInv' /\ LastingStay
  BY <1>5, CallStartsKeeps
<1>6. ASSUME NEW m \in Calls, HearRetry(m) PROVE IInv' /\ LastingStay
  BY <1>6, HearRetryKeeps
<1>7. ASSUME NEW m \in Calls, HearAnswer(m) PROVE IInv' /\ LastingStay
  BY <1>7, HearAnswerKeeps
<1>8. ASSUME NEW m \in Calls, ReportTurnFailure(m) PROVE IInv' /\ LastingStay
  BY <1>8, ReportTurnFailureKeeps
<1>9. ASSUME NEW m \in Calls, CallEnds(m) PROVE IInv' /\ LastingStay
  BY <1>9, CallEndsKeeps
<1>10. ASSUME NEW c \in Clients, Connect(c) PROVE IInv' /\ LastingStay
  BY <1>10, ConnectKeeps
<1>11. ASSUME NEW c \in Clients, Resume(c) PROVE IInv' /\ LastingStay
  BY <1>11, ResumeKeeps
<1>12. ASSUME NEW c \in Clients, ResumeReset(c) PROVE IInv' /\ LastingStay
  BY <1>12, ResumeResetKeeps
<1>13. ASSUME NEW c \in Clients, Disconnect(c) PROVE IInv' /\ LastingStay
  BY <1>13, DisconnectKeeps
<1>14. CASE UNCHANGED vars
  <2>1. UNCHANGED <<state, hub, subs, received, acked, calls>>
    BY <1>14 DEF vars
  <2>2. RetryVisible' /\ calls' \in [Calls -> {"idle", "closed", "open"}]
    BY <2>1 DEF IInv, Shape, RetryVisible
  <2> QED BY <2>1, <2>2, OnlyCallsKeep
<1> QED BY <1>1, <1>2, <1>3, <1>4, <1>5, <1>6, <1>7, <1>8, <1>9, <1>10, <1>11, <1>12, <1>13,
           <1>14 DEF Next

(* The buffer, what every browser read of it and the retry phase it shows  *)
(* keep their shape in every reachable state.                              *)
THEOREM InductiveInvariant == Spec => []IInv
<1>1. IInv /\ [Next]_vars => IInv'
  BY NextKeeps
<1> QED BY <1>1, InitIInv, PTL DEF Spec

(* replay and fanOut: whatever reconnects, lost tails and evictions        *)
(* happened, a browser reads each frame at most once and in order.         *)
THEOREM ReadsInOrderOnce == Spec => []InOrderOnce
<1>1. IInv => InOrderOnce
  BY DEF IInv, Readers, Reads, InOrderOnce
<1> QED BY <1>1, InductiveInvariant, PTL

(* subscribe and fanOut: a connected browser has read every frame the      *)
(* buffer retains, and its stream has not ended.                           *)
THEOREM ConnectedIsCurrent == Spec => []LiveIsCurrent
<1>1. ASSUME IInv PROVE LiveIsCurrent
  <2> SUFFICES ASSUME NEW c \in subs
               PROVE  /\ \A f \in hub.frames : f.seq \in ToSet(received[c])
                      /\ ~hub.terminal /\ state # "pruned"
    BY DEF LiveIsCurrent
  <2>1. c \in Clients /\ received[c] \in Seq(Nat)
    BY <1>1 DEF IInv, Shape
  <2>2. Current(received[c], Seqs(hub)) /\ ~hub.terminal /\ state # "pruned"
    BY <1>1 DEF IInv, Connected
  <2>3. ASSUME NEW f \in hub.frames PROVE f.seq \in ToSet(received[c])
    <3>1. PICK j \in 1 .. Len(received[c]) : received[c][j] = f.seq
      BY <2>2 DEF Current, Seqs
    <3> QED BY <2>1, <3>1 DEF ToSet
  <2> QED BY <2>2, <2>3
<1> QED BY <1>1, InductiveInvariant, PTL

(* surfaceGatewayRetry and closeGatewayRetry: a retry the Workbench names  *)
(* as the newest fact belongs to a call that is still being retried.       *)
THEOREM RetryPhaseOwned == Spec => []RetryPhaseHasCall
<1>1. IInv => RetryPhaseHasCall
  BY DEF IInv, RetryVisible, RetryPhaseHasCall
<1> QED BY <1>1, InductiveInvariant, PTL

(* makeCapacity and removeLossy: no eviction drops an approval or a        *)
(* containment frame while the run is kept.                                *)
THEOREM CriticalStays == Spec => CriticalKept
<1> DEFINE A == \A f \in hub.frames : f.critical /\ f.kind # "failure-redacted" /\ state' # "pruned"
                  => f \in hub'.frames
<1>1. IInv /\ [Next]_vars => [A]_vars
  BY NextKeeps DEF LastingStay, Lasting
<1>2. (Spec => CriticalKept) <=> (Spec => [][A]_vars)
  BY DEF CriticalKept
<1> QED BY <1>1, <1>2, InductiveInvariant, PTL DEF Spec

--------------------------------------------------------------------------
(* The limits of the buffer, the byte counter and the reserve.             *)

Size == [f \in Frames |-> FrameBytes[f.kind]]

(* A run that is settled or needs recovery has a frame saying so.          *)
SaysSo(h) == \E f \in h.frames : Contained(f.state)

(* Until there is such a frame there is room for it beside the critical    *)
(* frames, whatever they are.                                              *)
Reserved(h) ==
    SaysSo(h) \/ /\ Cardinality(Critical(h.frames)) <= MaxEvents - 1
                 /\ BytesOf(Critical(h.frames)) + FrameBytes["status"] <= MaxBytes

Hub(h) ==
    /\ Buffer(h) /\ IsFiniteSet(h.frames)
    /\ \A f, g \in h.frames : f.seq = g.seq => f = g
    /\ \A f \in h.frames : Contained(f.state) => Lasting(f)
    /\ h.bytes = BytesOf(h.frames)
    /\ Cardinality(h.frames) <= MaxEvents /\ h.bytes <= MaxBytes
    /\ Reserved(h)

LEMMA SizeNat == \A f \in Frames : Size[f] = FrameBytes[f.kind] /\ Size[f] \in Nat
  BY EventConstants DEF Size, Frames

LEMMA BytesAre ==
  ASSUME NEW fs \in SUBSET Frames
  PROVE  BytesOf(fs) = Total(Size, fs)
<1>1. \A f \in fs : Size[f] = [g \in fs |-> FrameBytes[g.kind]][f]
  BY DEF Size
<1> QED BY <1>1, TotalSame DEF BytesOf

(* The bytes of a part and of the rest are the bytes of the whole.         *)
LEMMA BytesSplit ==
  ASSUME NEW fs \in SUBSET Frames, IsFiniteSet(fs), NEW part \in SUBSET fs
  PROVE  /\ BytesOf(fs) = BytesOf(part) + BytesOf(fs \ part)
         /\ BytesOf(fs) \in Nat /\ BytesOf(part) \in Nat /\ BytesOf(fs \ part) \in Nat
         /\ BytesOf(part) <= BytesOf(fs)
<1>1. IsFiniteSet(Units(Size, fs))
  BY SizeNat, UnitsFinite
<1>2. /\ BytesOf(fs) = Total(Size, fs) /\ BytesOf(part) = Total(Size, part)
      /\ BytesOf(fs \ part) = Total(Size, fs \ part)
  BY BytesAre
<1>3. /\ Total(Size, fs) = Total(Size, part) + Total(Size, fs \ part)
      /\ Total(Size, fs) \in Nat /\ Total(Size, part) \in Nat
      /\ Total(Size, fs \ part) \in Nat
  <2>1. part \in SUBSET fs
    OBVIOUS
  <2>2. \A T \in SUBSET fs : /\ Total(Size, fs) = Total(Size, T) + Total(Size, fs \ T)
              /\ Total(Size, fs) \in Nat /\ Total(Size, T) \in Nat
              /\ Total(Size, fs \ T) \in Nat
    BY <1>1, TotalSplit
  <2> QED BY <2>1, <2>2
<1> QED BY <1>2, <1>3

LEMMA BytesAdd ==
  ASSUME NEW fs \in SUBSET Frames, IsFiniteSet(fs), NEW f \in Frames, f \notin fs
  PROVE  /\ BytesOf(fs \cup {f}) = BytesOf(fs) + FrameBytes[f.kind]
         /\ BytesOf(fs) \in Nat /\ FrameBytes[f.kind] \in Nat
<1>1. IsFiniteSet(Units(Size, fs))
  BY SizeNat, UnitsFinite
<1>2. BytesOf(fs) = Total(Size, fs) /\ BytesOf(fs \cup {f}) = Total(Size, fs \cup {f})
  BY BytesAre
<1>3. /\ Total(Size, fs \cup {f}) = Total(Size, fs) + Size[f]
      /\ Total(Size, fs) \in Nat
  BY <1>1, SizeNat, TotalAdd
<1> QED BY <1>2, <1>3, SizeNat

LEMMA NoBytes == BytesOf({}) = 0
  BY TotalNone DEF BytesOf

(* Lossy frames go, and the counter goes down by their bytes.              *)
LEMMA HubPart ==
  ASSUME NEW h, Hub(h), NEW g, Buffer(g), g.frames \subseteq h.frames,
         Critical(h.frames) \subseteq g.frames,
         g.bytes = h.bytes - BytesOf(h.frames \ g.frames)
  PROVE  Hub(g) /\ g.bytes <= h.bytes /\ (SaysSo(h) => SaysSo(g))
<1>1. IsFiniteSet(h.frames) /\ h.frames \in SUBSET Frames /\ g.frames \in SUBSET h.frames
  BY DEF Hub, Buffer
<1>2. IsFiniteSet(g.frames) /\ Cardinality(g.frames) <= Cardinality(h.frames)
      /\ Cardinality(g.frames) \in Nat /\ Cardinality(h.frames) \in Nat
  BY <1>1, FS_Subset, FS_CardinalityType
<1>3. /\ BytesOf(h.frames) = BytesOf(g.frames) + BytesOf(h.frames \ g.frames)
      /\ BytesOf(h.frames) \in Nat /\ BytesOf(g.frames) \in Nat
      /\ BytesOf(h.frames \ g.frames) \in Nat
  BY <1>1, BytesSplit
<1>4. g.bytes = BytesOf(g.frames) /\ g.bytes <= h.bytes /\ g.bytes <= MaxBytes
      /\ Cardinality(g.frames) <= MaxEvents
  <2>1. h.bytes = BytesOf(h.frames) /\ h.bytes <= MaxBytes
        /\ Cardinality(h.frames) <= MaxEvents /\ MaxBytes \in Nat /\ MaxEvents \in Nat
    BY EventConstants DEF Hub
  <2> QED BY <1>2, <1>3, <2>1
<1>5. Critical(g.frames) = Critical(h.frames)
  BY <1>1 DEF Critical
<1>6. SaysSo(h) => SaysSo(g)
  BY DEF Hub, SaysSo, Lasting, Critical
<1>7. Reserved(g)
  BY <1>5, <1>6 DEF Hub, Reserved
<1> QED BY <1>1, <1>2, <1>4, <1>6, <1>7 DEF Hub

LEMMA KeepFromHub ==
  ASSUME NEW h, Hub(h), NEW n \in Int
  PROVE  LET k == KeepFrom(h, n)
         IN Hub(k) /\ (SaysSo(h) => SaysSo(k)) /\ Critical(k.frames) = Critical(h.frames)
<1> DEFINE gone == {f \in h.frames : ~f.critical /\ f.seq < n}
           k == KeepFrom(h, n)
<1>1. Buffer(h)
  BY DEF Hub
<1>2. Buffer(k) /\ k.frames = h.frames \ gone
  BY <1>1, KeepFromShrinks, KeepFromKeeps DEF Shrunk
<1>3. k.bytes = h.bytes - BytesOf(gone)
  BY <1>1 DEF KeepFrom, Buffer
<1>4. h.frames \ k.frames = gone
  BY <1>2
<1>5. k.frames \subseteq h.frames /\ Critical(h.frames) \subseteq k.frames
      /\ Critical(k.frames) = Critical(h.frames)
  BY <1>2 DEF Critical
<1> HIDE DEF gone, k
<1> QED BY <1>2, <1>3, <1>4, <1>5, HubPart DEF k

LEMMA RemoveLossyHub ==
  ASSUME NEW h, Hub(h)
  PROVE  LET k == RemoveLossy(h)
         IN Hub(k) /\ (SaysSo(h) => SaysSo(k)) /\ k.frames = Critical(h.frames)
<1> DEFINE k == RemoveLossy(h)
<1>1. Buffer(h)
  BY DEF Hub
<1>2. Buffer(k)
  BY <1>1, RemoveLossyShrinks DEF Shrunk
<1>3. k.frames = Critical(h.frames) /\ k.bytes = h.bytes - BytesOf(h.frames \ k.frames)
  BY <1>1 DEF RemoveLossy, Buffer
<1>4. k.frames \subseteq h.frames
  BY <1>3 DEF Critical
<1> HIDE DEF k
<1> QED BY <1>2, <1>3, <1>4, HubPart DEF k

(* A demotion renames frames one to one, keeps their sizes and only makes  *)
(* critical frames lossy.                                                  *)
LEMMA DemotionHub ==
  ASSUME NEW h, Hub(h)
  PROVE  LET k == DemotePriorTurnFailures(h) IN Hub(k) /\ (SaysSo(h) => SaysSo(k))
<1> DEFINE Demoted(f) == IF f.kind = "failure-redacted" THEN [f EXCEPT !.critical = FALSE] ELSE f
           k == DemotePriorTurnFailures(h)
           d == [f \in h.frames |-> Demoted(f)]
<1>1. /\ Buffer(h) /\ IsFiniteSet(h.frames) /\ h.frames \in SUBSET Frames
      /\ \A f, g \in h.frames : f.seq = g.seq => f = g
      /\ \A f \in h.frames : Contained(f.state) => Lasting(f)
  BY DEF Hub, Buffer
<1>2. k.frames = {Demoted(f) : f \in h.frames} /\ k.bytes = h.bytes
  BY <1>1 DEF DemotePriorTurnFailures, Buffer
<1>3. Buffer(k) /\ k.frames \in SUBSET Frames
  BY <1>1, DemotionShrinks DEF Shrunk, Buffer
<1>4. ASSUME NEW f \in h.frames
      PROVE  /\ Demoted(f).seq = f.seq /\ Demoted(f).kind = f.kind /\ Demoted(f).state = f.state
             /\ f.kind # "failure-redacted" => Demoted(f) = f
             /\ Demoted(f).critical => Demoted(f) = f
  BY <1>1 DEF Frames
<1> HIDE DEF Demoted, k
<1>5. /\ d \in [h.frames -> k.frames]
      /\ \A f \in h.frames : d[f] = Demoted(f)
      /\ \A z \in k.frames : \E f \in h.frames : d[f] = z
  BY <1>2
<1>6. \A f, g \in h.frames : d[f] = d[g] => f = g
  BY <1>1, <1>4, <1>5
<1>7. d \in Surjection(h.frames, k.frames)
  BY <1>5 DEF Surjection
<1> HIDE DEF d
<1>8. IsFiniteSet(k.frames) /\ Cardinality(k.frames) <= Cardinality(h.frames)
      /\ Cardinality(k.frames) \in Nat /\ Cardinality(h.frames) \in Nat
  BY <1>1, <1>7, FS_Surjection, FS_CardinalityType
<1>9. BytesOf(k.frames) = BytesOf(h.frames)
  <2>1. \A f \in h.frames : Size[d[f]] = Size[f]
    BY <1>1, <1>3, <1>4, <1>5, SizeNat
  <2>2. IsFiniteSet(Units(Size, h.frames))
    BY <1>1, SizeNat, UnitsFinite
  <2>3. Total(Size, k.frames) = Total(Size, h.frames)
    BY <1>5, <1>6, <2>1, <2>2, TotalRenamed
  <2> QED BY <1>1, <1>3, <2>3, BytesAre
<1>10. \A f, g \in k.frames : f.seq = g.seq => f = g
  BY <1>1, <1>2, <1>4
<1>11. \A g \in k.frames : Contained(g.state) => Lasting(g) /\ g \in h.frames
  BY <1>1, <1>2, <1>4 DEF Lasting
<1>12. \A f \in h.frames : Contained(f.state) => f \in k.frames
  BY <1>1, <1>2, <1>4 DEF Lasting
<1>13. SaysSo(h) => SaysSo(k)
  BY <1>12 DEF SaysSo
<1>14. Reserved(k)
  <2>1. CASE SaysSo(h)
    BY <1>13, <2>1 DEF Reserved
  <2>2. CASE ~SaysSo(h)
    <3> DEFINE C == Critical(h.frames)
               D == Critical(k.frames)
    <3>1. D \in SUBSET C /\ C \in SUBSET h.frames
      BY <1>2, <1>4 DEF Critical
    <3>2. /\ Cardinality(C) <= MaxEvents - 1
          /\ BytesOf(C) + FrameBytes["status"] <= MaxBytes
      BY <2>2 DEF Hub, Reserved
    <3> HIDE DEF C, D
    <3>3. IsFiniteSet(C) /\ C \in SUBSET Frames
      BY <1>1, <3>1, FS_Subset
    <3>4. Cardinality(D) <= Cardinality(C) /\ Cardinality(D) \in Nat /\ Cardinality(C) \in Nat
      BY <3>1, <3>3, FS_Subset, FS_CardinalityType
    <3>5. BytesOf(D) <= BytesOf(C) /\ BytesOf(D) \in Nat /\ BytesOf(C) \in Nat
      BY <3>1, <3>3, BytesSplit
    <3>6. /\ FrameBytes["status"] \in Nat /\ MaxBytes \in Nat /\ MaxEvents \in Nat
      BY EventConstants DEF FrameKinds
    <3>7. /\ Cardinality(D) <= MaxEvents - 1
          /\ BytesOf(D) + FrameBytes["status"] <= MaxBytes
      BY <3>2, <3>4, <3>5, <3>6
    <3> QED BY <3>7 DEF D, Reserved
  <2> QED BY <2>1, <2>2
<1>15. h.bytes = BytesOf(h.frames) /\ h.bytes <= MaxBytes /\ Cardinality(h.frames) <= MaxEvents
       /\ MaxEvents \in Nat
  BY EventConstants DEF Hub
<1>16. Cardinality(k.frames) <= MaxEvents
  BY <1>8, <1>15
<1> QED BY <1>2, <1>3, <1>8, <1>9, <1>10, <1>11, <1>13, <1>14, <1>15, <1>16 DEF Hub, k

(* Room, when it is made, is room for the frame, and a frame that is       *)
(* critical finds the reserve untouched.  A frame that contains the run is *)
(* refused only by a buffer whose critical frames leave it no place.       *)
LEMMA MakeCapacityHub ==
  ASSUME NEW h, Hub(h), NEW f
  PROVE  LET room == MakeCapacity(h, f)
         IN /\ Hub(room.hub) /\ room.hub.next = h.next
            /\ SaysSo(h) => SaysSo(room.hub)
            /\ Critical(room.hub.frames) = Critical(h.frames)
            /\ room.ok => HasRoom(room.hub, f) /\ ~ReserveTaken(h, f)
            /\ ~room.ok => ReserveTaken(h, f) \/ ~HasRoom(KeepFrom(h, 0), f)
<1> DEFINE cuts == {n \in 0 .. h.next : HasRoom(KeepFrom(h, n), f)}
<1>0. Buffer(h) /\ h.next \in Nat
  BY DEF Hub, Buffer
<1>1. CASE ReserveTaken(h, f)
  BY <1>1 DEF MakeCapacity
<1>2. CASE ~ReserveTaken(h, f) /\ cuts = {}
  <2>1. MakeCapacity(h, f) = [ok |-> FALSE, hub |-> KeepFrom(h, h.next)]
    BY <1>2 DEF MakeCapacity
  <2>2. ~HasRoom(KeepFrom(h, 0), f)
    BY <1>0, <1>2
  <2>3. KeepFrom(h, h.next).next = h.next
    BY <1>0, KeepFromKeeps
  <2> QED BY <1>0, <2>1, <2>2, <2>3, KeepFromHub
<1>3. CASE ~ReserveTaken(h, f) /\ cuts # {}
  <2> DEFINE n == Min(cuts)
  <2>1. MakeCapacity(h, f) = [ok |-> TRUE, hub |-> KeepFrom(h, n)]
    BY <1>3 DEF MakeCapacity
  <2>2. n \in Int /\ HasRoom(KeepFrom(h, n), f)
    <3>1. cuts \in SUBSET Nat
      BY <1>0
    <3> HIDE DEF cuts, n
    <3>2. \E x \in cuts : \A y \in cuts : x <= y
      BY <1>3, <3>1, LeastNumber
    <3>3. n \in cuts
      BY <3>2 DEF Min, n
    <3> QED BY <3>1, <3>3 DEF cuts
  <2> HIDE DEF n
  <2>3. KeepFrom(h, n).next = h.next
    BY <1>0, <2>2, KeepFromKeeps
  <2> QED BY <1>3, <2>1, <2>2, <2>3, KeepFromHub
<1> QED BY <1>1, <1>2, <1>3

(* With room made, the frame is taken: the limits hold, the counter counts *)
(* it, and the reserve is left for the frame that contains the run.        *)
LEMMA TakenHub ==
  ASSUME NEW h, Hub(h), NEW f \in Frames, f.seq = h.next, HasRoom(h, f),
         Contained(f.state) => Lasting(f),
         ~ReserveTaken(h, f), NEW g, Buffer(g),
         g.frames = h.frames \cup {f}, g.bytes = h.bytes + FrameBytes[f.kind]
  PROVE  Hub(g) /\ (Contained(f.state) \/ SaysSo(h) => SaysSo(g))
<1>1. /\ IsFiniteSet(h.frames) /\ h.frames \in SUBSET Frames /\ h.next \in Nat
      /\ \A x \in h.frames : x.seq \in Nat /\ x.seq < h.next
      /\ h.bytes = BytesOf(h.frames)
  BY DEF Hub, Buffer, Frames
<1>2. f \notin h.frames
  BY <1>1
<1>3. /\ Cardinality(h.frames) < MaxEvents /\ h.bytes + FrameBytes[f.kind] <= MaxBytes
      /\ MaxEvents \in Nat /\ MaxBytes \in Nat
  BY EventConstants DEF HasRoom
<1>4. /\ IsFiniteSet(g.frames) /\ Cardinality(g.frames) <= MaxEvents
  <2>1. /\ IsFiniteSet(h.frames \cup {f})
        /\ Cardinality(h.frames \cup {f}) = Cardinality(h.frames) + 1
        /\ Cardinality(h.frames) \in Nat
    BY <1>1, <1>2, FS_AddElement, FS_CardinalityType
  <2> QED BY <1>3, <2>1
<1>5. g.bytes = BytesOf(g.frames) /\ g.bytes <= MaxBytes
  BY <1>1, <1>2, <1>3, BytesAdd
<1>6. \A x, y \in g.frames : x.seq = y.seq => x = y
  <2>1. \A x, y \in h.frames : x.seq = y.seq => x = y
    BY DEF Hub
  <2>2. \A x \in h.frames : x.seq # f.seq
    BY <1>1
  <2> QED BY <2>1, <2>2
<1>7. \A x \in g.frames : Contained(x.state) => Lasting(x)
  BY DEF Hub
<1>8. Contained(f.state) \/ SaysSo(h) => SaysSo(g)
  BY DEF SaysSo
<1>9. Reserved(g)
  <2>1. CASE Contained(f.state) \/ SaysSo(h)
    BY <1>8, <2>1 DEF Reserved
  <2>2. CASE ~Contained(f.state) /\ ~SaysSo(h) /\ ~f.critical
    <3>1. Critical(g.frames) = Critical(h.frames)
      BY <2>2 DEF Critical
    <3> QED BY <2>2, <3>1 DEF Hub, Reserved
  <2>3. CASE ~Contained(f.state) /\ f.critical
    <3> DEFINE C == Critical(h.frames)
    <3>1. Critical(g.frames) = C \cup {f} /\ C \in SUBSET h.frames
      BY <2>3 DEF Critical
    <3>2. ~(Cardinality(C) >= MaxEvents - 1) /\ ~(BytesOf(C) + 2 * FrameBytes[f.kind] > MaxBytes)
      BY <2>3, Judged DEF ReserveTaken, Frames
    <3> HIDE DEF C
    <3>3. IsFiniteSet(C) /\ C \in SUBSET Frames /\ f \notin C
      BY <1>1, <1>2, <3>1, FS_Subset
    <3>4. Cardinality(C \cup {f}) = Cardinality(C) + 1 /\ Cardinality(C) \in Nat
      BY <3>3, FS_AddElement, FS_CardinalityType
    <3>5. /\ BytesOf(C \cup {f}) = BytesOf(C) + FrameBytes[f.kind]
          /\ BytesOf(C) \in Nat /\ FrameBytes[f.kind] \in Nat
      BY <3>3, BytesAdd
    <3>6. FrameBytes["status"] <= FrameBytes[f.kind] /\ FrameBytes["status"] \in Nat
      BY EventConstants DEF Frames, FrameKinds
    <3>7. Cardinality(C \cup {f}) <= MaxEvents - 1
      BY <1>3, <3>2, <3>4
    <3>8. BytesOf(C \cup {f}) + FrameBytes["status"] <= MaxBytes
      BY <1>3, <3>2, <3>5, <3>6
    <3> QED BY <3>1, <3>7, <3>8 DEF Reserved
  <2> QED BY <2>1, <2>2, <2>3
<1> QED BY <1>4, <1>5, <1>6, <1>7, <1>8, <1>9 DEF Hub

(* Once only critical frames are left, and none contains the run, the      *)
(* reserve is room for the status that does.                               *)
LEMMA ReserveServes ==
  ASSUME NEW h, Hub(h), ~SaysSo(h), NEW f, f.kind = "status", Contained(f.state)
  PROVE  LET k == RemoveLossy(h) IN ~ReserveTaken(k, f) /\ HasRoom(KeepFrom(k, 0), f)
<1> DEFINE k == RemoveLossy(h)
<1>1. /\ Hub(k) /\ k.frames = Critical(h.frames) /\ k.bytes = BytesOf(Critical(h.frames))
  BY RemoveLossyHub DEF Hub
<1>2. KeepFrom(k, 0).frames = k.frames /\ KeepFrom(k, 0).bytes = k.bytes
  <2>1. k.frames \in SUBSET Frames /\ DOMAIN k = {"next", "frames", "bytes", "terminal"}
        /\ k.bytes = BytesOf(k.frames) /\ IsFiniteSet(k.frames)
    BY <1>1 DEF Hub, Buffer
  <2> HIDE DEF k
  <2>2. {g \in k.frames : ~g.critical /\ g.seq < 0} = {}
    BY <2>1 DEF Frames
  <2>3. k.bytes - BytesOf({}) = k.bytes
    <3>1. k.bytes \in Nat
      BY <2>1, BytesSplit
    <3> QED BY <3>1, NoBytes
  <2> QED BY <2>1, <2>2, <2>3 DEF KeepFrom
<1>3. /\ Cardinality(Critical(h.frames)) <= MaxEvents - 1
      /\ BytesOf(Critical(h.frames)) + FrameBytes["status"] <= MaxBytes
  BY DEF Hub, Reserved
<1>4. IsFiniteSet(Critical(h.frames)) /\ Cardinality(Critical(h.frames)) \in Nat
  BY <1>1, FS_CardinalityType DEF Hub
<1>5. Cardinality(Critical(h.frames)) < MaxEvents
  BY <1>3, <1>4, EventConstants
<1> HIDE DEF k
<1>6. HasRoom(KeepFrom(k, 0), f)
  BY <1>1, <1>2, <1>3, <1>5 DEF HasRoom
<1>7. ~ReserveTaken(k, f)
  BY DEF ReserveTaken, IsContainment, IsTerminal, Contained
<1> QED BY <1>6, <1>7 DEF k

(* Every publication keeps the limits, the counter and the reserve, and a  *)
(* publication of a state that contains the run leaves a frame saying so,  *)
(* taken now or before.                                                    *)
LEMMA PublishHub ==
  ASSUME NEW h, Hub(h), NEW s \in RunStates, NEW k \in FrameKinds,
         k = "model-gateway-retrying" => Live(s), Contained(s) => k = "status"
  PROVE  LET p == Publish(h, s, k)
         IN Hub(p.hub) /\ (Contained(s) \/ SaysSo(h) => SaysSo(p.hub))
<1> DEFINE f == [seq |-> h.next, state |-> s, kind |-> k, critical |-> IsCritical(s, k)]
           cleared == IF Contained(s) THEN RemoveLossy(h) ELSE h
           demoted == IF k = "failure-redacted" THEN DemotePriorTurnFailures(cleared) ELSE cleared
           room == MakeCapacity(demoted, f)
           taken == [next |-> h.next + 1, frames |-> room.hub.frames \cup {f},
                     bytes |-> room.hub.bytes + FrameBytes[k], terminal |-> s \in TerminalStates]
           p == Publish(h, s, k)
<1>1. p = IF room.ok THEN [ok |-> TRUE, hub |-> taken] ELSE room
  BY Judged DEF Publish
<1>2. Buffer(h) /\ h.next \in Nat
  BY DEF Hub, Buffer
<1>3. Published(h, p)
  <2> HIDE DEF p
  <2> QED BY <1>2, PublishPublishes DEF p
<1>4. f \in Frames /\ f.seq = h.next /\ f.kind = k /\ f.state = s
      /\ (Contained(s) => Lasting(f))
  <2>1. IsCritical(s, k) \in BOOLEAN /\ (Contained(s) => IsCritical(s, k))
    BY Judged DEF IsCritical
  <2> QED BY <1>2, <2>1 DEF Frames, Lasting
<1>5. Hub(cleared) /\ cleared.next = h.next /\ (SaysSo(h) => SaysSo(cleared))
  BY <1>2, RemoveLossyHub, RemoveLossyShrinks DEF Shrunk
<1>6. Hub(demoted) /\ demoted.next = h.next /\ (SaysSo(h) => SaysSo(demoted))
  <2> HIDE DEF cleared
  <2>1. Buffer(cleared)
    BY <1>5 DEF Hub
  <2> QED BY <1>5, <2>1, DemotionHub, DemotionShrinks DEF Shrunk
<1>7. Contained(s) => demoted = RemoveLossy(h)
  OBVIOUS
<1> HIDE DEF f, p, demoted
<1>8. /\ Hub(room.hub) /\ room.hub.next = h.next
      /\ SaysSo(demoted) => SaysSo(room.hub)
      /\ Critical(room.hub.frames) = Critical(demoted.frames)
      /\ room.ok => HasRoom(room.hub, f) /\ ~ReserveTaken(demoted, f)
      /\ ~room.ok => ReserveTaken(demoted, f) \/ ~HasRoom(KeepFrom(demoted, 0), f)
  BY <1>6, MakeCapacityHub
<1>9. room.ok \in BOOLEAN
  BY <1>6, MakeCapacityShrinks DEF Hub
<1> HIDE DEF room
<1>10. CASE room.ok
  <2>1. p.ok = TRUE /\ p.hub = taken
    BY <1>1, <1>10
  <2>2. taken.frames = room.hub.frames \cup {f} /\ taken.bytes = room.hub.bytes + FrameBytes[f.kind]
    BY <1>4
  <2> HIDE DEF taken
  <2>3. ~ReserveTaken(room.hub, f) /\ HasRoom(room.hub, f)
    BY <1>8, <1>10 DEF ReserveTaken
  <2>4. Buffer(taken)
    BY <1>3, <2>1 DEF Published
  <2>5. Hub(taken) /\ (Contained(f.state) \/ SaysSo(room.hub) => SaysSo(taken))
    BY <1>4, <1>8, <2>2, <2>3, <2>4, TakenHub
  <2> QED BY <1>4, <1>6, <1>8, <2>1, <2>5 DEF p
<1>11. CASE ~room.ok
  <2>1. p.hub = room.hub
    BY <1>1, <1>11
  <2>2. Contained(s) => SaysSo(h)
    <3> SUFFICES ASSUME Contained(s), ~SaysSo(h) PROVE FALSE
      OBVIOUS
    <3>1. ~ReserveTaken(demoted, f) /\ HasRoom(KeepFrom(demoted, 0), f)
      BY <1>4, <1>7, ReserveServes
    <3> QED BY <1>8, <1>11, <3>1
  <2> QED BY <1>6, <1>8, <2>1, <2>2 DEF p
<1> QED BY <1>9, <1>10, <1>11

(* The run's buffer, whatever the run does.                                *)
Recorded == Hub(hub) /\ ContainmentRecorded

LEMMA RecoverRecords ==
  ASSUME NEW p, Hub(p.hub), RecoverFrom(p)
  PROVE  Recorded'
<1> DEFINE q == Publish(p.hub, "recovery-required", "status")
<1>1. "recovery-required" \in RunStates /\ "status" \in FrameKinds
      /\ Contained("recovery-required")
  BY EventConstants DEF FrameKinds, Contained
<1>2. Hub(q.hub) /\ SaysSo(q.hub)
  <2> HIDE DEF q
  <2> QED BY <1>1, PublishHub DEF q
<1>3. hub' = q.hub
  BY DEF RecoverFrom, Emit
<1> HIDE DEF q
<1> QED BY <1>2, <1>3 DEF Recorded, ContainmentRecorded, SaysSo

LEMMA ProjectionRecords ==
  ASSUME Hub(hub), NEW s \in RunStates, NEW k \in {"status", "tool-event"},
         Contained(s) => k = "status",
         LET p == Publish(hub, s, k)
         IN IF p.ok \/ Contained(s) THEN state' = s /\ Emit(p) ELSE RecoverFrom(p)
  PROVE  Recorded'
<1> DEFINE p == Publish(hub, s, k)
<1>1. k \in FrameKinds /\ k # "model-gateway-retrying"
  BY DEF FrameKinds
<1>2. Hub(p.hub) /\ (Contained(s) => SaysSo(p.hub))
  <2> HIDE DEF p
  <2> QED BY <1>1, PublishHub DEF p
<1>3. IF p.ok \/ Contained(s) THEN state' = s /\ Emit(p) ELSE RecoverFrom(p)
  OBVIOUS
<1> HIDE DEF p
<1>4. CASE p.ok \/ Contained(s)
  <2>1. state' = s /\ hub' = p.hub
    BY <1>3, <1>4 DEF Emit
  <2> QED BY <1>2, <2>1 DEF Recorded, ContainmentRecorded, SaysSo
<1>5. CASE ~(p.ok \/ Contained(s))
  BY <1>2, <1>3, <1>5, RecoverRecords
<1> QED BY <1>4, <1>5

LEMMA AdvanceRevisionRecords ==
  ASSUME IInv, Hub(hub), AdvanceRevision
  PROVE  Recorded'
<1> DEFINE p == Publish(hub, state, "status")
<1>1. state \in RunStates /\ "status" \in FrameKinds
  BY MayPublishRunning DEF AdvanceRevision, FrameKinds
<1>2. Hub(p.hub) /\ (Contained(state) => SaysSo(p.hub))
  <2> HIDE DEF p
  <2> QED BY <1>1, PublishHub DEF p
<1>3. IF p.ok \/ state = "recovery-required" THEN state' = state /\ Emit(p) ELSE RecoverFrom(p)
  BY DEF AdvanceRevision
<1> HIDE DEF p
<1>4. CASE p.ok \/ state = "recovery-required"
  <2>1. state' = state /\ hub' = p.hub
    BY <1>3, <1>4 DEF Emit
  <2> QED BY <1>2, <2>1 DEF Recorded, ContainmentRecorded, SaysSo
<1>5. CASE ~(p.ok \/ state = "recovery-required")
  BY <1>2, <1>3, <1>5, RecoverRecords
<1> QED BY <1>4, <1>5

(* The gateway speaks of a live run: its state contains nothing yet.       *)
LEMMA GatewayRecords ==
  ASSUME IInv, Hub(hub), Live(state), state' = state, NEW k \in FrameKinds,
         Emit(Publish(hub, state, k))
  PROVE  Recorded'
<1>1. ~Contained(state) /\ state \in RunStates
  BY ContainedIsNotLive DEF IInv, Shape
<1>2. Hub(Publish(hub, state, k).hub)
  BY <1>1, PublishHub
<1>3. hub' = Publish(hub, state, k).hub
  BY DEF Emit
<1> QED BY <1>1, <1>2, <1>3 DEF Recorded, ContainmentRecorded

LEMMA SurfaceRecords ==
  ASSUME IInv, Recorded, NEW fact \in FrameKinds, Surface(fact), state' = state
  PROVE  Recorded'
<1>1. CASE Live(state) /\ ~hub.terminal
  BY <1>1, GatewayRecords DEF Recorded, Surface
<1>2. CASE ~(Live(state) /\ ~hub.terminal)
  BY <1>2 DEF Recorded, ContainmentRecorded, Surface
<1> QED BY <1>1, <1>2

LEMMA NewRunHub == Hub(NewRun)
<1>1. DOMAIN NewRun = {"next", "frames", "bytes", "terminal"} /\ NewRun.next = 0
      /\ NewRun.frames = {} /\ NewRun.bytes = 0 /\ NewRun.terminal = FALSE
  BY DEF NewRun
<1>2. Buffer(NewRun)
  BY DEF NewRun, Buffer
<1>3. IsFiniteSet({}) /\ Cardinality({}) = 0 /\ BytesOf({}) = 0
  BY FS_EmptySet, NoBytes
<1>4. FrameBytes["status"] \in Nat /\ MaxBytes \in Nat /\ MaxEvents \in Nat \ {0, 1}
      /\ 2 * FrameBytes["status"] <= MaxBytes
  BY EventConstants DEF FrameKinds
<1>5. Critical({}) = {}
  BY DEF Critical
<1>6. 0 <= MaxEvents - 1 /\ 0 + FrameBytes["status"] <= MaxBytes /\ 0 <= MaxEvents /\ 0 <= MaxBytes
  BY <1>4
<1>7. Reserved(NewRun)
  BY <1>1, <1>3, <1>5, <1>6 DEF Reserved
<1> QED BY <1>1, <1>2, <1>3, <1>6, <1>7 DEF Hub

LEMMA NextRecords ==
  ASSUME IInv, Recorded, [Next]_vars
  PROVE  Recorded'
<1>0. Hub(hub)
  BY DEF Recorded
<1>1. ASSUME NEW to \in RunStates, Transition(to) PROVE Recorded'
  BY <1>0, <1>1, ProjectionRecords DEF Transition
<1>2. CASE PublishOrRecover
  <2>1. state \in RunStates
    BY <1>2, MayPublishRunning DEF PublishOrRecover
  <2> QED BY <1>0, <1>2, <2>1, ProjectionRecords DEF PublishOrRecover
<1>3. CASE AdvanceRevision
  BY <1>0, <1>3, AdvanceRevisionRecords
<1>4. CASE PruneSettled
  <2>1. state' = "pruned" /\ hub' = NewRun
    BY <1>4 DEF PruneSettled
  <2> QED BY <2>1, NewRunHub DEF Recorded, ContainmentRecorded, Contained, TerminalStates
<1>5. ASSUME NEW m \in Calls, HearRetry(m) PROVE Recorded'
  BY <1>0, <1>5, GatewayRecords DEF HearRetry, FrameKinds
<1>6. ASSUME NEW m \in Calls, HearAnswer(m) PROVE Recorded'
  BY <1>6, SurfaceRecords DEF HearAnswer, FrameKinds
<1>7. ASSUME NEW m \in Calls, ReportTurnFailure(m) PROVE Recorded'
  BY <1>0, <1>7, GatewayRecords DEF ReportTurnFailure, FrameKinds
<1>8. ASSUME NEW m \in Calls, CallEnds(m) PROVE Recorded'
  <2>1. CASE calls[m] = "open" /\ NewestIsRetrying(hub)
    BY <1>8, <2>1, SurfaceRecords DEF CallEnds, FrameKinds
  <2>2. CASE ~(calls[m] = "open" /\ NewestIsRetrying(hub))
    BY <1>8, <2>2 DEF CallEnds, Recorded, ContainmentRecorded
  <2> QED BY <2>1, <2>2
<1>9. CASE UNCHANGED <<state, hub>>
  BY <1>9 DEF Recorded, ContainmentRecorded
<1> QED BY <1>1, <1>2, <1>3, <1>4, <1>5, <1>6, <1>7, <1>8, <1>9
        DEF Next, vars, CallStarts, Connect, Resume, ResumeReset, Disconnect

LEMMA RecordedAlways == Spec => [](IInv /\ Recorded)
<1>1. Init => Recorded
  BY NewRunHub DEF Init, Recorded, ContainmentRecorded, Contained, TerminalStates
<1>2. IInv /\ Recorded /\ [Next]_vars => Recorded'
  BY NextRecords
<1> QED BY <1>1, <1>2, InductiveInvariant, PTL DEF Spec

(* publish and makeCapacity: a run that is settled or needs recovery has a *)
(* frame saying so, however many approvals and failures saturated the      *)
(* buffer before.                                                          *)
THEOREM ContainmentIsRecorded == Spec => []ContainmentRecorded
<1>1. Recorded => ContainmentRecorded
  BY DEF Recorded
<1> QED BY <1>1, RecordedAlways, PTL

(* The buffer keeps its two limits, its byte counter is the bytes of the   *)
(* frames it retains, and a browser acknowledges no more than it read.     *)
THEOREM TypeCorrect == Spec => []TypeOK
<1>1. IInv /\ Recorded => TypeOK
  BY DEF IInv, Shape, Readers, Recorded, Hub, Buffer, TypeOK
<1> QED BY <1>1, RecordedAlways, PTL
=============================================================================
