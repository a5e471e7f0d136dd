----------------------- MODULE InvocationRegistryProofs -----------------------
(***************************************************************************)
(* Machine-checked proofs about InvocationRegistry, for every set of       *)
(* identities, every limit and every clock.  IInv is inductive: the        *)
(* indexes own each action id and key once, whatever was executed is still *)
(* buried, evicted or refused with its run, and a staged identity shares   *)
(* neither its action id nor its key with any of those.  On top of it, the *)
(* aggregate counter is the sum of what is staged and taken.               *)
(***************************************************************************)
EXTENDS InvocationRegistry, TotalsProofs

(* The empty registry satisfies the inductive invariant.                   *)
LEMMA InitIInv == Init => IInv
<1> SUFFICES ASSUME Init PROVE IInv
  OBVIOUS
<1>1. TypeOK
  <2>1. disposed \in BOOLEAN
    BY Zenon DEF Init
  <2>2. revoked \in Seq(Runs)
    BY DEF Init
  <2> QED BY <2>1, <2>2 DEF Init, TypeOK
<1>2. \A r : ~IsRevoked(r)
  BY DEF Init, IsRevoked, ToSet
<1> QED BY <1>1, <1>2 DEF Init, IInv, IndexesAgree, Indexed, StagedIsNew, TakenRemembered,
           RefusedHoldsNothing, ExecutedOnce, RunningStoppable

(* Dropping entries and burying them keeps every index, tombstone and      *)
(* executed identity in step; settle and expire do no more than that.      *)
LEMMA DropIInv ==
  ASSUME IInv, NEW live \in SUBSET Ids, NEW held \in SUBSET Ids, Drop(live, held),
         \A i \in live : entries[i] # None,
         \A i \in held : claimed[i] # None,
         tombstones' \in [Ids -> Tombstone \cup {None}],
         \A i \in Ids : tombstones'[i] = None <=> tombstones[i] = None /\ i \notin live,
         UNCHANGED <<now, actions, keys, evicted, revoked, disposed, taken, forgotten>>
  PROVE  IInv'
<1> USE DEF IInv
<1>1. /\ entries' = [i \in Ids |-> IF i \in live THEN None ELSE entries[i]]
      /\ claimed' = [i \in Ids |-> IF i \in held THEN None ELSE claimed[i]]
      /\ running' = running \ held
  BY DEF Drop, Without
<1>2. TypeOK'
  BY <1>1 DEF TypeOK
<1>3. IndexesAgree'
  BY DEF IndexesAgree
<1>4. Indexed' /\ StagedIsNew'
  BY <1>1 DEF Indexed, StagedIsNew, TypeOK
<1>5. TakenRemembered' /\ ExecutedOnce'
  BY <1>1 DEF TakenRemembered, ExecutedOnce, IsRevoked
<1>6. RefusedHoldsNothing' /\ RunningStoppable'
  BY <1>1 DEF RefusedHoldsNothing, RunningStoppable, IsRevoked, TypeOK
<1> QED BY <1>2, <1>3, <1>4, <1>5, <1>6

(* What remember leaves behind: a tombstone for exactly the dropped.       *)
LEMMA RememberBuries ==
  ASSUME TypeOK, NEW es \in [Ids -> Entry \cup {None}], NEW gone \in SUBSET Ids,
         \A i \in gone : es[i] # None
  PROVE  /\ Remember(es, gone) \in [Ids -> Tombstone \cup {None}]
         /\ \A i \in Ids : Remember(es, gone)[i] = None
                           <=> tombstones[i] = None /\ i \notin gone
<1>1. ASSUME NEW i \in gone
      PROVE  [expires |-> es[i].expires, receipt |-> FALSE] \in Tombstone
  <2>1. es[i].expires \in Nat
    BY DEF Entry
  <2> QED BY <2>1 DEF Tombstone
<1>2. None \notin Tombstone
  BY RegistryConstants DEF Tombstone
<1> HIDE DEF Tombstone
<1> QED BY <1>1, <1>2 DEF TypeOK, Remember

LEMMA SettleIInv ==
  ASSUME IInv, NEW i \in Ids, NEW receipt \in BOOLEAN, Settle(i, receipt)
  PROVE  IInv'
<1> DEFINE t == Remember(claimed, {i})
<1>1. /\ claimed[i] # None /\ tombstones[i] # None /\ Drop({}, {i})
      /\ UNCHANGED <<now, actions, keys, evicted, revoked, disposed, taken, forgotten>>
  BY DEF Settle, IInv, StagedIsNew
<1>2. /\ t \in [Ids -> Tombstone \cup {None}]
      /\ \A j \in Ids : t[j] = None <=> tombstones[j] = None
  <2>1. TypeOK /\ claimed \in [Ids -> Entry \cup {None}] /\ {i} \in SUBSET Ids
    BY DEF IInv, TypeOK
  <2>2. \A j \in {i} : claimed[j] # None
    BY <1>1
  <2> QED BY <1>1, <2>1, <2>2, RememberBuries
<1>3. tombstones' = t \/ tombstones' = [t EXCEPT ![i].receipt = TRUE]
  BY DEF Settle
<1>4. [t EXCEPT ![i].receipt = TRUE] \in [Ids -> Tombstone \cup {None}]
  <2>1. t[i] \in Tombstone
    BY <1>1, <1>2
  <2>2. [t[i] EXCEPT !.receipt = TRUE] \in Tombstone
    BY <2>1 DEF Tombstone
  <2> HIDE DEF t
  <2> QED BY <1>2, <2>2
<1>5. \A j \in Ids : [t EXCEPT ![i].receipt = TRUE][j] = None <=> tombstones[j] = None
  <2>1. [t[i] EXCEPT !.receipt = TRUE] # None
    BY <1>1, <1>2, RegistryConstants DEF Tombstone
  <2> HIDE DEF t
  <2> QED BY <1>1, <1>2, <2>1
<1> HIDE DEF t
<1>6. /\ tombstones' \in [Ids -> Tombstone \cup {None}]
      /\ \A j \in Ids : tombstones'[j] = None <=> tombstones[j] = None /\ j \notin {}
  BY <1>2, <1>3, <1>4, <1>5
<1> QED BY <1>1, <1>6, DropIInv

LEMMA ExpireIInv == ASSUME IInv, Expire PROVE IInv'
<1> DEFINE live == {i \in Ids : Due(entries[i])}
           held == {i \in Ids : Due(claimed[i])}
<1>1. /\ Drop(live, held)
      /\ tombstones' = [i \in Ids |-> IF i \in live THEN Remember(entries, live)[i]
                                      ELSE Remember(claimed, held)[i]]
      /\ UNCHANGED <<now, actions, keys, evicted, revoked, disposed, taken, forgotten>>
  BY DEF Expire
<1>2. /\ \A i \in live : entries[i] # None
      /\ \A i \in held : claimed[i] # None /\ tombstones[i] # None
  BY DEF Due, IInv, StagedIsNew
<1>3. TypeOK
  BY DEF IInv
<1>4. /\ Remember(entries, live) \in [Ids -> Tombstone \cup {None}]
      /\ \A i \in Ids : Remember(entries, live)[i] = None
                        <=> tombstones[i] = None /\ i \notin live
  <2>1. entries \in [Ids -> Entry \cup {None}] /\ live \in SUBSET Ids
    BY <1>3 DEF TypeOK
  <2> QED BY <1>2, <1>3, <2>1, RememberBuries
<1>5. /\ Remember(claimed, held) \in [Ids -> Tombstone \cup {None}]
      /\ \A i \in Ids : Remember(claimed, held)[i] = None
                        <=> tombstones[i] = None /\ i \notin held
  <2>1. claimed \in [Ids -> Entry \cup {None}] /\ held \in SUBSET Ids
    BY <1>3 DEF TypeOK
  <2> QED BY <1>2, <1>3, <2>1, RememberBuries
<1> HIDE DEF live, held
<1>6. live \in SUBSET Ids /\ held \in SUBSET Ids
  BY DEF live, held
<1>7. /\ tombstones' \in [Ids -> Tombstone \cup {None}]
      /\ \A i \in Ids : tombstones'[i] = None <=> tombstones[i] = None /\ i \notin live
  BY <1>1, <1>2, <1>4, <1>5
<1> QED BY <1>1, <1>2, <1>6, <1>7, DropIInv

(* Making room: evicted identities move from the indexes to the filter.    *)
LEMMA StageIInv ==
  ASSUME IInv, NEW i \in Ids, NEW size \in Sizes, NEW life \in Lives, Stage(i, size, life)
  PROVE  IInv'
<1> DEFINE gone == Evictable(RunOf[i])
           left == {j \in actions : ~\E g \in gone : SameAction(j, g)}
           fresh == [expires |-> now + life, bytes |-> size, native |-> None]
<1> USE DEF IInv
<1>1. /\ ~disposed /\ ~IsRevoked(RunOf[i]) /\ ~Collides(i)
      /\ evicted' = evicted \cup gone
      /\ tombstones' = [j \in Ids |-> IF j \in gone THEN None ELSE tombstones[j]]
      /\ UNCHANGED <<now, claimed, revoked, disposed, taken, running, forgotten>>
  BY DEF Stage, Evict, histories
<1>2. \/ /\ entries' = [entries EXCEPT ![i] = fresh]
         /\ actions' = left \cup {i}
         /\ keys' = {j \in keys : ~\E g \in gone : SameKey(j, g)} \cup {i}
      \/ /\ entries' = entries
         /\ actions' = left
         /\ keys' = {j \in keys : ~\E g \in gone : SameKey(j, g)}
  BY DEF Stage
<1>3. /\ gone \in SUBSET Ids
      /\ \A g \in gone : tombstones[g] # None /\ entries[g] = None /\ claimed[g] = None
  BY DEF Evictable, OfRun
<1> HIDE DEF gone
<1>4. gone \subseteq actions
  BY <1>3 DEF Indexed
<1>5. left = actions \ gone
  BY <1>4 DEF IndexesAgree, SameAction, TypeOK
<1>6. {j \in keys : ~\E g \in gone : SameKey(j, g)} = actions \ gone
  BY <1>4 DEF IndexesAgree, SameKey, TypeOK
<1>7. i \notin actions /\ i \notin keys /\ i \notin gone
  BY <1>1, <1>4 DEF Collides, SameAction, SameKey
<1>8. \/ entries' = [entries EXCEPT ![i] = fresh] /\ actions' = (actions \ gone) \cup {i}
      \/ entries' = entries /\ actions' = actions \ gone
  BY <1>2, <1>5
<1>9. keys' = actions'
  BY <1>2, <1>5, <1>6
<1>10. fresh \in Entry /\ fresh # None
  BY RegistryConstants DEF Entry, TypeOK
<1>11. entries[i] = None /\ claimed[i] = None /\ tombstones[i] = None
  BY <1>7 DEF Indexed
<1> HIDE DEF left, fresh
<1>12. TypeOK'
  BY <1>1, <1>3, <1>8, <1>9, <1>10 DEF TypeOK
<1>13. IndexesAgree'
  <2>1. \A j \in actions : ~SameAction(i, j) /\ ~SameKey(i, j) /\ ~SameAction(j, i) /\ ~SameKey(j, i)
    BY <1>1 DEF Collides, IndexesAgree, SameAction, SameKey
  <2>2. \A j \in evicted : ~SameAction(i, j) /\ ~SameKey(i, j)
    BY <1>1 DEF Collides
  <2>3. \A j \in actions \ gone, g \in gone : ~SameAction(j, g) /\ ~SameKey(j, g)
    BY <1>4 DEF IndexesAgree
  <2> QED BY <1>1, <1>4, <1>8, <1>9, <2>1, <2>2, <2>3 DEF IndexesAgree
<1>14. Indexed'
  BY <1>1, <1>3, <1>8 DEF Indexed, TypeOK
<1>15. StagedIsNew'
  BY <1>1, <1>3, <1>8, <1>11 DEF StagedIsNew, TypeOK
<1>16. TakenRemembered' /\ ExecutedOnce'
  BY <1>1 DEF TakenRemembered, ExecutedOnce, IsRevoked
<1>17. RefusedHoldsNothing'
  BY <1>1, <1>8 DEF RefusedHoldsNothing, IsRevoked, TypeOK
<1>18. RunningStoppable'
  BY <1>1 DEF RunningStoppable, IsRevoked
<1> QED BY <1>12, <1>13, <1>14, <1>15, <1>16, <1>17, <1>18

(* A staged identity shares no action id and no key with an executed one.  *)
LEMMA StagedNeverTaken ==
  ASSUME IInv, NEW i \in Ids, NEW j \in Ids, entries[i] # None, taken[j] > 0,
         RunOf[j] \notin forgotten, SameAction(i, j) \/ SameKey(i, j)
  PROVE  FALSE
<1> USE DEF IInv
<1>1. i \in actions /\ tombstones[i] = None
  BY DEF Indexed, StagedIsNew
<1>2. ~disposed /\ ~IsRevoked(RunOf[i]) /\ RunOf[i] = RunOf[j]
  BY DEF RefusedHoldsNothing, SameAction, SameKey
<1>3. CASE j \in evicted
  BY <1>1, <1>3 DEF IndexesAgree
<1>4. CASE tombstones[j] # None
  <2>1. j \in actions
    BY <1>4 DEF Indexed
  <2> QED BY <1>1, <1>4, <2>1 DEF IndexesAgree
<1> QED BY <1>2, <1>3, <1>4 DEF TakenRemembered

LEMMA TakeIInv == ASSUME IInv, NEW i \in Ids, Take(i) PROVE IInv'
<1> USE DEF IInv
<1>1. /\ ~disposed /\ ~IsRevoked(RunOf[i]) /\ entries[i] # None
      /\ entries' = [entries EXCEPT ![i] = None]
      /\ claimed' = [claimed EXCEPT ![i] = entries[i]]
      /\ tombstones' = Remember(entries, {i})
      /\ running' = running \cup {i}
      /\ taken' = taken \/ (RunOf[i] \notin forgotten /\ taken' = [taken EXCEPT ![i] = @ + 1])
      /\ UNCHANGED <<now, actions, keys, evicted, revoked, disposed, forgotten>>
  BY DEF Take, CountTake
<1>2. /\ tombstones' \in [Ids -> Tombstone \cup {None}]
      /\ \A j \in Ids : tombstones'[j] = None <=> tombstones[j] = None /\ j # i
  <2>1. TypeOK /\ entries \in [Ids -> Entry \cup {None}] /\ {i} \in SUBSET Ids
    BY DEF TypeOK
  <2>2. \A j \in {i} : entries[j] # None
    BY <1>1
  <2> QED BY <1>1, <2>1, <2>2, RememberBuries
<1>3. TypeOK'
  <2>1. taken' \in [Ids -> Nat]
    BY <1>1 DEF TypeOK
  <2>2. /\ entries' \in [Ids -> Entry \cup {None}] /\ claimed' \in [Ids -> Entry \cup {None}]
        /\ running' \subseteq Ids
    BY <1>1 DEF TypeOK
  <2>3. /\ now' \in Nat /\ actions' \subseteq Ids /\ keys' \subseteq Ids /\ evicted' \subseteq Ids
        /\ revoked' \in Seq(Runs) /\ forgotten' \subseteq Runs /\ disposed' \in BOOLEAN
    BY <1>1 DEF TypeOK
  <2> QED BY <1>2, <2>1, <2>2, <2>3 DEF TypeOK
<1>4. IndexesAgree'
  BY <1>1 DEF IndexesAgree
<1>5. Indexed' /\ StagedIsNew'
  BY <1>1, <1>2 DEF Indexed, StagedIsNew, TypeOK
<1>6. TakenRemembered'
  BY <1>1, <1>2 DEF TakenRemembered, IsRevoked, TypeOK
<1>7. RefusedHoldsNothing' /\ RunningStoppable'
  BY <1>1 DEF RefusedHoldsNothing, RunningStoppable, IsRevoked, TypeOK
<1>8. ExecutedOnce'
  <2>1. CASE taken' = taken
    BY <1>1, <2>1 DEF ExecutedOnce
  <2>2. CASE RunOf[i] \notin forgotten /\ taken' = [taken EXCEPT ![i] = @ + 1]
    <3>1. \A j \in Ids : SameAction(i, j) \/ SameKey(i, j) => ~(taken[j] > 0)
      BY <1>1, <2>2, StagedNeverTaken DEF SameAction, SameKey
    <3>2. taken[i] = 0
      BY <3>1 DEF SameAction, TypeOK
    <3>3. taken'[i] = 1 /\ \A j \in Ids : j # i => taken'[j] = taken[j]
      BY <2>2, <3>2 DEF TypeOK
    <3> QED BY <1>1, <3>1, <3>3 DEF ExecutedOnce, SameAction, SameKey
  <2> QED BY <1>1, <2>1, <2>2
<1> QED BY <1>3, <1>4, <1>5, <1>6, <1>7, <1>8

(* A native read only changes the packets of a claimed entry.              *)
LEMMA NativeReadIInv ==
  ASSUME IInv, NEW i \in Ids, AttachNativeRead(i) \/ ClaimNativeReadOperation(i)
  PROVE  IInv'
<1> USE DEF IInv
<1>1. PICK n \in Nat : claimed' = [claimed EXCEPT ![i].native = n]
  <2>1. CASE AttachNativeRead(i)
    BY <2>1 DEF AttachNativeRead
  <2>2. CASE ClaimNativeReadOperation(i)
    <3>1. claimed[i].native \in Nat /\ PacketBytes \in Nat
      BY <2>2, RegistryConstants DEF ClaimNativeReadOperation, TypeOK, Entry
    <3>2. claimed' = [claimed EXCEPT ![i].native = claimed[i].native + PacketBytes]
      BY <2>2 DEF ClaimNativeReadOperation, TypeOK
    <3>3. claimed[i].native + PacketBytes \in Nat
      BY <3>1
    <3> QED BY <3>2, <3>3, Zenon
  <2> QED BY <2>1, <2>2
<1>2. /\ claimed[i] # None
      /\ UNCHANGED <<now, entries, tombstones, actions, keys, evicted, revoked, disposed,
                     taken, running, forgotten>>
  BY DEF AttachNativeRead, ClaimNativeReadOperation, histories
<1>3. [claimed[i] EXCEPT !.native = n] \in Entry
  BY <1>2 DEF TypeOK, Entry
<1>4. [claimed[i] EXCEPT !.native = n] # None
  BY <1>3, RegistryConstants DEF Entry
<1>5. /\ claimed' \in [Ids -> Entry \cup {None}]
      /\ \A j \in Ids : claimed'[j] = None <=> claimed[j] = None
  BY <1>1, <1>2, <1>3, <1>4 DEF TypeOK
<1>6. TypeOK'
  BY <1>2, <1>5 DEF TypeOK
<1>7. IndexesAgree' /\ Indexed' /\ StagedIsNew'
  BY <1>2, <1>5 DEF IndexesAgree, Indexed, StagedIsNew
<1>8. TakenRemembered' /\ RefusedHoldsNothing' /\ ExecutedOnce' /\ RunningStoppable'
  BY <1>2, <1>5 DEF TakenRemembered, RefusedHoldsNothing, ExecutedOnce, RunningStoppable,
                    IsRevoked, TypeOK
<1> QED BY <1>6, <1>7, <1>8

(* The elements of a sequence are those at its positions.                  *)
LEMMA ElementsOfSeq ==
  ASSUME NEW S, NEW s \in Seq(S)
  PROVE  ToSet(s) = {s[k] : k \in 1 .. Len(s)}
<1>1. DOMAIN s = 1 .. Len(s)
  OBVIOUS
<1> QED BY <1>1 DEF ToSet

(* The bounded memory loses a revoked run only to the forgotten ones.      *)
LEMMA RevokedOrForgotten ==
  ASSUME TypeOK, NEW r \in Runs, RevokeRun(r)
  PROVE  /\ revoked' \in Seq(Runs) /\ forgotten' \subseteq Runs /\ forgotten \subseteq forgotten'
         /\ \A q \in ToSet(revoked) \cup {r} : q \in ToSet(revoked') \/ q \in forgotten'
         /\ ToSet(revoked') \subseteq ToSet(revoked) \cup {r}
<1> DEFINE all == Append(revoked, r)
<1>1. /\ all \in Seq(Runs) /\ all # <<>> /\ Head(all) = all[1] /\ Len(all) = Len(revoked) + 1
      /\ \A k \in 1 .. Len(revoked) : all[k] = revoked[k]
      /\ all[Len(revoked) + 1] = r
  <2>1. revoked \in Seq(Runs)
    BY DEF TypeOK
  <2>2. all \in Seq(Runs) /\ Len(all) = Len(revoked) + 1 /\ Len(revoked) \in Nat
    BY <2>1
  <2>3. all # <<>> /\ Head(all) = all[1]
    BY <2>2
  <2> QED BY <2>1, <2>2, <2>3
<1> HIDE DEF all
<1>2. ToSet(all) = ToSet(revoked) \cup {r}
  <2>1. ToSet(all) = {all[k] : k \in 1 .. Len(revoked) + 1}
    <3>1. ToSet(all) = {all[k] : k \in 1 .. Len(all)}
      BY <1>1, ElementsOfSeq
    <3> QED BY <1>1, <3>1
  <2>2. ToSet(revoked) = {revoked[k] : k \in 1 .. Len(revoked)}
    BY ElementsOfSeq DEF TypeOK
  <2>3. /\ Len(revoked) \in Nat
        /\ 1 .. Len(revoked) + 1 = (1 .. Len(revoked)) \cup {Len(revoked) + 1}
    BY DEF TypeOK
  <2>4. \A k \in 1 .. Len(revoked) + 1 : all[k] \in ToSet(revoked) \cup {r}
    BY <1>1, <2>2, <2>3
  <2>5. \A k \in 1 .. Len(revoked) : revoked[k] \in ToSet(all)
    BY <1>1, <2>1, <2>3
  <2>6. r \in ToSet(all)
    BY <1>1, <2>1, <2>3
  <2> QED BY <2>1, <2>2, <2>4, <2>5, <2>6
<1>3. CASE revoked' = all /\ UNCHANGED forgotten
  BY <1>1, <1>2, <1>3 DEF TypeOK
<1>4. CASE revoked' = Tail(all) /\ forgotten' = forgotten \cup {Head(all)}
  <2>1. /\ Tail(all) \in Seq(Runs) /\ Len(Tail(all)) = Len(revoked)
        /\ \A k \in 1 .. Len(revoked) : Tail(all)[k] = all[k + 1]
    BY <1>1 DEF TypeOK
  <2>2. ToSet(Tail(all)) = {Tail(all)[k] : k \in 1 .. Len(revoked)}
    <3>1. ToSet(Tail(all)) = {Tail(all)[k] : k \in 1 .. Len(Tail(all))}
      BY <2>1, ElementsOfSeq
    <3> QED BY <2>1, <3>1
  <2>3. ToSet(all) = {all[k] : k \in 1 .. Len(revoked) + 1}
    <3>1. ToSet(all) = {all[k] : k \in 1 .. Len(all)}
      BY <1>1, ElementsOfSeq
    <3> QED BY <1>1, <3>1
  <2>4. Len(revoked) \in Nat
    BY DEF TypeOK
  <2>5. ASSUME NEW k \in 1 .. Len(revoked) + 1
        PROVE  all[k] = Head(all) \/ all[k] \in ToSet(Tail(all))
    <3>1. CASE k = 1
      BY <1>1, <3>1
    <3>2. CASE k # 1
      <4>1. k - 1 \in 1 .. Len(revoked) /\ (k - 1) + 1 = k
        BY <2>4, <3>2
      <4>2. Tail(all)[k - 1] = all[k]
        BY <2>1, <4>1
      <4> QED BY <2>2, <4>1, <4>2
    <3> QED BY <3>1, <3>2
  <2>6. ASSUME NEW k \in 1 .. Len(revoked) PROVE Tail(all)[k] \in ToSet(all)
    <3>1. k + 1 \in 1 .. Len(revoked) + 1
      BY <2>4
    <3> QED BY <2>1, <2>3, <3>1
  <2>7. /\ ToSet(all) \subseteq ToSet(Tail(all)) \cup {Head(all)}
        /\ ToSet(Tail(all)) \subseteq ToSet(all)
    BY <2>2, <2>3, <2>5, <2>6
  <2>8. Head(all) \in Runs
    BY <1>1
  <2> QED BY <1>2, <1>4, <2>1, <2>7, <2>8 DEF TypeOK
<1> QED BY <1>3, <1>4 DEF RevokeRun, all

LEMMA RevokeRunIInv == ASSUME IInv, NEW r \in Runs, RevokeRun(r) PROVE IInv'
<1> USE DEF IInv
<1>1. /\ entries' = [i \in Ids |-> IF RunOf[i] = r THEN None ELSE entries[i]]
      /\ claimed' = [i \in Ids |-> IF RunOf[i] = r THEN None ELSE claimed[i]]
      /\ running' = running \ {i \in Ids : RunOf[i] = r /\ claimed[i] # None}
      /\ tombstones' = [i \in Ids |-> IF RunOf[i] = r THEN None ELSE tombstones[i]]
      /\ actions' = {i \in actions : RunOf[i] # r}
      /\ keys' = {i \in keys : RunOf[i] # r}
      /\ evicted' = {i \in evicted : RunOf[i] # r}
      /\ UNCHANGED <<now, disposed, taken>>
  BY DEF RevokeRun, Drop, Without, OfRun
<1>2. /\ revoked' \in Seq(Runs) /\ forgotten' \subseteq Runs /\ forgotten \subseteq forgotten'
      /\ \A q \in ToSet(revoked) \cup {r} : q \in ToSet(revoked') \/ q \in forgotten'
      /\ ToSet(revoked') \subseteq ToSet(revoked) \cup {r}
  BY RevokedOrForgotten
<1>3. TypeOK'
  BY <1>1, <1>2 DEF TypeOK
<1>4. IndexesAgree' /\ Indexed' /\ StagedIsNew'
  BY <1>1 DEF IndexesAgree, Indexed, StagedIsNew, SameAction, SameKey, TypeOK
<1>5. TakenRemembered'
  BY <1>1, <1>2 DEF TakenRemembered, IsRevoked, TypeOK
<1>6. RefusedHoldsNothing'
  BY <1>1, <1>2 DEF RefusedHoldsNothing, IsRevoked, TypeOK
<1>7. ExecutedOnce'
  BY <1>1, <1>2 DEF ExecutedOnce
<1>8. RunningStoppable'
  BY <1>1, <1>2 DEF RunningStoppable, IsRevoked, TypeOK
<1> QED BY <1>3, <1>4, <1>5, <1>6, <1>7, <1>8

LEMMA DisposeIInv == ASSUME IInv, Dispose PROVE IInv'
<1> USE DEF IInv
<1>1. /\ entries' = [i \in Ids |-> None] /\ claimed' = [i \in Ids |-> None]
      /\ tombstones' = [i \in Ids |-> None]
      /\ running' = running \ {i \in Ids : claimed[i] # None}
      /\ actions' = {} /\ keys' = {} /\ evicted' = {} /\ disposed' = TRUE
      /\ UNCHANGED <<now, revoked, taken, forgotten>>
  BY DEF Dispose, Drop, Without, TypeOK
<1>2. TypeOK'
  BY <1>1 DEF TypeOK
<1>3. running' = {}
  BY <1>1 DEF RunningStoppable, TypeOK
<1> QED BY <1>1, <1>2, <1>3 DEF IndexesAgree, Indexed, StagedIsNew, TakenRemembered,
           RefusedHoldsNothing, ExecutedOnce, RunningStoppable

LEMMA TickIInv == ASSUME IInv, Tick PROVE IInv'
<1>1. /\ now' = now + 1
      /\ UNCHANGED <<entries, claimed, tombstones, actions, keys, evicted, revoked, disposed,
                     taken, running, forgotten>>
  BY DEF Tick, histories
<1> QED BY <1>1 DEF IInv, TypeOK, IndexesAgree, Indexed, StagedIsNew, TakenRemembered,
           RefusedHoldsNothing, ExecutedOnce, RunningStoppable, IsRevoked

(* Every step of the registry keeps the inductive invariant.               *)
LEMMA NextIInv == IInv /\ [Next]_vars => IInv'
<1> SUFFICES ASSUME IInv, [Next]_vars PROVE IInv'
  OBVIOUS
<1>1. CASE UNCHANGED vars
  BY <1>1 DEF vars, IInv, TypeOK, IndexesAgree, Indexed, StagedIsNew, TakenRemembered,
          RefusedHoldsNothing, ExecutedOnce, RunningStoppable, IsRevoked
<1> QED BY <1>1, StageIInv, TakeIInv, NativeReadIInv, SettleIInv, ExpireIInv, RevokeRunIInv,
           DisposeIInv, TickIInv DEF Next

(* For every number of runs, identities and limits of                      *)
(* codingToolInvocationRegistry.ts, the inductive invariant holds          *)
(* throughout.                                                             *)
THEOREM InductiveInvariant == Spec => []IInv
  BY InitIInv, NextIInv, PTL DEF Spec

(* take hands an action id, and an idempotency key, of a remembered run to *)
(* at most one executor, once.                                             *)
THEOREM ExecutedOnceTheorem == Spec => []ExecutedOnce
<1>1. IInv => ExecutedOnce
  BY DEF IInv
<1> QED BY <1>1, InductiveInvariant, PTL

(* Every executor that has not been told to stop can still be reached by   *)
(* revokeRun, dispose and its timer.                                       *)
THEOREM RunningStoppableTheorem == Spec => []RunningStoppable
<1>1. IInv => RunningStoppable
  BY DEF IInv
<1> QED BY <1>1, InductiveInvariant, PTL

(* The registry keeps its shape, and a tombstone holds no payload.         *)
THEOREM TypeCorrect == Spec => []TypeOK
<1>1. IInv => TypeOK
  BY DEF IInv
<1> QED BY <1>1, InductiveInvariant, PTL

--------------------------------------------------------------------------
(* The aggregate counter.                                                  *)

Load(es) == [i \in Ids |-> Held(es[i])]

(* What is staged and taken is finite in bytes, however many identities    *)
(* there are, and the counter is its sum.                                  *)
Accounted ==
    /\ IsFiniteSet(Units(Load(entries), Ids)) /\ IsFiniteSet(Units(Load(claimed), Ids))
    /\ BytesAccounted

LEMMA HeldIsNat ==
  ASSUME NEW e \in Entry \cup {None}
  PROVE  Held(e) \in Nat
<1>1. CASE e = None
  BY <1>1 DEF Held
<1>2. CASE e # None
  <2>1. e.bytes \in Nat /\ (e.native = None \/ e.native \in Nat)
    BY <1>2 DEF Entry
  <2> QED BY <1>2, <2>1 DEF Held
<1> QED BY <1>1, <1>2

LEMMA HeldByLoad ==
  ASSUME NEW es, NEW gone \in SUBSET Ids
  PROVE  HeldBy(es, gone) = Total(Load(es), gone)
<1>1. \A i \in gone : [j \in gone |-> Held(es[j])][i] = Load(es)[i]
  BY DEF Load
<1> QED BY <1>1, TotalSame DEF HeldBy

(* What is dropped and what is left make up what was held.                 *)
LEMMA WithoutHeld ==
  ASSUME NEW es, IsFiniteSet(Units(Load(es), Ids)), NEW gone \in SUBSET Ids
  PROVE  /\ IsFiniteSet(Units(Load(Without(es, gone)), Ids))
         /\ HeldBy(es, Ids) = HeldBy(es, gone) + HeldBy(Without(es, gone), Ids)
         /\ HeldBy(es, gone) \in Nat /\ HeldBy(Without(es, gone), Ids) \in Nat
<1> DEFINE kept == Ids \ gone
           v == Load(es)
           w == Load(Without(es, gone))
<1>1. /\ \A i \in kept : w[i] = v[i]
      /\ \A i \in Ids \ kept : w[i] = 0
  BY DEF Load, Without, Held
<1> HIDE DEF v, w
<1>2. /\ IsFiniteSet(Units(v, kept))
      /\ Total(v, Ids) = Total(v, gone) + Total(v, kept)
      /\ Total(v, gone) \in Nat /\ Total(v, kept) \in Nat
  <2>1. \A T \in SUBSET Ids :
          /\ IsFiniteSet(Units(v, Ids \ T)) /\ Total(v, Ids) = Total(v, T) + Total(v, Ids \ T)
          /\ Total(v, T) \in Nat /\ Total(v, Ids \ T) \in Nat
    BY TotalSplit DEF v
  <2> QED BY <2>1
<1>3. Units(w, Ids) = Units(w, kept) /\ Total(w, Ids) = Total(w, kept)
  <2>1. kept \in SUBSET Ids
    OBVIOUS
  <2> HIDE DEF kept
  <2> QED BY <1>1, <2>1, TotalOfSized
<1>4. Units(w, kept) = Units(v, kept) /\ Total(w, kept) = Total(v, kept)
  BY <1>1, TotalSame
<1>5. /\ HeldBy(es, Ids) = Total(v, Ids) /\ HeldBy(es, gone) = Total(v, gone)
      /\ HeldBy(Without(es, gone), Ids) = Total(w, Ids)
  BY HeldByLoad DEF v, w
<1> HIDE DEF kept
<1> QED BY <1>2, <1>3, <1>4, <1>5 DEF w

(* One entry that changes changes the sum by as much.                      *)
LEMMA ChangeHeld ==
  ASSUME NEW es \in [Ids -> Entry \cup {None}], IsFiniteSet(Units(Load(es), Ids)),
         NEW fs \in [Ids -> Entry \cup {None}], NEW x \in Ids, \A y \in Ids \ {x} : fs[y] = es[y]
  PROVE  /\ IsFiniteSet(Units(Load(fs), Ids))
         /\ HeldBy(fs, Ids) = HeldBy(es, Ids) - Held(es[x]) + Held(fs[x])
         /\ HeldBy(fs, Ids) \in Nat /\ HeldBy(es, Ids) \in Nat
<1> DEFINE v == Load(es)
           w == Load(fs)
<1>1. /\ v[x] = Held(es[x]) /\ w[x] = Held(fs[x]) /\ v[x] \in Nat /\ w[x] \in Nat
      /\ \A y \in Ids \ {x} : v[y] = w[y]
  BY HeldIsNat DEF Load
<1>2. HeldBy(es, Ids) = Total(v, Ids) /\ HeldBy(fs, Ids) = Total(w, Ids)
  BY HeldByLoad
<1>3. IsFiniteSet(Units(v, Ids))
  OBVIOUS
<1> HIDE DEF v, w
<1>4. /\ IsFiniteSet(Units(w, Ids)) /\ Total(w, Ids) = Total(v, Ids) - v[x] + w[x]
      /\ Total(w, Ids) \in Nat /\ Total(v, Ids) \in Nat
  <2>1. \A y \in Ids :
          v[y] \in Nat /\ w[y] \in Nat /\ (\A z \in Ids \ {y} : v[z] = w[z]) =>
          /\ IsFiniteSet(Units(w, Ids)) /\ Total(w, Ids) = Total(v, Ids) - v[y] + w[y]
          /\ Total(w, Ids) \in Nat /\ Total(v, Ids) \in Nat
    BY <1>3, TotalResize
  <2> QED BY <1>1, <2>1
<1> QED BY <1>1, <1>2, <1>4 DEF w

(* A drop lowers the counter by what it drops, never below zero.           *)
LEMMA DropAccounted ==
  ASSUME Accounted, NEW live \in SUBSET Ids, NEW held \in SUBSET Ids, Drop(live, held)
  PROVE  Accounted'
<1>1. /\ entries' = Without(entries, live) /\ claimed' = Without(claimed, held)
      /\ totalBytes' = totalBytes - HeldBy(entries, live) - HeldBy(claimed, held)
  BY DEF Drop
<1>2. /\ IsFiniteSet(Units(Load(entries'), Ids))
      /\ HeldBy(entries, Ids) = HeldBy(entries, live) + HeldBy(entries', Ids)
      /\ HeldBy(entries, live) \in Nat /\ HeldBy(entries', Ids) \in Nat
  BY <1>1, WithoutHeld DEF Accounted
<1>3. /\ IsFiniteSet(Units(Load(claimed'), Ids))
      /\ HeldBy(claimed, Ids) = HeldBy(claimed, held) + HeldBy(claimed', Ids)
      /\ HeldBy(claimed, held) \in Nat /\ HeldBy(claimed', Ids) \in Nat
  BY <1>1, WithoutHeld DEF Accounted
<1>4. /\ totalBytes = HeldBy(entries, Ids) + HeldBy(claimed, Ids)
      /\ totalBytes <= MaxTotalBytes /\ MaxTotalBytes \in Nat
  BY RegistryConstants DEF Accounted, BytesAccounted
<1>5. /\ totalBytes' = HeldBy(entries', Ids) + HeldBy(claimed', Ids)
      /\ totalBytes' <= MaxTotalBytes
  BY <1>1, <1>2, <1>3, <1>4
<1> QED BY <1>2, <1>3, <1>5 DEF Accounted, BytesAccounted

LEMMA StageAccounted ==
  ASSUME IInv, Accounted, NEW i \in Ids, NEW size \in Sizes, NEW life \in Lives,
         Stage(i, size, life)
  PROVE  Accounted'
<1> DEFINE fresh == [expires |-> now + life, bytes |-> size, native |-> None]
<1>1. \/ /\ entries' = [entries EXCEPT ![i] = fresh] /\ totalBytes' = totalBytes + size
         /\ totalBytes + size <= MaxTotalBytes
      \/ UNCHANGED <<entries, totalBytes>>
  BY DEF Stage
<1>2. ~Collides(i) /\ claimed' = claimed
  BY DEF Stage
<1>3. entries[i] = None
  BY <1>2 DEF Collides, SameAction, IInv, Indexed
<1>4. fresh \in Entry /\ fresh # None /\ Held(fresh) = size /\ Held(entries[i]) = 0
      /\ size \in Nat
  <2>1. size \in Nat /\ now + life \in Nat
    BY RegistryConstants DEF IInv, TypeOK
  <2>2. fresh \in Entry
    BY <2>1 DEF Entry
  <2>3. fresh # None
    BY <2>2, RegistryConstants DEF Entry
  <2>4. Held(fresh) = size
    BY <2>1, <2>3 DEF Held
  <2> QED BY <1>3, <2>1, <2>2, <2>3, <2>4 DEF Held
<1> HIDE DEF fresh
<1>5. CASE /\ entries' = [entries EXCEPT ![i] = fresh] /\ totalBytes' = totalBytes + size
           /\ totalBytes + size <= MaxTotalBytes
  <2>1. entries \in [Ids -> Entry \cup {None}] /\ IsFiniteSet(Units(Load(entries), Ids))
    BY DEF IInv, TypeOK, Accounted
  <2>2. /\ IsFiniteSet(Units(Load(entries'), Ids))
        /\ HeldBy(entries', Ids) = HeldBy(entries, Ids) - Held(entries[i]) + Held(fresh)
        /\ HeldBy(entries', Ids) \in Nat /\ HeldBy(entries, Ids) \in Nat
    <3>1. /\ entries' \in [Ids -> Entry \cup {None}] /\ entries'[i] = fresh
          /\ \A j \in Ids \ {i} : entries'[j] = entries[j]
      BY <1>4, <1>5, <2>1
    <3> QED BY <2>1, <3>1, ChangeHeld
  <2>3. HeldBy(claimed, Ids) \in Nat /\ HeldBy(claimed', Ids) = HeldBy(claimed, Ids)
    <3>1. Without(claimed, {}) = claimed
      BY DEF Without, IInv, TypeOK
    <3> QED BY <1>2, <3>1, WithoutHeld DEF Accounted
  <2>4. totalBytes' = HeldBy(entries', Ids) + HeldBy(claimed', Ids)
    BY <1>4, <1>5, <2>2, <2>3 DEF Accounted, BytesAccounted
  <2> QED BY <1>2, <1>5, <2>2, <2>4 DEF Accounted, BytesAccounted
<1>6. CASE UNCHANGED <<entries, totalBytes>>
  BY <1>2, <1>6 DEF Accounted, BytesAccounted
<1> QED BY <1>1, <1>5, <1>6

(* The bytes of an entry move with it when it is taken.                    *)
LEMMA TakeAccounted ==
  ASSUME IInv, Accounted, NEW i \in Ids, Take(i)
  PROVE  Accounted'
<1>1. /\ claimed[i] = None /\ entries' = [entries EXCEPT ![i] = None]
      /\ claimed' = [claimed EXCEPT ![i] = entries[i]] /\ totalBytes' = totalBytes
  BY DEF Take
<1>2. /\ entries \in [Ids -> Entry \cup {None}] /\ claimed \in [Ids -> Entry \cup {None}]
      /\ entries[i] \in Entry \cup {None} /\ Held(None) = 0 /\ Held(entries[i]) \in Nat
  BY HeldIsNat DEF IInv, TypeOK, Held
<1>3. /\ IsFiniteSet(Units(Load(entries'), Ids))
      /\ HeldBy(entries', Ids) = HeldBy(entries, Ids) - Held(entries[i]) + 0
      /\ HeldBy(entries', Ids) \in Nat /\ HeldBy(entries, Ids) \in Nat
  <2>1. /\ entries' \in [Ids -> Entry \cup {None}] /\ entries'[i] = None
        /\ \A j \in Ids \ {i} : entries'[j] = entries[j]
    BY <1>1, <1>2
  <2> QED BY <1>2, <2>1, ChangeHeld DEF Accounted
<1>4. /\ IsFiniteSet(Units(Load(claimed'), Ids))
      /\ HeldBy(claimed', Ids) = HeldBy(claimed, Ids) - 0 + Held(entries[i])
      /\ HeldBy(claimed', Ids) \in Nat /\ HeldBy(claimed, Ids) \in Nat
  <2>1. /\ claimed' \in [Ids -> Entry \cup {None}] /\ claimed'[i] = entries[i]
        /\ \A j \in Ids \ {i} : claimed'[j] = claimed[j]
    BY <1>1, <1>2
  <2> QED BY <1>1, <1>2, <2>1, ChangeHeld DEF Accounted
<1>5. totalBytes' = HeldBy(entries', Ids) + HeldBy(claimed', Ids)
  BY <1>1, <1>2, <1>3, <1>4 DEF Accounted, BytesAccounted
<1> QED BY <1>1, <1>3, <1>4, <1>5 DEF Accounted, BytesAccounted

(* A native read adds its packet to its entry and to the counter.          *)
LEMMA NativeReadAccounted ==
  ASSUME IInv, Accounted, NEW i \in Ids, AttachNativeRead(i) \/ ClaimNativeReadOperation(i)
  PROVE  Accounted'
<1>0. /\ claimed \in [Ids -> Entry \cup {None}] /\ claimed[i] # None /\ entries' = entries
      /\ PacketBytes \in Nat
  BY RegistryConstants DEF IInv, TypeOK, AttachNativeRead, ClaimNativeReadOperation
<1>1. totalBytes \in Nat /\ totalBytes <= MaxTotalBytes /\ HeldBy(entries, Ids) \in Nat
  <2>1. Without(claimed, {}) = claimed /\ Without(entries, {}) = entries
    BY DEF Without, IInv, TypeOK
  <2>2. HeldBy(claimed, Ids) \in Nat /\ HeldBy(entries, Ids) \in Nat
    BY <2>1, WithoutHeld DEF Accounted
  <2> QED BY <2>2 DEF Accounted, BytesAccounted
<1>2. /\ claimed' \in [Ids -> Entry \cup {None}]
      /\ \A j \in Ids \ {i} : claimed'[j] = claimed[j]
      /\ Held(claimed[i]) \in Nat /\ Held(claimed'[i]) \in Nat
      /\ totalBytes' = totalBytes - Held(claimed[i]) + Held(claimed'[i])
      /\ totalBytes' <= MaxTotalBytes
  <2> DEFINE e == claimed[i]
             n == IF e.native = None THEN 0 ELSE e.native + PacketBytes
  <2>1. e.bytes \in Nat /\ e \in Entry /\ (e.native = None \/ e.native \in Nat)
    BY <1>0 DEF Entry
  <2>2. claimed' = [claimed EXCEPT ![i] = [e EXCEPT !.native = n]]
    BY <1>0 DEF AttachNativeRead, ClaimNativeReadOperation
  <2>3. n \in Nat /\ n # None
    BY <1>0, <2>1, RegistryConstants
  <2>4. IF e.native = None THEN totalBytes' = totalBytes
        ELSE totalBytes' = totalBytes + PacketBytes /\ totalBytes + PacketBytes <= MaxTotalBytes
    BY DEF AttachNativeRead, ClaimNativeReadOperation
  <2>5. Held(e) = e.bytes + (IF e.native = None THEN 0 ELSE e.native)
    BY <1>0 DEF Held
  <2>6. /\ e = claimed[i]
        /\ (n = 0 /\ e.native = None) \/ (n = e.native + PacketBytes /\ e.native # None)
    OBVIOUS
  <2> HIDE DEF e, n
  <2>7. [e EXCEPT !.native = n] \in Entry /\ [e EXCEPT !.native = n].bytes = e.bytes
        /\ [e EXCEPT !.native = n].native = n
    BY <2>1, <2>3 DEF Entry
  <2>8. [e EXCEPT !.native = n] # None
    BY <2>7, RegistryConstants DEF Entry
  <2>9. Held([e EXCEPT !.native = n]) = e.bytes + n
    BY <2>3, <2>7, <2>8 DEF Held
  <2>10. /\ claimed'[i] = [e EXCEPT !.native = n]
         /\ \A j \in Ids \ {i} : claimed'[j] = claimed[j]
         /\ claimed' \in [Ids -> Entry \cup {None}]
    BY <1>0, <2>2, <2>7
  <2>11. Held(claimed'[i]) = e.bytes + n
    BY <2>9, <2>10
  <2>12. /\ Held(e) \in Nat /\ e.bytes + n \in Nat
         /\ totalBytes' = totalBytes - Held(e) + (e.bytes + n)
         /\ totalBytes' <= MaxTotalBytes
    <3>1. CASE e.native = None
      BY <1>0, <1>1, <2>1, <2>4, <2>5, <2>6, <3>1
    <3>2. CASE e.native # None
      BY <1>0, <1>1, <2>1, <2>4, <2>5, <2>6, <3>2
    <3> QED BY <3>1, <3>2
  <2> QED BY <2>6, <2>10, <2>11, <2>12
<1>3. /\ IsFiniteSet(Units(Load(claimed'), Ids))
      /\ HeldBy(claimed', Ids) = HeldBy(claimed, Ids) - Held(claimed[i]) + Held(claimed'[i])
      /\ HeldBy(claimed', Ids) \in Nat /\ HeldBy(claimed, Ids) \in Nat
  BY <1>0, <1>2, ChangeHeld DEF Accounted
<1>4. totalBytes' = HeldBy(entries', Ids) + HeldBy(claimed', Ids)
  BY <1>0, <1>1, <1>2, <1>3 DEF Accounted, BytesAccounted
<1> QED BY <1>0, <1>2, <1>3, <1>4 DEF Accounted, BytesAccounted

LEMMA InitAccounted == Init => Accounted
<1> SUFFICES ASSUME Init PROVE Accounted
  OBVIOUS
<1> DEFINE v == Load([i \in Ids |-> None])
<1>1. \A i \in Ids : v[i] = 0
  BY DEF Load, Held
<1>2. v = Load(entries) /\ v = Load(claimed) /\ totalBytes = 0
  BY DEF Init
<1> HIDE DEF v
<1>3. Units(v, Ids) = Units(v, {}) /\ Total(v, Ids) = Total(v, {})
  BY <1>1, TotalOfSized
<1>4. IsFiniteSet(Units(v, Ids)) /\ Total(v, Ids) = 0
  BY <1>3, TotalNone
<1>5. HeldBy(entries, Ids) = 0 /\ HeldBy(claimed, Ids) = 0
  BY <1>2, <1>4, HeldByLoad
<1>6. 0 <= MaxTotalBytes
  BY RegistryConstants
<1> QED BY <1>2, <1>4, <1>5, <1>6 DEF Accounted, BytesAccounted

LEMMA NextAccounted == IInv /\ Accounted /\ [Next]_vars => Accounted'
<1> SUFFICES ASSUME IInv, Accounted, [Next]_vars PROVE Accounted'
  OBVIOUS
<1>1. ASSUME NEW i \in Ids, NEW receipt \in BOOLEAN, Settle(i, receipt) PROVE Accounted'
  <2>1. Drop({}, {i}) /\ {} \in SUBSET Ids /\ {i} \in SUBSET Ids
    BY <1>1 DEF Settle
  <2> QED BY <2>1, DropAccounted
<1>2. CASE Expire
  BY <1>2, DropAccounted DEF Expire
<1>3. ASSUME NEW r \in Runs, RevokeRun(r) PROVE Accounted'
  BY <1>3, DropAccounted DEF RevokeRun, OfRun
<1>4. CASE Dispose
  BY <1>4, DropAccounted DEF Dispose
<1>5. CASE UNCHANGED <<entries, claimed, totalBytes>>
  BY <1>5 DEF Accounted, BytesAccounted
<1> QED BY <1>1, <1>2, <1>3, <1>4, <1>5, StageAccounted, TakeAccounted, NativeReadAccounted
        DEF Next, vars, Tick

(* stage, take, claimNativeReadOperation and every drop: the aggregate     *)
(* counter is what is staged and taken, packets included, and stays within *)
(* its limit.                                                              *)
THEOREM BytesAccountedTheorem == Spec => []BytesAccounted
<1>1. Accounted => BytesAccounted
  BY DEF Accounted
<1> QED BY <1>1, InitAccounted, NextAccounted, InductiveInvariant, PTL DEF Spec
=============================================================================
