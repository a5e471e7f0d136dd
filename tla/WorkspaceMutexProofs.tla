------------------------- MODULE WorkspaceMutexProofs -------------------------
(***************************************************************************)
(* Machine-checked proofs about WorkspaceMutex, for every set of calls and *)
(* keys.  The inductive invariant is IInv: along the chain of one key the  *)
(* live calls are totally ordered by arrival, each holds the gate of a     *)
(* live later-or-equal predecessor of every earlier live call, and the     *)
(* tail is the last of them.                                               *)
(***************************************************************************)
EXTENDS WorkspaceMutex, TLAPS

(* The empty registry satisfies the inductive invariant.                   *)
LEMMA InitIInv == Init => IInv
  BY DEF Init, IInv, TypeOK, Status, ChainInv, TailInv, TailOwned, TicketInv,
         RunInv, Live, Queued

(* Each of the three steps keeps every variable in its type.               *)
LEMMA NextTypeOK == TypeOK /\ [Next]_vars => TypeOK'
<1> SUFFICES ASSUME TypeOK, [Next]_vars PROVE TypeOK'
  OBVIOUS
<1>1. ASSUME NEW c \in Calls, NEW ks \in SUBSET Keys, RunExclusive(c, ks)
      PROVE  TypeOK'
  BY <1>1 DEF TypeOK, Status, RunExclusive, Predecessors, InstallGate
<1>2. ASSUME NEW c \in Calls, Enter(c) PROVE TypeOK'
  BY <1>2 DEF TypeOK, Status, Enter
<1>3. ASSUME NEW c \in Calls, Release(c) PROVE TypeOK'
  BY <1>3 DEF TypeOK, Status, Release, DrainOwnTails
<1>4. CASE UNCHANGED vars
  BY <1>4 DEF TypeOK, vars
<1> QED BY <1>1, <1>2, <1>3, <1>4 DEF Next

(* A new call takes the youngest ticket and the last place of every chain. *)
LEMMA RunExclusiveIInv ==
  ASSUME IInv, TypeOK', NEW c \in Calls, NEW ks \in SUBSET Keys, RunExclusive(c, ks)
  PROVE  IInv'
<1> USE NoneIsNoCall
<1>1. /\ status[c] = "idle"
      /\ status' = [status EXCEPT ![c] = "waiting"]
      /\ keysOf' = [keysOf EXCEPT ![c] = ks]
      /\ preds'  = [preds EXCEPT ![c] = {tails[k] : k \in ks} \ {None}]
      /\ tails'  = [k \in Keys |-> IF k \in ks THEN c ELSE tails[k]]
      /\ ticket' = [ticket EXCEPT ![c] = clock]
      /\ clock'  = clock + 1
  BY DEF RunExclusive, Predecessors, InstallGate
<1>2. TypeOK /\ TicketInv /\ TailOwned /\ TailInv /\ ChainInv /\ RunInv
  BY DEF IInv
<1>3. TicketInv'
  BY <1>1, <1>2 DEF TypeOK, TicketInv, Status
<1>4. TailOwned'
  BY <1>1, <1>2 DEF TypeOK, TailOwned, Live, Status
<1>5. TailInv'
  BY <1>1, <1>2 DEF TypeOK, TailInv, TicketInv, Live, Status
<1>6. RunInv'
  BY <1>1, <1>2 DEF TypeOK, RunInv, Status
<1>7. ChainInv'
  <2> SUFFICES ASSUME NEW k \in Keys, NEW a \in Calls, NEW d \in Calls,
                      Live(a)', Live(d)', k \in keysOf'[a], k \in keysOf'[d],
                      ticket'[a] < ticket'[d]
               PROVE  Queued(a, d, k)'
    BY DEF ChainInv
  <2>1. a # c
    BY <1>1, <1>2 DEF TypeOK, TicketInv, Live, Status
  <2>2. Live(a) /\ k \in keysOf[a] /\ ticket'[a] = ticket[a]
    BY <2>1, <1>1, <1>2 DEF TypeOK, Live
  <2>3. CASE d = c
    <3>1. /\ tails[k] # None /\ tails[k] \in Calls
          /\ Live(tails[k]) /\ k \in keysOf[tails[k]]
          /\ ticket[a] <= ticket[tails[k]]
      BY <2>2, <1>2 DEF TypeOK, TailInv
    <3>2. tails[k] \in preds'[d] /\ tails[k] # c
      BY <3>1, <2>3, <1>1, <1>2 DEF TypeOK, Live
    <3>3. Live(tails[k])' /\ k \in keysOf'[tails[k]] /\ ticket'[a] <= ticket'[tails[k]]
      BY <3>1, <3>2, <2>2, <1>1, <1>2 DEF TypeOK, Live
    <3> DEFINE p == tails[k]
    <3>4. /\ p \in preds'[d] /\ status'[p] \in {"waiting", "running"}
          /\ k \in keysOf'[p] /\ ticket'[a] <= ticket'[p]
      BY <3>1, <3>2, <2>3, <2>2, <1>1, <1>2 DEF TypeOK, Live
    <3> HIDE DEF p
    <3> QED BY <3>4 DEF Queued, Live
  <2>4. CASE d # c
    <3>1. Queued(a, d, k)
      BY <2>2, <2>4, <1>1, <1>2 DEF TypeOK, ChainInv, Live
    <3>2. PICK p \in preds[d] : Live(p) /\ k \in keysOf[p] /\ ticket[a] <= ticket[p]
      BY <3>1 DEF Queued
    <3>3. p \in Calls /\ p # c /\ p \in preds'[d]
      BY <3>2, <2>4, <1>1, <1>2 DEF TypeOK, Live
    <3> QED BY <3>2, <3>3, <2>2, <1>1, <1>2 DEF TypeOK, Queued, Live
  <2> QED BY <2>3, <2>4
<1> QED BY <1>2, <1>3, <1>4, <1>5, <1>6, <1>7 DEF IInv

(* Starting fn changes neither the chains nor who is live.                 *)
LEMMA EnterIInv ==
  ASSUME IInv, TypeOK', NEW c \in Calls, Enter(c)
  PROVE  IInv'
<1>1. TypeOK /\ TicketInv /\ TailOwned /\ TailInv /\ ChainInv /\ RunInv
  BY DEF IInv
<1>2. \A x \in Calls : Live(x)' <=> Live(x)
  BY <1>1 DEF TypeOK, Enter, Live
<1>3. UNCHANGED <<keysOf, preds, tails, ticket, clock>>
  BY DEF Enter
<1>4. TicketInv'
  BY <1>1, <1>3 DEF TypeOK, TicketInv, Enter
<1>5. TailOwned'
  BY <1>1, <1>3 DEF TypeOK, TailOwned, Live, Enter
<1>6. TailInv'
  BY <1>1, <1>3 DEF TypeOK, TailInv, Live, Enter
<1>7. RunInv'
  BY <1>1 DEF TypeOK, RunInv, Enter
<1>8. ChainInv'
  BY <1>1, <1>3 DEF TypeOK, ChainInv, Queued, Live, Enter
<1> QED BY <1>1, <1>4, <1>5, <1>6, <1>7, <1>8 DEF IInv

(* A releasing call is the earliest live call on each of its keys, so no   *)
(* other live call of the chain stands behind it through this gate alone.  *)
LEMMA ReleaseIInv ==
  ASSUME IInv, TypeOK', NEW c \in Calls, Release(c)
  PROVE  IInv'
<1> USE NoneIsNoCall
<1>1. TypeOK /\ TicketInv /\ TailOwned /\ TailInv /\ ChainInv /\ RunInv
  BY DEF IInv
<1>2. /\ status[c] = "running"
      /\ status' = [status EXCEPT ![c] = "released"]
      /\ tails'  = [k \in Keys |->
                      IF k \in keysOf[c] /\ tails[k] = c THEN None ELSE tails[k]]
      /\ UNCHANGED <<keysOf, preds, ticket, clock>>
  BY DEF Release, DrainOwnTails
<1>3. \A x \in Calls : Live(x)' <=> (Live(x) /\ x # c)
  BY <1>1, <1>2 DEF TypeOK, Live
<1>4. \A k \in Keys, x \in Calls :
        Live(x) /\ k \in keysOf[x] /\ k \in keysOf[c] => ticket[c] <= ticket[x]
  <2> SUFFICES ASSUME NEW k \in Keys, NEW x \in Calls,
                      Live(x), k \in keysOf[x], k \in keysOf[c],
                      ~(ticket[c] <= ticket[x])
               PROVE  FALSE
    OBVIOUS
  <2>1. ticket[x] < ticket[c]
    BY <1>1 DEF TypeOK
  <2>2. Queued(x, c, k)
    BY <2>1, <1>1, <1>2 DEF ChainInv, Live
  <2> QED BY <2>2, <1>1, <1>2 DEF TypeOK, Queued, RunInv, Live
<1>5. TicketInv'
  BY <1>1, <1>2 DEF TypeOK, TicketInv
<1>6. TailOwned'
  BY <1>1, <1>2 DEF TypeOK, TailOwned, Live
<1>7. TailInv'
  <2> SUFFICES ASSUME NEW k \in Keys, NEW x \in Calls, Live(x)', k \in keysOf'[x]
               PROVE  /\ tails'[k] # None
                      /\ Live(tails[k])'
                      /\ k \in keysOf'[tails'[k]]
                      /\ ticket'[x] <= ticket'[tails'[k]]
    BY DEF TailInv, Live
  <2>1. Live(x) /\ x # c /\ k \in keysOf[x]
    BY <1>2, <1>3
  <2>2. /\ tails[k] \in Calls /\ Live(tails[k]) /\ k \in keysOf[tails[k]]
        /\ ticket[x] <= ticket[tails[k]]
    BY <2>1, <1>1 DEF TypeOK, TailInv
  <2>3. tails[k] # c
    BY <2>1, <2>2, <1>1, <1>2, <1>4 DEF TypeOK, TicketInv, Live
  <2> QED BY <2>2, <2>3, <1>1, <1>2 DEF TypeOK, Live
<1>8. RunInv'
  BY <1>1, <1>2 DEF TypeOK, RunInv
<1>9. ChainInv'
  <2> SUFFICES ASSUME NEW k \in Keys, NEW a \in Calls, NEW d \in Calls,
                      Live(a)', Live(d)', k \in keysOf'[a], k \in keysOf'[d],
                      ticket'[a] < ticket'[d]
               PROVE  Queued(a, d, k)'
    BY DEF ChainInv
  <2>1. /\ Live(a) /\ a # c /\ Live(d) /\ d # c
        /\ k \in keysOf[a] /\ k \in keysOf[d] /\ ticket[a] < ticket[d]
    BY <1>2, <1>3
  <2>2. PICK p \in preds[d] : Live(p) /\ k \in keysOf[p] /\ ticket[a] <= ticket[p]
    BY <2>1, <1>1 DEF ChainInv, Queued
  <2>3. p \in Calls /\ p # c
    BY <2>1, <2>2, <1>1, <1>2, <1>4 DEF TypeOK, TicketInv, Live
  <2> QED BY <2>2, <2>3, <1>1, <1>2 DEF TypeOK, Queued, Live
<1> QED BY <1>1, <1>5, <1>6, <1>7, <1>8, <1>9 DEF IInv

(* IInv is an invariant of the mutex.                                      *)
THEOREM Inductive == Spec => []IInv
<1>1. Init => IInv
  BY InitIInv
<1>2. IInv /\ [Next]_vars => IInv'
  <2> SUFFICES ASSUME IInv, [Next]_vars PROVE IInv'
    OBVIOUS
  <2>1. TypeOK'
    BY NextTypeOK DEF IInv
  <2>2. CASE UNCHANGED vars
    BY <2>2 DEF vars, IInv, TypeOK, ChainInv, TailInv, TailOwned, TicketInv,
                RunInv, Live, Queued
  <2>3. CASE Next
    BY <2>1, <2>3, RunExclusiveIInv, EnterIInv, ReleaseIInv DEF Next
  <2> QED BY <2>2, <2>3
<1> QED BY <1>1, <1>2, PTL DEF Spec

(* Type correctness of the registry.                                       *)
THEOREM TypeCorrect == Spec => []TypeOK
<1>1. IInv => TypeOK
  BY DEF IInv
<1> QED BY <1>1, Inductive, PTL

(* No two critical sections that share a key overlap: a running call's     *)
(* captured predecessors are all released, and an earlier running call on  *)
(* the key would have a live one among them.                               *)
THEOREM Exclusive == Spec => []MutualExclusion
<1>1. IInv => MutualExclusion
  <2> SUFFICES ASSUME IInv, NEW c \in Calls, NEW d \in Calls, c # d,
                      status[c] = "running", status[d] = "running",
                      NEW k \in keysOf[c] \cap keysOf[d]
               PROVE  FALSE
    BY DEF MutualExclusion
  <2>1. ticket[c] < ticket[d] \/ ticket[d] < ticket[c]
    BY DEF IInv, TypeOK, TicketInv
  <2>2. Queued(c, d, k) \/ Queued(d, c, k)
    BY <2>1 DEF IInv, TypeOK, ChainInv, Live
  <2> QED BY <2>2 DEF IInv, TypeOK, Queued, RunInv, Live
<1> QED BY <1>1, Inductive, PTL

(* Overlapping flows enter in arrival order, whichever keys they share.    *)
THEOREM ArrivalOrder == Spec => []FirstComeFirstServed
<1>1. IInv => FirstComeFirstServed
  <2> SUFFICES ASSUME IInv, NEW c \in Calls, NEW d \in Calls,
                      status[d] = "running", Live(c),
                      NEW k \in keysOf[c] \cap keysOf[d],
                      ~(ticket[d] <= ticket[c])
               PROVE  FALSE
    BY DEF FirstComeFirstServed
  <2>1. ticket[c] < ticket[d]
    BY DEF IInv, TypeOK
  <2>2. Queued(c, d, k)
    BY <2>1 DEF IInv, TypeOK, ChainInv, Live
  <2> QED BY <2>2 DEF IInv, TypeOK, Queued, RunInv, Live
<1> QED BY <1>1, Inductive, PTL

(* The tails map holds exactly the keys with a live call: it neither leaks *)
(* an entry nor forgets a queue.                                           *)
THEOREM NoLeakedTail == Spec => []TailsTrackLiveKeys
<1>1. IInv => TailsTrackLiveKeys
  BY NoneIsNoCall DEF IInv, TypeOK, TailsTrackLiveKeys, TailInv, TailOwned, Live
<1> QED BY <1>1, Inductive, PTL

--------------------------------------------------------------------------
(* The mutex implements KeyedLock.                                         *)

(* Whose captured predecessors are released has no live earlier arrival on *)
(* any of its keys: otherwise one of them would still be live.             *)
LEMMA NobodyAhead ==
  ASSUME IInv, NEW d \in Calls, Live(d), \A p \in preds[d] : status[p] = "released"
  PROVE  Ahead[d] = {}
<1> SUFFICES ASSUME NEW c \in Calls, Live(c), ticket[c] < ticket[d],
                    NEW k \in keysOf[c] \cap keysOf[d]
             PROVE  FALSE
  BY DEF Ahead
<1>1. k \in Keys
  BY DEF IInv, TypeOK
<1>2. Queued(c, d, k)
  BY <1>1 DEF IInv, ChainInv
<1> QED BY <1>2 DEF Queued, Live

(* A new call is behind the live calls it shares a key with.               *)
LEMMA ArriveRefines ==
  ASSUME IInv, NEW c \in Calls, NEW ks \in SUBSET Keys, RunExclusive(c, ks)
  PROVE  Lock!Arrive(c, ks)
<1>1. /\ status \in [Calls -> Status] /\ keysOf \in [Calls -> SUBSET Keys]
      /\ ticket \in [Calls -> Nat] /\ clock \in Nat
      /\ \A d \in Calls : Live(d) => ticket[d] < clock
  BY DEF IInv, TypeOK, TicketInv, Live
<1>2. /\ status[c] = "idle" /\ status' = [status EXCEPT ![c] = "waiting"]
      /\ keysOf' = [keysOf EXCEPT ![c] = ks] /\ ticket' = [ticket EXCEPT ![c] = clock]
  BY DEF RunExclusive
<1>3. /\ Live(c)' /\ ~Live(c) /\ keysOf'[c] = ks /\ ticket'[c] = clock
      /\ \A d \in Calls \ {c} : /\ Live(d)' <=> Live(d)
                                /\ keysOf'[d] = keysOf[d] /\ ticket'[d] = ticket[d]
  BY <1>1, <1>2 DEF Live
<1>4. ASSUME NEW d \in Calls
      PROVE  Ahead'[d] = [Ahead EXCEPT ![c] = {e \in Lock!Present : keysOf[e] \cap ks # {}}][d]
  <2>1. Ahead'[d] = {e \in Calls : /\ Live(e)' /\ Live(d)' /\ ticket'[e] < ticket'[d]
                                   /\ keysOf'[e] \cap keysOf'[d] # {}}
    BY DEF Ahead
  <2>2. CASE d = c
    <3>1. \A e \in Calls : Live(e)' /\ ticket'[e] < clock <=> Live(e)
      BY <1>1, <1>3
    <3>2. Ahead'[c] = {e \in Lock!Present : keysOf[e] \cap ks # {}}
      BY <1>3, <2>1, <2>2, <3>1 DEF Lock!Present, Live
    <3> QED BY <2>2, <3>2 DEF Ahead
  <2>3. CASE d # c
    <3>1. ~(Live(d)' /\ ticket'[c] < ticket'[d])
      BY <1>1, <1>3, <2>3
    <3>2. Ahead'[d] = Ahead[d]
      BY <1>3, <2>1, <2>3, <3>1 DEF Ahead
    <3> QED BY <2>3, <3>2 DEF Ahead
  <2> QED BY <2>2, <2>3
<1>5. Ahead' = [Ahead EXCEPT ![c] = {e \in Lock!Present : keysOf[e] \cap ks # {}}]
  BY <1>4 DEF Ahead
<1> QED BY <1>2, <1>5 DEF Lock!Arrive

LEMMA GrantRefines ==
  ASSUME IInv, NEW c \in Calls, Enter(c)
  PROVE  Lock!Grant(c)
<1>1. /\ status[c] = "waiting" /\ status' = [status EXCEPT ![c] = "running"]
      /\ UNCHANGED <<keysOf, ticket>> /\ \A p \in preds[c] : status[p] = "released"
  BY DEF Enter
<1>2. Ahead[c] = {}
  BY <1>1, NobodyAhead DEF Live
<1>3. \A d \in Calls : Live(d)' <=> Live(d)
  BY <1>1 DEF Live, IInv, TypeOK
<1>4. Ahead' = Ahead
  BY <1>1, <1>3 DEF Ahead
<1> QED BY <1>1, <1>2, <1>4 DEF Lock!Grant

LEMMA LeaveRefines ==
  ASSUME IInv, NEW c \in Calls, Release(c)
  PROVE  Lock!Leave(c)
<1>1. /\ status[c] = "running" /\ status' = [status EXCEPT ![c] = "released"]
      /\ UNCHANGED <<keysOf, ticket>>
  BY DEF Release
<1>2. Ahead[c] = {}
  BY <1>1, NobodyAhead DEF Live, IInv, RunInv
<1>3. \A d \in Calls : Live(d)' <=> (Live(d) /\ d # c)
  BY <1>1 DEF Live, IInv, TypeOK
<1>4. ASSUME NEW d \in Calls PROVE Ahead'[d] = Ahead[d] \ {c}
  <2>1. Ahead'[d] = {e \in Calls : /\ Live(e)' /\ Live(d)' /\ ticket[e] < ticket[d]
                                   /\ keysOf[e] \cap keysOf[d] # {}}
    BY <1>1 DEF Ahead
  <2> QED BY <1>2, <1>3, <2>1 DEF Ahead
<1>5. Ahead' = [d \in Calls |-> Ahead[d] \ {c}]
  BY <1>4 DEF Ahead
<1> QED BY <1>1, <1>5 DEF Lock!Leave

LEMMA StepRefines == IInv /\ [Next]_vars => [Lock!Next]_<<status, keysOf, Ahead>>
<1> SUFFICES ASSUME IInv, [Next]_vars PROVE [Lock!Next]_<<status, keysOf, Ahead>>
  OBVIOUS
<1>1. CASE UNCHANGED vars
  BY <1>1 DEF vars, Ahead, Live
<1>2. CASE Next
  BY <1>2, ArriveRefines, GrantRefines, LeaveRefines DEF Next, Lock!Next
<1> QED BY <1>1, <1>2

(* runExclusive keeps what KeyedLock promises, for any number of flows and *)
(* keys: a flow waits for the earlier flows that share a key with it, and  *)
(* enters only when all of them have left.                                 *)
THEOREM Refinement == Spec => LockPromise
<1>1. Init => Lock!Init
  BY DEF Init, Lock!Init, Ahead, Live
<1> QED BY <1>1, StepRefines, Inductive, PTL DEF Spec, LockPromise, Lock!Spec
=============================================================================
