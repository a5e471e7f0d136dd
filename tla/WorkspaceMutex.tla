---------------------------- MODULE WorkspaceMutex ----------------------------
(***************************************************************************)
(* The in-process keyed mutex every task-workspace mutation runs under     *)
(* (packages/keiko-server/src/task-workspace/mutex.ts).                    *)
(*                                                                         *)
(* runExclusive(keys, fn) captures, in one synchronous step, the tail      *)
(* promise of every requested key and installs its own gate as the new     *)
(* tail; it then awaits the captured predecessors, runs fn, and in a       *)
(* finally block resolves its gate and deletes the tails that are still    *)
(* its own.  A call is identified with its gate promise: the code makes a  *)
(* fresh one per call, so an element of Calls is used once.                *)
(***************************************************************************)
EXTENDS Naturals

CONSTANTS
    Calls,   \* the runExclusive calls (each owns one gate promise)
    Keys,    \* the key strings: active:, ws:, repo:, prov:, file: ...
    None     \* "no entry in the tails map"

ASSUME NoneIsNoCall == None \notin Calls

VARIABLES
    status,   \* status[c]: where the async body of call c is
    keysOf,   \* keysOf[c]: `ordered`, the key set captured by c
    preds,    \* preds[c]: the gates c awaits (`predecessors`)
    tails,    \* tails[k]: the tail gate of key k, or None
    ticket,   \* history: the arrival order of the calls
    clock     \* history: the next ticket

vars == <<status, keysOf, preds, tails, ticket, clock>>

Status == {"idle", "waiting", "running", "released"}

TypeOK ==
    /\ status \in [Calls -> Status]
    /\ keysOf \in [Calls -> SUBSET Keys]
    /\ preds  \in [Calls -> SUBSET Calls]
    /\ tails  \in [Keys -> Calls \cup {None}]
    /\ ticket \in [Calls -> Nat]
    /\ clock  \in Nat

Live(c) == status[c] \in {"waiting", "running"}
-----------------------------------------------------------------------------
Init ==
    /\ status = [c \in Calls |-> "idle"]
    /\ keysOf = [c \in Calls |-> {}]
    /\ preds  = [c \in Calls |-> {}]
    /\ tails  = [k \in Keys |-> None]
    /\ ticket = [c \in Calls |-> 0]
    /\ clock  = 0

\* Mutant: a key without a tail contributes an entry all the same.
PushUndefined(ks) == {tails[k] : k \in ks}

\* Mutant: only the tail of one requested key is awaited.
CaptureOneKey(ks) ==
    {tails[k] : k \in {q \in ks : q = CHOOSE r \in ks : TRUE}} \ {None}

(* What the capture loop reads: the current tail of every requested key,   *)
(* keys without a tail contributing nothing.                               *)
Predecessors(ks) == {tails[k] : k \in ks} \ {None}

\* Mutant: a key that already has a tail keeps it.
InstallIfAbsent(c, ks) ==
    [k \in Keys |-> IF k \in ks /\ tails[k] = None THEN c ELSE tails[k]]

(* tails.set(key, gate) for every requested key.                           *)
InstallGate(c, ks) == [k \in Keys |-> IF k \in ks THEN c ELSE tails[k]]

\* Mutant: the finally block drops the key's entry whoever owns it.
DrainAll(c) == [k \in Keys |-> IF k \in keysOf[c] THEN None ELSE tails[k]]

(* `if (tails.get(key) === gate) tails.delete(key)` for every held key.    *)
DrainOwnTails(c) ==
    [k \in Keys |-> IF k \in keysOf[c] /\ tails[k] = c THEN None ELSE tails[k]]

\* Mutant: the gate is installed before the tails are captured.
RunExclusiveInstallFirst(c, ks) ==
    /\ status[c] = "idle"
    /\ status' = [status EXCEPT ![c] = "waiting"]
    /\ keysOf' = [keysOf EXCEPT ![c] = ks]
    /\ preds'  = [preds EXCEPT ![c] = IF ks = {} THEN {} ELSE {c}]
    /\ tails'  = InstallGate(c, ks)
    /\ ticket' = [ticket EXCEPT ![c] = clock]
    /\ clock'  = clock + 1

(* The synchronous region of runExclusive: there is no await between the   *)
(* first tails.get and the last tails.set, so it is one step.              *)
RunExclusive(c, ks) ==
    /\ status[c] = "idle"
    /\ status' = [status EXCEPT ![c] = "waiting"]
    /\ keysOf' = [keysOf EXCEPT ![c] = ks]
    /\ preds'  = [preds EXCEPT ![c] = Predecessors(ks)]
    /\ tails'  = InstallGate(c, ks)
    /\ ticket' = [ticket EXCEPT ![c] = clock]
    /\ clock'  = clock + 1

(* `await Promise.all(predecessors)` resumes once every captured gate has  *)
(* been resolved; fn then has started.                                     *)
Enter(c) ==
    /\ status[c] = "waiting"
    /\ \A p \in preds[c] : status[p] = "released"
    /\ status' = [status EXCEPT ![c] = "running"]
    /\ UNCHANGED <<keysOf, preds, tails, ticket, clock>>

(* The finally block, reached whether fn returned or threw.                *)
Release(c) ==
    /\ status[c] = "running"
    /\ status' = [status EXCEPT ![c] = "released"]
    /\ tails'  = DrainOwnTails(c)
    /\ UNCHANGED <<keysOf, preds, ticket, clock>>

Next ==
    \E c \in Calls :
        \/ \E ks \in SUBSET Keys : RunExclusive(c, ks)
        \/ Enter(c)
        \/ Release(c)

(* A settled promise schedules its continuation (Enter), and every fn a    *)
(* service passes is bounded by the Git adapter's own timeouts (Release).  *)
Fairness == \A c \in Calls : WF_vars(Enter(c)) /\ WF_vars(Release(c))

Spec == Init /\ [][Next]_vars /\ Fairness
-----------------------------------------------------------------------------
(* Two flows that share a key are never inside their critical sections at  *)
(* the same time: the check-then-write of one is not interleaved with the  *)
(* other's.                                                                *)
MutualExclusion ==
    \A c, d \in Calls :
        /\ c # d
        /\ status[c] = "running"
        /\ status[d] = "running"
        => keysOf[c] \cap keysOf[d] = {}

(* Turn order: a flow that is inside its critical section has no live      *)
(* earlier arrival on any of its keys, however many keys either one took.  *)
FirstComeFirstServed ==
    \A c, d \in Calls :
        /\ status[d] = "running"
        /\ Live(c)
        /\ keysOf[c] \cap keysOf[d] # {}
        => ticket[d] <= ticket[c]

(* The tails map holds a key exactly while some flow holds it or queues on *)
(* it: a drained chain leaves no entry, a live chain never loses its tail. *)
TailsTrackLiveKeys ==
    \A k \in Keys : tails[k] # None <=> \E c \in Calls : Live(c) /\ k \in keysOf[c]

(* runExclusive and its finally block keep what KeyedLock promises: the    *)
(* chains of tails make a flow wait for every live flow that shares a key  *)
(* with it and came before, and let it in when they are gone.              *)
Ahead == [d \in Calls |-> {c \in Calls : /\ Live(c) /\ Live(d) /\ ticket[c] < ticket[d]
                                         /\ keysOf[c] \cap keysOf[d] # {}}]
Lock == INSTANCE KeyedLock WITH phase <- status, ahead <- Ahead
LockPromise == Lock!Spec

(* A queued flow gets its turn: overlapping multi-key requests never wait  *)
(* on each other in a cycle.                                               *)
EveryCallRuns == \A c \in Calls : status[c] = "waiting" ~> status[c] = "running"

(* The inductive strengthening: behind every live earlier arrival on a key *)
(* a call holds a live captured predecessor that is at least as late.      *)
Queued(c, d, k) ==
    \E p \in preds[d] :
        /\ Live(p)
        /\ k \in keysOf[p]
        /\ ticket[c] <= ticket[p]

ChainInv ==
    \A k \in Keys : \A c, d \in Calls :
        /\ Live(c) /\ Live(d)
        /\ k \in keysOf[c] /\ k \in keysOf[d]
        /\ ticket[c] < ticket[d]
        => Queued(c, d, k)

TailInv ==
    \A k \in Keys : \A c \in Calls :
        Live(c) /\ k \in keysOf[c] =>
            /\ tails[k] # None
            /\ Live(tails[k])
            /\ k \in keysOf[tails[k]]
            /\ ticket[c] <= ticket[tails[k]]

TailOwned ==
    \A k \in Keys : tails[k] # None =>
        Live(tails[k]) /\ k \in keysOf[tails[k]]

TicketInv ==
    /\ \A c \in Calls : status[c] # "idle" => ticket[c] < clock
    /\ \A c, d \in Calls :
        status[c] # "idle" /\ status[d] # "idle" /\ ticket[c] = ticket[d] => c = d

RunInv == \A c \in Calls : \A p \in preds[c] :
             status[c] = "running" => status[p] = "released"

IInv == TypeOK /\ ChainInv /\ TailInv /\ TailOwned /\ TicketInv /\ RunInv
=============================================================================
