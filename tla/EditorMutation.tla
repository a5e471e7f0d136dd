---------------------------- MODULE EditorMutation ----------------------------
(***************************************************************************)
(* The edit of a coding run, from its tool call to the tree: the edit port *)
(* (coding-runtime/codingToolReadEditPorts.ts), the run's lease            *)
(* coordinator (coding-runtime/codingRuntimeEditorMutationLease-           *)
(* Coordinator.ts), the editor action route (editor/agentRoutes.ts) and    *)
(* the queue of actions that wait for their review                         *)
(* (editor/agentSessionRegistry.ts).                                       *)
(*                                                                         *)
(* The edit port is cut at its awaits: the session it binds, the HTTP      *)
(* request it sends, the lease it waits for.  Everything else is one turn  *)
(* of the process.  So is a commit: claim, write and complete follow each  *)
(* other without an await, and a claimed lease is never seen from outside. *)
(*                                                                         *)
(* What the review's file checks, the mutation guard and the patch writer  *)
(* answer is not the coordinator's to know: each may go either way.        *)
(***************************************************************************)
EXTENDS Naturals, FiniteSets

CONSTANTS
    Edits,      \* the edits the model asks for
    None,       \* not settled, not answered
    RunOf,      \* RunOf[e]: the coding run of e; each run has a coordinator
    SessionOf,  \* SessionOf[e]: the editor session of e's workspace
    Reviewed,   \* the edits whose policy asks for a review in the editor
    MaxLeases   \* MAX_LIVE_LEASES, per coordinator

Runs == {RunOf[e] : e \in Edits}

ASSUME EditConstants ==
    Reviewed \subseteq Edits /\ MaxLeases \in Nat \ {0}
    /\ None \notin {"succeeded", "failed", "cancelled", "rejected", "completed", "refused"}

VARIABLES
    \* the edit port
    phase,       \* phase[e]: the await the call of e stands at
    answer,      \* answer[e]: what the call of e was answered, or None
    aborted,     \* edits in their call whose signal has fired
    \* the coordinators
    leases,      \* edits with a live lease record
    waiting,     \* edits with a waiter on their record
    settled,     \* settled[e]: the outcome promise of e, or None
    latest,      \* latest[r]: latestSucceeded
    idle,        \* idle[r]: the wait for idle of r, or its last verdict
    revoked,     \* revoked runs
    disposed,    \* runs whose coordinator is disposed
    stopped,     \* runs whose controller has been aborted
    \* the route and the queue
    requests,    \* edits whose HTTP request has not been handled
    replies,     \* replies[e]: the response on its way, or None
    queue,       \* runtime-owned actions that wait for their review
    \* history
    tree,        \* edits applied to the tree
    botched,     \* runs with a claimed mutation that failed
    misled       \* runs told idle-succeeded after one

portVars  == <<phase, answer, aborted>>
runVars   == <<revoked, disposed, stopped>>
routeVars == <<requests, replies, queue>>
vars == <<phase, answer, aborted, leases, waiting, settled, latest, idle, revoked, disposed,
          stopped, requests, replies, queue, tree, botched, misled>>

Phases   == {"new", "binding", "sent", "awaiting", "done"}
Outcomes == {"succeeded", "failed", "cancelled", "rejected"}
Verdicts == {"idle-succeeded", "idle-failed", "not-idle"}

InTool(r)   == {e \in Edits : RunOf[e] = r /\ phase[e] \in {"binding", "sent", "awaiting"}}
LeasesOf(r) == {e \in leases : RunOf[e] = r}
QueueOf(r)  == {e \in queue : RunOf[e] = r}

--------------------------------------------------------------------------
(* The coordinator.                                                        *)

IdleOutcomeRaw(value) == value
IdleOutcome(value) == IF value = "failed" THEN "idle-failed" ELSE "idle-succeeded"

(* A verdict for r, and whether it hides a claimed mutation that failed.   *)
Tell(r, verdict, failures) ==
    /\ idle' = [idle EXCEPT ![r] = verdict]
    /\ misled' = IF verdict = "idle-succeeded" /\ r \in failures THEN misled \cup {r} ELSE misled

(* Remove the records gone of run r: their waiters hear outcome, value is  *)
(* the new latestSucceeded, and settleIfIdle answers once none is left.    *)
ReleaseWithoutIdle(r, gone, outcome, value, failures) ==
    /\ leases' = leases \ gone
    /\ waiting' = waiting \ gone
    /\ settled' = [e \in Edits |-> IF e \in gone \cap waiting THEN outcome ELSE settled[e]]
    /\ latest' = [latest EXCEPT ![r] = value]
    /\ botched' = failures
    /\ UNCHANGED <<idle, misled>>
Release(r, gone, outcome, value, failures) ==
    /\ leases' = leases \ gone
    /\ waiting' = waiting \ gone
    /\ settled' = [e \in Edits |-> IF e \in gone \cap waiting THEN outcome ELSE settled[e]]
    /\ latest' = [latest EXCEPT ![r] = value]
    /\ botched' = failures
    /\ IF LeasesOf(r) \subseteq gone /\ idle[r] = "waiting"
       THEN Tell(r, IdleOutcome(value), failures)
       ELSE UNCHANGED <<idle, misled>>

KeepLeases == UNCHANGED <<leases, waiting, settled, latest, idle, botched, misled>>

(* completeRecord, for a record nobody claimed.                            *)
CompleteUnclaimed(e, completion) ==
    LET r == RunOf[e]
    IN IF e \notin leases
       THEN KeepLeases
       ELSE IF completion = "rejected"
            THEN Release(r, {e}, "rejected", latest[r], botched)
            ELSE Release(r, {e}, "failed", "failed", botched)

(* discardUnclaimedLease, the edit port's own discard.                     *)
Discard(e) ==
    IF e \in leases
    THEN Release(RunOf[e], {e}, "failed", latest[RunOf[e]], botched)
    ELSE KeepLeases

(* cancelUnclaimedMutation: the record goes, and with it every queued      *)
(* action of its run.                                                      *)
CancelWithoutWaiter(e) ==
    IF e \in leases
    THEN /\ leases' = leases \ {e}
         /\ queue' = queue \ QueueOf(RunOf[e])
         /\ UNCHANGED <<waiting, settled, latest, idle, botched, misled>>
    ELSE KeepLeases /\ UNCHANGED queue
CancelUnclaimed(e) ==
    IF e \in leases
    THEN /\ Release(RunOf[e], {e}, "cancelled", latest[RunOf[e]], botched)
         /\ queue' = queue \ QueueOf(RunOf[e])
    ELSE KeepLeases /\ UNCHANGED queue

(* The commit boundary of applyChangeset: claim the lease under its guard, *)
(* write the patch, complete the lease.  verdict is what came of it.       *)
CommitVerdicts == {"conflict", "guard-refused", "write-failed", "applied"}
CommitUnclaimed(e, verdict) ==
    LET r == RunOf[e]
    IN IF e \notin leases
       THEN KeepLeases /\ tree' = (IF verdict = "applied" THEN tree \cup {e} ELSE tree)
       ELSE IF verdict = "applied"
            THEN Release(r, {e}, "succeeded", "succeeded", botched) /\ tree' = tree \cup {e}
            ELSE Release(r, {e}, "failed", "failed", botched) /\ UNCHANGED tree
CommitCompletesFirst(e, verdict) ==
    LET r == RunOf[e]
    IN IF e \notin leases
       THEN KeepLeases /\ UNCHANGED tree
       ELSE IF verdict \in {"applied", "write-failed"}
            THEN /\ Release(r, {e}, "succeeded", "succeeded", botched)
                 /\ tree' = IF verdict = "applied" THEN tree \cup {e} ELSE tree
            ELSE Release(r, {e}, "failed", "failed", botched) /\ UNCHANGED tree
Commit(e, verdict) ==
    LET r == RunOf[e]
    IN IF e \notin leases
       THEN KeepLeases /\ UNCHANGED tree
       ELSE IF verdict = "applied"
            THEN Release(r, {e}, "succeeded", "succeeded", botched) /\ tree' = tree \cup {e}
            ELSE /\ Release(r, {e}, "failed", "failed",
                            IF verdict = "write-failed" THEN botched \cup {r} ELSE botched)
                 /\ UNCHANGED tree

(* End the leases of a run that is over: their waiters are cancelled, and  *)
(* so are the signals of its calls and, by its controller, a wait for idle. *)
EndRun(r, value) ==
    /\ stopped' = stopped \cup {r}
    /\ aborted' = aborted \cup InTool(r)
    /\ leases' = leases \ LeasesOf(r)
    /\ waiting' = waiting \ LeasesOf(r)
    /\ settled' = [e \in Edits |-> IF e \in LeasesOf(r) \cap waiting THEN "cancelled"
                                   ELSE settled[e]]
    /\ latest' = [latest EXCEPT ![r] = value]
    /\ idle' = [idle EXCEPT ![r] = IF @ = "waiting" THEN "not-idle" ELSE @]
    /\ UNCHANGED <<phase, answer, requests, replies, tree, botched, misled>>

(* revokeRuntime: abort the controller, revoke the invocations, then the   *)
(* leases, with the queued actions of the run.                             *)
RevokeRun(r) ==
    /\ r \notin revoked \cup disposed
    /\ revoked' = revoked \cup {r}
    /\ EndRun(r, "failed")
    /\ queue' = queue \ QueueOf(r)
    /\ UNCHANGED disposed

(* cleanupRun: abort the controller, dispose coordinator and invocations;  *)
(* the queue is left alone.                                                *)
Dispose(r) ==
    /\ r \notin disposed
    /\ disposed' = disposed \cup {r}
    /\ EndRun(r, latest[r])
    /\ UNCHANGED <<revoked, queue>>

(* waitForIdle, when a turn of the run ended well (terminalCompletion).    *)
WaitForIdle(r) ==
    /\ idle[r] # "waiting"
    /\ IF r \in disposed \cup stopped
       THEN Tell(r, "not-idle", botched)
       ELSE IF LeasesOf(r) = {}
            THEN Tell(r, IdleOutcome(latest[r]), botched)
            ELSE idle' = [idle EXCEPT ![r] = "waiting"] /\ UNCHANGED misled
    /\ UNCHANGED <<portVars, leases, waiting, settled, latest, runVars, routeVars, tree, botched>>

(* abortTurn: the controller of the run is aborted, its leases live on.    *)
AbortTurn(r) ==
    /\ r \notin stopped
    /\ stopped' = stopped \cup {r}
    /\ idle' = [idle EXCEPT ![r] = IF @ = "waiting" THEN "not-idle" ELSE @]
    /\ UNCHANGED <<portVars, leases, waiting, settled, latest, revoked, disposed, routeVars,
                   tree, botched, misled>>

--------------------------------------------------------------------------
(* The edit port.                                                          *)

Registrable(e) ==
    /\ RunOf[e] \notin disposed \cup revoked
    /\ Cardinality(LeasesOf(RunOf[e])) < MaxLeases

Answered(e, a) ==
    /\ phase' = [phase EXCEPT ![e] = "done"]
    /\ answer' = [answer EXCEPT ![e] = a]
    /\ aborted' = aborted \ {e}

(* prepareEdit refuses: cancelled, no access, or the lease is unavailable. *)
PrepareRefused(e) ==
    /\ phase[e] = "new"
    /\ Answered(e, "refused")
    /\ UNCHANGED <<leases, waiting, settled, latest, idle, runVars, routeVars, tree, botched,
                   misled>>

(* prepareEdit registers the lease of an edit that is to be reviewed.      *)
Prepare(e) ==
    /\ phase[e] = "new" /\ e \in Reviewed
    /\ Registrable(e)
    /\ leases' = leases \cup {e}
    /\ phase' = [phase EXCEPT ![e] = "binding"]
    /\ UNCHANGED <<answer, aborted, waiting, settled, latest, idle, runVars, routeVars,
                   tree, botched, misled>>

(* executeServerPreparedEdit: an edit without review is registered and     *)
(* committed in one turn; the outcome of its lease is awaited after.  An   *)
(* apply that is denied before the commit boundary leaves the lease to the *)
(* port's discard, and latestSucceeded as it was.                          *)
ServerEdit(e, verdict) ==
    LET r == RunOf[e]
    IN /\ phase[e] = "new" /\ e \notin Reviewed
       /\ Registrable(e)
       /\ phase' = [phase EXCEPT ![e] = "awaiting"]
       /\ settled' = [settled EXCEPT ![e] = IF verdict = "applied" THEN "succeeded" ELSE "failed"]
       /\ latest' = [latest EXCEPT ![r] = IF verdict = "denied" THEN @ ELSE settled'[e]]
       /\ tree' = IF verdict = "applied" THEN tree \cup {e} ELSE tree
       /\ botched' = IF verdict = "write-failed" THEN botched \cup {r} ELSE botched
       /\ UNCHANGED <<answer, aborted, leases, waiting, idle, runVars, routeVars, misled>>

(* bindPreparedEdit finds no session, or the access is gone.               *)
BindRefused(e) ==
    /\ phase[e] = "binding"
    /\ Discard(e)
    /\ Answered(e, "refused")
    /\ UNCHANGED <<runVars, routeVars, tree>>

(* A session is bound: the outcome of the lease is captured before the     *)
(* action is sent.  A lease that is gone meanwhile has failed.             *)
Dispatch(e) ==
    /\ phase[e] = "binding" /\ e \notin aborted
    /\ phase' = [phase EXCEPT ![e] = "sent"]
    /\ requests' = requests \cup {e}
    /\ IF e \in leases
       THEN waiting' = waiting \cup {e} /\ UNCHANGED settled
       ELSE settled' = [settled EXCEPT ![e] = "failed"] /\ UNCHANGED waiting
    /\ UNCHANGED <<answer, aborted, leases, latest, idle, runVars, replies, queue,
                   tree, botched, misled>>

(* The response is back: queued, or refused and the lease is discarded.    *)
ReplyQueued(e) ==
    /\ phase[e] = "sent" /\ replies[e] = "queued"
    /\ phase' = [phase EXCEPT ![e] = "awaiting"]
    /\ KeepLeases
    /\ UNCHANGED <<answer, aborted, runVars, routeVars, tree>>
ReplyRefused(e) ==
    /\ phase[e] = "sent" /\ replies[e] = "refused"
    /\ Discard(e)
    /\ Answered(e, "refused")
    /\ UNCHANGED <<runVars, routeVars, tree>>

(* The HTTP client gives up: its timeout, a broken transport, the signal.  *)
ClientFails(e) ==
    /\ phase[e] = "sent"
    /\ Discard(e)
    /\ Answered(e, "refused")
    /\ UNCHANGED <<runVars, routeVars, tree>>

(* completedEdit: the call is answered with the outcome of its own lease.  *)
Complete(e) ==
    /\ phase[e] = "awaiting" /\ settled[e] # None
    /\ Answered(e, IF settled[e] = "succeeded" THEN "completed" ELSE "refused")
    /\ KeepLeases
    /\ UNCHANGED <<runVars, routeVars, tree>>

(* The signal of the invocation fires: its life is over, or it is revoked. *)
(* A call aborted before it is prepared is one that prepareEdit refuses.   *)
Abort(e) ==
    /\ e \notin aborted /\ phase[e] \in {"binding", "sent", "awaiting"}
    /\ aborted' = aborted \cup {e}
    /\ IF e \in waiting THEN CancelUnclaimed(e) ELSE KeepLeases /\ UNCHANGED queue
    /\ UNCHANGED <<phase, answer, runVars, requests, replies, tree>>

--------------------------------------------------------------------------
(* The route and the queue.                                                *)

(* admitEditorAction and queueAction: refused without a live lease, by a   *)
(* file check, or while the session has a mutation in flight.              *)
AdmitAnyLease(e) ==
    /\ e \in requests
    /\ requests' = requests \ {e}
    /\ \/ /\ \A q \in queue : SessionOf[q] # SessionOf[e]
          /\ queue' = queue \cup {e}
          /\ replies' = [replies EXCEPT ![e] = "queued"]
       \/ /\ replies' = [replies EXCEPT ![e] = "refused"]
          /\ UNCHANGED queue
    /\ KeepLeases
    /\ UNCHANGED <<portVars, runVars, tree>>
Admit(e) ==
    /\ e \in requests
    /\ requests' = requests \ {e}
    /\ \/ /\ e \in leases
          /\ \A q \in queue : SessionOf[q] # SessionOf[e]
          /\ queue' = queue \cup {e}
          /\ replies' = [replies EXCEPT ![e] = "queued"]
       \/ /\ replies' = [replies EXCEPT ![e] = "refused"]
          /\ UNCHANGED queue
    /\ KeepLeases
    /\ UNCHANGED <<portVars, runVars, tree>>

(* The browser's result: takePendingAction is a one-use claim, then the    *)
(* change is committed, or its lease ends rejected or failed.              *)
ReviewApproves(e, verdict) ==
    /\ e \in queue
    /\ queue' = queue \ {e}
    /\ Commit(e, verdict)
    /\ UNCHANGED <<portVars, runVars, requests, replies>>
ReviewEnds(e, completion) ==
    /\ e \in queue
    /\ queue' = queue \ {e}
    /\ CompleteUnclaimed(e, completion)
    /\ UNCHANGED <<portVars, runVars, requests, replies, tree>>

(* The review timeout drops the action; the lease is not told.             *)
ReviewTimeout(e) ==
    /\ e \in queue
    /\ queue' = queue \ {e}
    /\ KeepLeases
    /\ UNCHANGED <<portVars, runVars, requests, replies, tree>>

--------------------------------------------------------------------------
Init ==
    /\ phase = [e \in Edits |-> "new"]
    /\ answer = [e \in Edits |-> None]
    /\ aborted = {} /\ leases = {} /\ waiting = {}
    /\ settled = [e \in Edits |-> None]
    /\ latest = [r \in Runs |-> "unset"]
    /\ idle = [r \in Runs |-> "none"]
    /\ revoked = {} /\ disposed = {} /\ stopped = {}
    /\ requests = {} /\ queue = {}
    /\ replies = [e \in Edits |-> None]
    /\ tree = {} /\ botched = {} /\ misled = {}

Next ==
    \/ \E e \in Edits :
        \/ PrepareRefused(e) \/ Prepare(e) \/ BindRefused(e) \/ Dispatch(e)
        \/ ReplyQueued(e) \/ ReplyRefused(e) \/ ClientFails(e) \/ Complete(e) \/ Abort(e)
        \/ Admit(e) \/ ReviewTimeout(e)
        \/ \E verdict \in CommitVerdicts \cup {"denied"} : ServerEdit(e, verdict)
        \/ \E verdict \in CommitVerdicts : ReviewApproves(e, verdict)
        \/ \E completion \in {"rejected", "failed"} : ReviewEnds(e, completion)
    \/ \E r \in Runs : RevokeRun(r) \/ Dispose(r) \/ WaitForIdle(r) \/ AbortTurn(r)

Spec == Init /\ [][Next]_vars

(* The retries of the session list end; the HTTP client has its timeout;   *)
(* a settled promise resumes; the life of an invocation ends by its timer. *)
(* No user has to review anything, and no run has to end.                  *)
Fairness ==
    \A e \in Edits :
        /\ WF_vars(BindRefused(e))
        /\ WF_vars(ReplyQueued(e) \/ ReplyRefused(e) \/ ClientFails(e))
        /\ WF_vars(Complete(e))
        /\ WF_vars(Abort(e))
FairSpec == Spec /\ Fairness

--------------------------------------------------------------------------
TypeOK ==
    /\ phase \in [Edits -> Phases]
    /\ answer \in [Edits -> {"completed", "refused", None}]
    /\ {aborted, leases, waiting, requests, queue, tree} \subseteq SUBSET Edits
    /\ settled \in [Edits -> Outcomes \cup {None}]
    /\ latest \in [Runs -> {"unset", "succeeded", "failed"}]
    /\ idle \in [Runs -> Verdicts \cup {"none", "waiting"}]
    /\ {revoked, disposed, stopped, botched, misled} \subseteq SUBSET Runs
    /\ replies \in [Edits -> {"queued", "refused", None}]

(* Nobody waits for something that is over: a waiter of a mutation has the *)
(* record that will settle it, and a wait for idle has a lease still out.  *)
NobodyWaitsInVain ==
    /\ waiting \subseteq leases
    /\ \A r \in Runs : idle[r] = "waiting" => LeasesOf(r) # {}

(* After the revocation of a run none of its edits can reach the tree: it  *)
(* holds no lease, and no action of it is queued, not even one whose       *)
(* request was on its way when the run was revoked.                        *)
RevokedRunIsQuiet == \A r \in revoked : LeasesOf(r) = {} /\ QueueOf(r) = {}

(* A waiter hears of its own edit, and the truth: "succeeded" is said of   *)
(* edits in the tree, any other outcome of edits that are not and can no   *)
(* longer get there.                                                       *)
OutcomeIsTheTree ==
    \A e \in Edits : settled[e] # None =>
        /\ e \notin leases
        /\ settled[e] = "succeeded" <=> e \in tree

(* Whatever the interleaving of response, review, abort, revocation and    *)
(* timeout, the edit port keeps the promise of GovernedEdit: at most once, *)
(* never after the answer, "completed" only when applied.                  *)
Promise == INSTANCE GovernedEdit WITH tree <- tree, answer <- answer
PromiseKept == Promise!Spec

(* Every call is answered, although the reviewer may never come, and a run *)
(* that waits for its mutations gets its verdict: behind every wait is a   *)
(* timer or a settlement.                                                  *)
EveryWaitEnds ==
    /\ \A e \in Edits : phase[e] # "new" ~> phase[e] = "done"
    /\ \A r \in Runs : idle[r] = "waiting" ~> idle[r] # "waiting"

(* The doc of the idle outcome: "idle-succeeded" says that none of the     *)
(* claimed mutations failed.                                               *)
IdleSucceededIsTrue == misled = {}

(* What makes the safety properties inductive: an edit holds a lease only  *)
(* between its registration and its outcome; before its action is sent it  *)
(* is nowhere else and has no outcome; and the answer is the last step.    *)
LeaseIsOpen ==
    \A e \in leases : phase[e] \in {"binding", "sent", "awaiting"} /\ e \notin tree
                       /\ settled[e] = None
UnsentIsUntouched ==
    \A e \in Edits : phase[e] \in {"new", "binding"} =>
        e \notin tree \cup waiting \cup requests \cup queue /\ settled[e] = None
AnswerIsLast == \A e \in Edits : answer[e] = None <=> phase[e] # "done"
IInv == /\ TypeOK /\ LeaseIsOpen /\ UnsentIsUntouched /\ AnswerIsLast
        /\ OutcomeIsTheTree /\ NobodyWaitsInVain /\ RevokedRunIsQuiet
=============================================================================
