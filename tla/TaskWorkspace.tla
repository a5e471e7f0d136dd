---------------------------- MODULE TaskWorkspace ----------------------------
(***************************************************************************)
(* The managed task workspaces of one repository                           *)
(* (packages/keiko-server/src/task-workspace): the durable instance rows   *)
(* with their advisory lock, the Git worktrees on disk, the singleton      *)
(* active pointer, and the flows of the five services that share the keyed *)
(* mutex: provisioning, lifecycle, reconciliation, repair and cleanup.     *)
(*                                                                         *)
(* A flow is cut at its awaits: everything between two awaits is one step, *)
(* because the server runs on one event loop.  The mutex is used through   *)
(* what WorkspaceMutex proves: a flow is inside a section only while no    *)
(* other flow holds one of its keys.  provision takes repo: and prov:, the *)
(* other mutating flows take ws:, the pointer flip takes active:.  Nothing *)
(* keeps a provision and a ws: flow of the same workspace apart.           *)
(*                                                                         *)
(* A gitdir identity is a number: 0 is "no worktree" on disk and the       *)
(* placeholder in a row; every worktree that comes to exist gets a fresh   *)
(* one.  Health, drift markers and hints are functions of the live facts   *)
(* wherever a decision uses them, so the rows leave them out.              *)
(***************************************************************************)
EXTENDS Naturals

CONSTANTS
    Workspaces,         \* workspace ids, one task each, of one repository
    Actors,             \* requesters: owners of advisory locks
    Flows,              \* requests in flight at the same time
    None,               \* no row, no lock, no pointer
    MaxIdentity         \* bound: worktrees minted per workspace

ASSUME BoundsOK == MaxIdentity \in Nat \ {0}

VARIABLES
    row,       \* row[w]: the persisted WorkspaceInstance, or None
    disk,      \* disk[w]: identity of the worktree at w's managed path, or 0
    minted,    \* minted[w]: identities handed out so far
    pointer,   \* the active pointer: a workspace or None
    flow       \* flow[f]: where the asynchronous flow f stands

vars == <<row, disk, minted, pointer, flow>>

States == {"provisioning", "active", "paused", "handoff-ready", "archived",
           "merged", "abandoned", "recovery-required", "failed", "cleanup-pending"}

Resumable       == {"active", "paused", "handoff-ready"}
Activatable     == Resumable \cup {"recovery-required"}
Completable     == {"provisioning", "failed", "recovery-required"}
Terminal        == {"merged", "archived", "abandoned", "cleanup-pending"}
CleanupEligible == {"archived", "merged", "abandoned", "failed", "cleanup-pending"}

(* TASK_WORKSPACE_LEGAL_TRANSITIONS.                                       *)
LegalTransitions ==
    [s \in States |->
        CASE s = "provisioning"      -> {"active", "recovery-required", "failed", "cleanup-pending"}
          [] s = "active"            -> {"paused", "handoff-ready", "recovery-required", "failed",
                                         "cleanup-pending"}
          [] s = "paused"            -> {"active", "handoff-ready", "archived", "abandoned",
                                         "recovery-required", "cleanup-pending"}
          [] s = "handoff-ready"     -> {"active", "merged", "archived", "abandoned",
                                         "recovery-required", "cleanup-pending"}
          [] s = "merged"            -> {"archived", "cleanup-pending"}
          [] s = "archived"          -> {"cleanup-pending"}
          [] s = "abandoned"         -> {"cleanup-pending"}
          [] s = "recovery-required" -> {"active", "paused", "failed", "abandoned",
                                         "cleanup-pending"}
          [] s = "failed"            -> {"recovery-required", "abandoned", "cleanup-pending"}
          [] s = "cleanup-pending"   -> {"archived", "abandoned", "recovery-required"}]

Legal(from, to) == to \in LegalTransitions[from]

Identities == 0 .. MaxIdentity
Reasons    == {"provisioning", "activation", "repair", "cleanup"}
Locks      == [owner : Actors, reason : Reasons, live : BOOLEAN]
Rows       == [state : States, lock : Locks \cup {None}, ident : Identities]

(* None is a value of its own: not a workspace, an actor, a lock or a row.  *)
ASSUME NoneIsNothing == None \notin Workspaces \cup Actors \cup Locks \cup Rows

ProvisionSteps == {"gate", "add", "added", "rollback", "fail"}
SectionSteps   == {"classify", "consult", "verdict", "prune", "reconsult", "recheck",
                   "safety", "probed", "removing", "removed", "kept", "leftover",
                   "surviving", "listing", "probe1", "probe2"}
FlowRecords    == [pc : {"idle", "flip"} \cup ProvisionSteps \cup SectionSteps,
                   ws : Workspaces \cup {None}, actor : Actors \cup {None},
                   snap : Rows \cup {None}, seen : Identities, alive : BOOLEAN,
                   created : BOOLEAN, nested : BOOLEAN]

TypeOK ==
    /\ row     \in [Workspaces -> Rows \cup {None}]
    /\ disk    \in [Workspaces -> Identities]
    /\ minted  \in [Workspaces -> Identities]
    /\ pointer \in Workspaces \cup {None}
    /\ flow    \in [Flows -> FlowRecords]
-----------------------------------------------------------------------------
(* Locks, proofs and the mutex.                                            *)

Lock(a, why) == [owner |-> a, reason |-> why, live |-> TRUE]

LockLive(l) == l # None /\ l.live
Foreign(r, a) == LockLive(r.lock) /\ r.lock.owner # a

Present(w)   == disk[w] # 0
Proven(w, r) == Present(w) /\ disk[w] = r.ident

Idle == [pc |-> "idle", ws |-> None, actor |-> None, snap |-> None,
         seen |-> 0, alive |-> FALSE, created |-> FALSE, nested |-> FALSE]

Flow(step, w, a, r) ==
    [Idle EXCEPT !.pc = step, !.ws = w, !.actor = a, !.snap = r]

(* gatherFacts: what is on disk when the facts are read.  alive is the     *)
(* lock's liveness at the clock reading the facts are computed from.       *)
Facts(fl, step) ==
    [fl EXCEPT !.pc = step, !.seen = disk[fl.ws]]

(* repo: and prov: are held from the gate of a provision to its end; one   *)
(* repository, so one provision at a time.                                 *)
RepoFree == \A g \in Flows : flow[g].pc \notin ProvisionSteps

HoldsWorkspace(g, w) ==
    flow[g].ws = w /\ (flow[g].pc \in SectionSteps \/ flow[g].nested)

Provisioning(g, w) ==
    flow[g].ws = w /\ flow[g].pc \in ProvisionSteps /\ ~flow[g].nested

\* Mutant: the flow does not take the workspace key (reconciliation before #3339).
NoWorkspaceKey(w) == TRUE

(* The ws: key is free.                                                    *)
WorkspaceFree(w) == \A g \in Flows : ~HoldsWorkspace(g, w)

(* The ws: key as the live reconcile pass takes it.                        *)
ReconcileKeyFree(w) == WorkspaceFree(w)

Write(w, r)   == row' = [row EXCEPT ![w] = r]
Step(f, rec)  == flow' = [flow EXCEPT ![f] = rec]
Drifted(r)    == [r EXCEPT !.state = "recovery-required", !.lock = None]
Unpoint(w)    == pointer' = IF pointer = w THEN None ELSE pointer
-----------------------------------------------------------------------------
(* Reconciliation: the pure classifier over the facts read with the row.   *)

LockedByOther(r, a) == LockLive(r.lock) /\ (a = None \/ r.lock.owner # a)

(* classifyWorkspaceReconciliation, in its order of precedence.            *)
Status(r, seen, a) ==
    IF LockedByOther(r, a) THEN "locked"
    ELSE IF r.state = "cleanup-pending" /\ seen \notin {0, r.ident} THEN "stale-pointer"
    ELSE IF r.state \in Terminal THEN "healthy"
    ELSE IF r.state \in {"provisioning", "failed"} THEN "partially-created"
    ELSE IF seen = 0 THEN "missing"
    ELSE IF seen # r.ident THEN "stale-pointer"
    ELSE IF r.state = "recovery-required" THEN "recovery-required"
    ELSE IF r.lock # None /\ ~r.lock.live THEN "drifted"
    ELSE "healthy"

(* reconciliationRequiresRecoveryFlag + resolveReconciledTargetState.      *)
TargetState(r, seen, a) ==
    LET status == Status(r, seen, a) IN
    IF \/ r.state = "cleanup-pending" /\ status = "stale-pointer"
       \/ r.state \in Resumable /\ status \in {"missing", "stale-pointer"}
    THEN "recovery-required" ELSE r.state

(* The row as the facts judge it: the lock live or stale by the clock      *)
(* reading taken for them, whatever has expired since.                     *)
AsJudged(fl) ==
    IF fl.snap.lock = None THEN fl.snap ELSE [fl.snap EXCEPT !.lock.live = fl.alive]

(* The row a classification persists: everything but the state is the row  *)
(* as it was read.                                                         *)
Reconciled(fl) ==
    [fl.snap EXCEPT !.state = TargetState(AsJudged(fl), fl.seen, fl.actor)]

(* The strategies the planned hints offer, for the modelled markers.       *)
StaleLock(r, a)    == r.lock # None /\ ~r.lock.live /\ ~LockedByOther(r, a)
Applicable(r, seen, a) ==
    LET status == Status(r, seen, a) IN
    {s \in {"recreate-worktree", "reconcile-pointer", "release-stale-lock", "abandon-and-cleanup"} :
        \/ s = "recreate-worktree" /\ seen = 0 /\ status \in {"missing", "partially-created"}
        \/ s = "reconcile-pointer" /\ status = "stale-pointer"
        \/ /\ s = "release-stale-lock" /\ StaleLock(r, a)
           /\ status \in {"missing", "stale-pointer", "partially-created", "recovery-required",
                          "drifted"}
        \/ s = "abandon-and-cleanup" /\ status # "healthy"}

Reconcile(f, w) ==
    /\ flow[f] = Idle
    /\ ReconcileKeyFree(w)
    /\ row[w] # None
    /\ Step(f, Facts([Flow("classify", w, None, row[w]) EXCEPT !.alive = LockLive(row[w].lock)],
                     "classify"))
    /\ UNCHANGED <<row, disk, minted, pointer>>

(* The facts are gathered (or could not be: the row is carried forward).   *)
ReconcileWithContext(f) ==
    LET fl == flow[f] IN
    /\ fl.pc = "classify"
    /\ \/ Write(fl.ws, Reconciled(fl))
       \/ UNCHANGED row
    /\ Step(f, Idle)
    /\ UNCHANGED <<disk, minted, pointer>>
-----------------------------------------------------------------------------
(* Provisioning.  A repair's nested provision (operatorApprovedRepair) runs *)
(* in the same flow; when it ends, the repair's finally block releases the *)
(* repair lock if the row still carries it.                                *)

\* Mutant: the finally block is missing.
KeepRepairLock(r, fl) == r

ReleaseRepairLock(r, fl) ==
    IF /\ fl.nested
       /\ r # None
       /\ r.lock # None
       /\ r.lock.owner = fl.actor
       /\ r.lock.reason = "repair"
    THEN [r EXCEPT !.lock = None] ELSE r

(* reuseExistingOrUndefined: what the row read at the start decides.       *)
ReuseDrifted(w, r, approved) ==
    /\ r # None
    /\ \/ r.state \in Resumable /\ ~Proven(w, r)
       \/ r.state \in Completable /\ ~approved /\ Present(w) /\ ~Proven(w, r)

ReuseAsIs(w, r) ==
    /\ r # None
    /\ \/ r.state \in Resumable /\ Proven(w, r)
       \/ r.state \notin Resumable \cup Completable

(* The section up to the first await: reuse, flag drift, or fall through   *)
(* to the gates with the row as read.  A refused or reused request ends    *)
(* the flow.                                                               *)
ProvisionLocked(f, fl) ==
    LET w == fl.ws
        r == row[w] IN
    \/ /\ ReuseDrifted(w, r, fl.nested)
       /\ Write(w, Drifted(r))
       /\ Step(f, Idle)
    \/ /\ fl.nested
       /\ ReuseAsIs(w, r) \/ (r # None /\ Foreign(r, fl.actor))
       /\ Write(w, ReleaseRepairLock(r, fl))
       /\ Step(f, Idle)
    \/ /\ ~ReuseDrifted(w, r, fl.nested) /\ ~ReuseAsIs(w, r)
       /\ r # None => ~Foreign(r, fl.actor)
       /\ Step(f, [fl EXCEPT !.pc = "gate", !.snap = r])
       /\ UNCHANGED row

Provision(f, w, a) ==
    /\ flow[f] = Idle
    /\ RepoFree
    /\ ProvisionLocked(f, Flow("gate", w, a, None))
    /\ UNCHANGED <<disk, minted, pointer>>

(* assertNoTargetOrBranchConflict: a target on disk must be this row's.    *)
TargetIsOurs(w, existing) == existing # None \/ ~Present(w)

(* freshInstance.                                                          *)
FreshInstance(existing, a) ==
    [state |-> "provisioning", lock |-> Lock(a, "provisioning"),
     ident |-> IF existing = None THEN 0 ELSE existing.ident]

(* assertProvisionable passed or refused (unresolved base branch, foreign  *)
(* target, branch conflict); a pass persists the provisioning row and      *)
(* decides whether a worktree has to be added (attemptedHere).             *)
AssertProvisionable(f) ==
    LET fl == flow[f]
        w  == fl.ws IN
    /\ fl.pc = "gate"
    /\ \/ /\ Write(w, ReleaseRepairLock(row[w], fl))
          /\ Step(f, Idle)
       \/ /\ TargetIsOurs(w, fl.snap)
          /\ Write(w, FreshInstance(fl.snap, fl.actor))
          /\ Step(f, [fl EXCEPT !.pc = IF Present(w) THEN "added" ELSE "add",
                                !.snap = FreshInstance(fl.snap, fl.actor),
                                !.created = ~Present(w)])
    /\ UNCHANGED <<disk, minted, pointer>>

(* git worktree add: done, failed leaving nothing, or failed halfway.      *)
MaterializeWorktree(f) ==
    LET fl == flow[f]
        w  == fl.ws IN
    /\ fl.pc = "add"
    /\ \/ /\ Step(f, [fl EXCEPT !.pc = "rollback"])
          /\ UNCHANGED <<disk, minted>>
       \/ /\ minted[w] < MaxIdentity
          /\ minted' = [minted EXCEPT ![w] = @ + 1]
          /\ disk' = [disk EXCEPT ![w] = minted[w] + 1]
          /\ \E next \in {"added", "rollback"} : Step(f, [fl EXCEPT !.pc = next])
    /\ UNCHANGED <<row, pointer>>

(* Between the end of the ws: section of a setActive and its pointer flip  *)
(* only promises resume, and active: sections do not await: no flip is     *)
(* pending any more when an answer of Git arrives.                         *)
FlipsDone == \A g \in Flows : flow[g].pc # "flip"

\* Mutant: the minted identity is not written to the row.
FinalizeOldIdentity(f) ==
    LET fl == flow[f]
        w  == fl.ws IN
    /\ fl.pc = "added"
    /\ FlipsDone
    /\ \/ /\ Present(w)
          /\ Write(w, [fl.snap EXCEPT !.state = "active", !.lock = None])
          /\ Step(f, Idle)
       \/ /\ Step(f, [fl EXCEPT !.pc = IF fl.created THEN "rollback" ELSE "fail"])
          /\ UNCHANGED row
    /\ UNCHANGED <<disk, minted, pointer>>

(* The row that goes active, with the identity minted for its worktree.    *)
Finalized(r, identity) ==
    [r EXCEPT !.state = "active", !.lock = None, !.ident = identity]

(* The identity is minted from what is on disk now and the row goes active; *)
(* a proof that fails goes to the failure path, over a rollback only when  *)
(* this call added the worktree.                                           *)
FinalizeActive(f) ==
    LET fl == flow[f]
        w  == fl.ws IN
    /\ fl.pc = "added"
    /\ FlipsDone
    /\ \/ /\ Present(w)
          /\ Write(w, Finalized(fl.snap, disk[w]))
          /\ Step(f, Idle)
       \/ /\ Step(f, [fl EXCEPT !.pc = IF fl.created THEN "rollback" ELSE "fail"])
          /\ UNCHANGED row
    /\ UNCHANGED <<disk, minted, pointer>>

(* Best effort: the removal may leave the tree where it is.                *)
Rollback(f) ==
    LET fl == flow[f] IN
    /\ fl.pc = "rollback"
    /\ \E left \in {0, disk[fl.ws]} : disk' = [disk EXCEPT ![fl.ws] = left]
    /\ Step(f, [fl EXCEPT !.pc = "fail"])
    /\ UNCHANGED <<row, minted, pointer>>

FailProvisioning(f) ==
    LET fl == flow[f] IN
    /\ fl.pc = "fail"
    /\ \E target \in {"failed", "recovery-required"} :
          Write(fl.ws, [fl.snap EXCEPT !.state = target, !.lock = None])
    /\ Step(f, Idle)
    /\ UNCHANGED <<disk, minted, pointer>>
-----------------------------------------------------------------------------
(* Lifecycle: activation, the pointer, pause and handoff.                  *)

\* Mutant: the lock carries a reason outside the closed vocabulary.
ActivationReasonTypo(r, a, acquireLock) ==
    IF ~acquireLock THEN None
    ELSE IF r.state # "active" /\ LockLive(r.lock) /\ r.lock.owner = a THEN r.lock
    ELSE Lock(a, "activate")

(* ownActivation: an own live lock is kept on the way out of another state. *)
ActivationLock(r, a, acquireLock) ==
    IF ~acquireLock THEN None
    ELSE IF r.state # "active" /\ LockLive(r.lock) /\ r.lock.owner = a THEN r.lock
    ELSE Lock(a, "activation")

AssertActivatable(r, a) == r # None /\ ~Foreign(r, a) /\ r.state \in Activatable

(* activateLocked is synchronous; the pointer flip that follows it is not  *)
(* part of the ws: section.                                                *)
SetActive(f, w, a, acquireLock) ==
    LET r == row[w] IN
    /\ flow[f] = Idle
    /\ WorkspaceFree(w)
    /\ AssertActivatable(r, a)
    /\ IF Proven(w, r)
       THEN /\ Write(w, [r EXCEPT !.state = "active",
                                  !.lock = ActivationLock(r, a, acquireLock)])
            /\ Step(f, Flow("flip", w, None, None))
       ELSE /\ Write(w, Drifted(r))
            /\ Step(f, Idle)
    /\ UNCHANGED <<disk, minted, pointer>>

\* Mutant: the pointer is bound without looking at the row again.
FlipUnchecked(f) ==
    /\ flow[f].pc = "flip"
    /\ pointer' = flow[f].ws
    /\ Step(f, Idle)
    /\ UNCHANGED <<row, disk, minted>>

(* The row is re-read under active: and must still be active.              *)
FlipPointer(f) ==
    LET w == flow[f].ws IN
    /\ flow[f].pc = "flip"
    /\ pointer' = IF row[w] # None /\ row[w].state = "active" THEN w ELSE pointer
    /\ Step(f, Idle)
    /\ UNCHANGED <<row, disk, minted>>

Pause(w, a) ==
    LET r == row[w] IN
    /\ WorkspaceFree(w)
    /\ r # None /\ Legal(r.state, "paused") /\ ~Foreign(r, a)
    /\ Write(w, [r EXCEPT !.state = "paused", !.lock = None])
    /\ Unpoint(w)
    /\ UNCHANGED <<disk, minted, flow>>

PrepareHandoff(w, a) ==
    LET r == row[w] IN
    /\ WorkspaceFree(w)
    /\ r # None /\ Legal(r.state, "handoff-ready") /\ ~Foreign(r, a)
    /\ Write(w, IF Proven(w, r)
                THEN [r EXCEPT !.state = "handoff-ready", !.lock = None]
                ELSE Drifted(r))
    /\ UNCHANGED <<disk, minted, flow, pointer>>

(* getActive is a synchronous read without a mutex key: a pointer that     *)
(* cannot be exposed is cleared, and a bindable row whose worktree is gone *)
(* or replaced is flagged on the way.                                      *)
Bindable(r) == r.state \in {"active", "handoff-ready"}

GetActive ==
    LET w == pointer
        r == row[w] IN
    /\ pointer # None
    /\ IF r # None /\ Bindable(r)
       THEN ~Proven(w, r) /\ Write(w, Drifted(r))
       ELSE UNCHANGED row
    /\ pointer' = None
    /\ UNCHANGED <<disk, minted, flow>>

(* An explicit clear, or a getActive whose identity repair failed.         *)
ClearActive ==
    /\ pointer # None
    /\ pointer' = None
    /\ UNCHANGED <<row, disk, minted, flow>>
-----------------------------------------------------------------------------
(* Repair: consult live, decide, then run one strategy under the ws: key.  *)

Repair(f, w, a) ==
    /\ flow[f] = Idle
    /\ WorkspaceFree(w)
    /\ row[w] # None /\ ~Foreign(row[w], a)
    /\ Step(f, [Flow("consult", w, a, row[w]) EXCEPT !.alive = LockLive(row[w].lock)])
    /\ UNCHANGED <<row, disk, minted, pointer>>

(* consultRepository answered, the facts are read; or it could not.        *)
ConsultRepository(f) ==
    LET fl == flow[f] IN
    /\ \/ fl.pc = "consult"   /\ Step(f, Facts(fl, "verdict"))
       \/ fl.pc = "reconsult" /\ Step(f, Facts(fl, "recheck"))
       \/ fl.pc \in {"consult", "reconsult"} /\ Step(f, Idle)
    /\ UNCHANGED <<row, disk, minted, pointer>>

(* The classification is persisted and the repair ends: refused, operator  *)
(* required, or re-checked after a released lock.                          *)
RepairEnds(f) ==
    /\ flow[f].pc \in {"verdict", "recheck"}
    /\ Write(flow[f].ws, Reconciled(flow[f]))
    /\ Step(f, Idle)
    /\ UNCHANGED <<disk, minted, pointer>>

Offered(fl, strategy) ==
    fl.pc = "verdict" /\ strategy \in Applicable(AsJudged(fl), fl.seen, fl.actor)

(* recreate-worktree, reconcile-pointer: the row goes under the repair     *)
(* lock and the admin entries are pruned before the nested provision.      *)
ApplyProvisioningRepair(f) ==
    LET fl     == flow[f]
        locked == [Reconciled(fl) EXCEPT !.lock = Lock(fl.actor, "repair")] IN
    /\ \E s \in {"recreate-worktree", "reconcile-pointer"} : Offered(fl, s)
    /\ Write(fl.ws, locked)
    /\ Step(f, [Flow("prune", fl.ws, fl.actor, None) EXCEPT !.nested = TRUE])
    /\ UNCHANGED <<disk, minted, pointer>>

ApplyReleaseStaleLock(f) ==
    LET fl      == flow[f]
        cleared == [Reconciled(fl) EXCEPT !.lock = None] IN
    /\ Offered(fl, "release-stale-lock")
    /\ Write(fl.ws, cleared)
    /\ Step(f, [fl EXCEPT !.pc = "reconsult", !.snap = cleared, !.alive = FALSE])
    /\ UNCHANGED <<disk, minted, pointer>>

ApplyAbandon(f) ==
    LET fl == flow[f] IN
    /\ Offered(fl, "abandon-and-cleanup")
    /\ Legal(Reconciled(fl).state, "abandoned")
    /\ Write(fl.ws, [Reconciled(fl) EXCEPT !.state = "abandoned", !.lock = None])
    /\ Unpoint(fl.ws)
    /\ Step(f, Idle)
    /\ UNCHANGED <<disk, minted>>

\* Mutant: the nested provision waits for the workspace key its repair holds.
NestedTakesWorkspaceKey(f) ==
    /\ flow[f].pc = "prune"
    /\ RepoFree /\ WorkspaceFree(flow[f].ws)
    /\ ProvisionLocked(f, flow[f])
    /\ UNCHANGED <<disk, minted, pointer>>

(* The nested provision, once its repo: and prov: keys are its own.        *)
NestedProvision(f) ==
    /\ flow[f].pc = "prune"
    /\ RepoFree
    /\ ProvisionLocked(f, flow[f])
    /\ UNCHANGED <<disk, minted, pointer>>

(* pruneWorktrees or resolveRepositoryContext failed: the repair unlocks.  *)
PruneFails(f) ==
    LET fl == flow[f] IN
    /\ fl.pc = "prune"
    /\ Write(fl.ws, ReleaseRepairLock(row[fl.ws], fl))
    /\ Step(f, Idle)
    /\ UNCHANGED <<disk, minted, pointer>>
-----------------------------------------------------------------------------
(* Cleanup: request, live safety gate, governed removal, orphan sweep.     *)

RequestCleanup(w) ==
    /\ WorkspaceFree(w)
    /\ row[w] # None
    /\ row[w].state \in CleanupEligible \ {"cleanup-pending"}
    /\ Write(w, [row[w] EXCEPT !.state = "cleanup-pending"])
    /\ UNCHANGED <<disk, minted, pointer, flow>>

CompleteCleanup(f, w, a) ==
    /\ flow[f] = Idle
    /\ WorkspaceFree(w)
    /\ row[w] # None /\ row[w].state = "cleanup-pending" /\ ~Foreign(row[w], a)
    /\ Step(f, Flow("safety", w, a, row[w]))
    /\ UNCHANGED <<row, disk, minted, pointer>>

(* The live facts for the gate; the lock is judged by the clock read here. *)
GatherCleanupFacts(f) ==
    LET fl == flow[f] IN
    /\ fl.pc = "safety"
    /\ \/ Step(f, [Facts(fl, "probed") EXCEPT !.alive = LockLive(fl.snap.lock)])
       \/ Step(f, Idle)
    /\ UNCHANGED <<row, disk, minted, pointer>>

(* evaluateWorkspaceCleanupSafety: any live lock and any foreign tree.     *)
CleanupAllowed(fl) == ~fl.alive /\ fl.seen \in {0, fl.snap.ident}

(* Refused (a dirty tree included), or locked for the removal.             *)
EvaluateLiveCleanupSafety(f) ==
    LET fl     == flow[f]
        locked == [fl.snap EXCEPT !.lock = Lock(fl.actor, "cleanup")] IN
    /\ fl.pc = "probed"
    /\ \/ Step(f, Idle) /\ UNCHANGED row
       \/ /\ CleanupAllowed(fl)
          /\ Write(fl.ws, locked)
          /\ Step(f, Flow("removing", fl.ws, fl.actor, locked))
    /\ UNCHANGED <<disk, minted, pointer>>

(* git worktree remove without --force, then prune: git removes the tree   *)
(* or leaves some of it, refuses it, or the call throws (CLEANUP_FAILED,   *)
(* which leaves the cleanup lock on the row).                              *)
RemoveManagedWorktree(f) ==
    LET fl == flow[f] IN
    /\ fl.pc = "removing"
    /\ \E left \in {0, disk[fl.ws]} : disk' = [disk EXCEPT ![fl.ws] = left]
    /\ \/ \E next \in {"removed", "kept"} : Step(f, [fl EXCEPT !.pc = next])
       \/ Step(f, Idle)
    /\ UNCHANGED <<row, minted, pointer>>

(* Git is done and a tree is still there, or git refused: what is asked    *)
(* next is the status of a leftover that is still the registered tree, the *)
(* status of a tree git kept, or whether git lists it no longer.           *)
ReprobeWorktree(f) ==
    LET fl == flow[f] IN
    /\ \/ fl.pc = "removed" /\ Proven(fl.ws, fl.snap) /\ Step(f, [fl EXCEPT !.pc = "leftover"])
       \/ fl.pc = "kept" /\ Present(fl.ws)  /\ Step(f, [fl EXCEPT !.pc = "surviving"])
       \/ fl.pc = "kept" /\ ~Present(fl.ws) /\ Step(f, [fl EXCEPT !.pc = "listing"])
    /\ UNCHANGED <<row, disk, minted, pointer>>

(* A leftover that is not the registered tree, or is dirty, stays; and so  *)
(* does a tree git kept.                                                   *)
CleanupRefused(f) ==
    LET fl == flow[f] IN
    /\ \/ fl.pc = "removed" /\ Present(fl.ws) /\ ~Proven(fl.ws, fl.snap)
       \/ fl.pc \in {"leftover", "surviving"}
    /\ Write(fl.ws, [fl.snap EXCEPT !.lock = None])
    /\ Step(f, Idle)
    /\ UNCHANGED <<disk, minted, pointer>>

(* The tree is gone, or was a clean leftover and is deleted now, whatever  *)
(* stands in its place since the proof: the pointer is cleared and the row *)
(* deleted, unless removeManagedWorkspaceIdentity throws between the two.  *)
FinalizeCleanup(f) ==
    LET fl == flow[f] IN
    /\ \/ fl.pc = "removed" /\ ~Present(fl.ws) /\ UNCHANGED disk
       \/ fl.pc = "listing" /\ UNCHANGED disk
       \/ fl.pc = "leftover" /\ disk' = [disk EXCEPT ![fl.ws] = 0]
    /\ Unpoint(fl.ws)
    /\ Write(fl.ws, None) \/ UNCHANGED row
    /\ Step(f, Idle)
    /\ UNCHANGED minted

(* CLEANUP_FAILED: git still lists the worktree, or the leftover cannot be *)
(* deleted.  The cleanup lock stays on the row.                            *)
CleanupFails(f) ==
    /\ flow[f].pc \in {"listing", "leftover"}
    /\ Step(f, Idle)
    /\ UNCHANGED <<row, disk, minted, pointer>>

(* The sweep looks at the row once, at the start of the leaf's section.    *)
CleanupOneOrphan(f, w) ==
    /\ flow[f] = Idle
    /\ WorkspaceFree(w)
    /\ row[w] = None /\ Present(w)
    /\ Step(f, Flow("probe1", w, None, None))
    /\ UNCHANGED <<row, disk, minted, pointer>>

(* Two dirty probes, then the removal in the turn of the second answer.    *)
ProbeOrphan(f) ==
    LET fl == flow[f] IN
    /\ \/ fl.pc = "probe1" /\ Step(f, [fl EXCEPT !.pc = "probe2"]) /\ UNCHANGED disk
       \/ fl.pc \in {"probe1", "probe2"} /\ Step(f, Idle) /\ UNCHANGED disk
       \/ /\ fl.pc = "probe2"
          /\ disk' = [disk EXCEPT ![fl.ws] = 0]
          /\ Step(f, Idle)
    /\ UNCHANGED <<row, minted, pointer>>
-----------------------------------------------------------------------------
(* The environment: time, other programs, and a server crash.              *)

Expired(r) == IF r = None \/ r.lock = None THEN r ELSE [r EXCEPT !.lock.live = FALSE]

ExpireLock(w) ==
    /\ row[w] # None /\ LockLive(row[w].lock)
    /\ Write(w, Expired(row[w]))
    /\ flow' = [f \in Flows |-> IF flow[f].ws = w
                                THEN [flow[f] EXCEPT !.snap = Expired(@)] ELSE flow[f]]
    /\ UNCHANGED <<disk, minted, pointer>>

(* Another program deletes or replaces a registered worktree.              *)
DisturbWorktree(w) ==
    /\ row[w] # None /\ Present(w)
    /\ \/ /\ disk' = [disk EXCEPT ![w] = 0]
          /\ UNCHANGED minted
       \/ /\ minted[w] < MaxIdentity
          /\ minted' = [minted EXCEPT ![w] = @ + 1]
          /\ disk' = [disk EXCEPT ![w] = minted[w] + 1]
    /\ UNCHANGED <<row, pointer, flow>>

(* Rows, pointer and worktrees are durable; flows and the mutex are not.   *)
Crash ==
    /\ \E f \in Flows : flow[f] # Idle
    /\ flow' = [f \in Flows |-> Idle]
    /\ UNCHANGED <<row, disk, minted, pointer>>
-----------------------------------------------------------------------------
(* A worktree without a row may be left over from an earlier life.         *)
Init ==
    /\ row = [w \in Workspaces |-> None]
    /\ disk \in [Workspaces -> {0, 1}]
    /\ minted = disk
    /\ pointer = None
    /\ flow = [f \in Flows |-> Idle]

Request(f) ==
    \E w \in Workspaces :
        \/ Reconcile(f, w)
        \/ CleanupOneOrphan(f, w)
        \/ \E a \in Actors :
              \/ Provision(f, w, a)
              \/ \E acquireLock \in BOOLEAN : SetActive(f, w, a, acquireLock)
              \/ Repair(f, w, a)
              \/ CompleteCleanup(f, w, a)

Continue(f) ==
    \/ ReconcileWithContext(f)
    \/ AssertProvisionable(f) \/ MaterializeWorktree(f) \/ FinalizeActive(f)
    \/ Rollback(f) \/ FailProvisioning(f)
    \/ FlipPointer(f)
    \/ ConsultRepository(f) \/ RepairEnds(f) \/ ApplyProvisioningRepair(f)
    \/ ApplyReleaseStaleLock(f) \/ ApplyAbandon(f)
    \/ GatherCleanupFacts(f) \/ EvaluateLiveCleanupSafety(f) \/ RemoveManagedWorktree(f)
    \/ ReprobeWorktree(f) \/ CleanupRefused(f) \/ FinalizeCleanup(f) \/ CleanupFails(f)
    \/ ProbeOrphan(f)

Synchronous ==
    \/ \E w \in Workspaces :
          \/ RequestCleanup(w)
          \/ \E a \in Actors : Pause(w, a) \/ PrepareHandoff(w, a)
    \/ GetActive
    \/ ClearActive

Environment ==
    \/ \E w \in Workspaces : ExpireLock(w) \/ DisturbWorktree(w)
    \/ Crash

Next ==
    \/ \E f \in Flows : Request(f) \/ Continue(f) \/ NestedProvision(f) \/ PruneFails(f)
    \/ Synchronous
    \/ Environment

Spec == Init /\ [][Next]_vars

(* Every await is answered, however many pointer flips of other requests   *)
(* come first, and a queued call gets its turn: the mutex is first come,   *)
(* first served (WorkspaceMutex, FirstComeFirstServed), so a nested        *)
(* provision cannot be overtaken for ever.                                 *)
Fairness ==
    \A f \in Flows : SF_vars(Continue(f)) /\ SF_vars(NestedProvision(f))

FairSpec == Spec /\ Fairness
-----------------------------------------------------------------------------
(* The active pointer never advertises a workspace that is paused,         *)
(* abandoned or deleted, although it is flipped after the ws: section that *)
(* activated the workspace has ended (setActiveImpl re-verifies).          *)
PointerNeverParked ==
    pointer # None => /\ row[pointer] # None
                      /\ row[pointer].state \notin {"paused", "abandoned"}

(* The steps of a flow that is changing a worktree, and the mark its row   *)
(* is meant to bear meanwhile: its state, and the lock of the flow's actor.*)
Adding   == {"add", "added", "rollback", "fail"}
Removing == {"removing", "removed", "kept", "leftover", "surviving", "listing"}

Marked(f) ==
    /\ flow[f].pc \in Adding \cup Removing
    /\ LET r    == row[flow[f].ws]
           mark == IF flow[f].pc \in Adding THEN <<"provisioning", "provisioning">>
                   ELSE <<"cleanup-pending", "cleanup">> IN
       /\ r # None
       /\ r.lock # None
       /\ r.lock.owner = flow[f].actor
       /\ <<r.state, r.lock.reason>> = mark

(* f and g work on one workspace, one of them under repo: and prov: only,  *)
(* the other under ws:.                                                    *)
AcrossKeys(f, g) ==
    LET w == flow[f].ws IN
    \/ Provisioning(f, w) /\ HoldsWorkspace(g, w)
    \/ HoldsWorkspace(f, w) /\ Provisioning(g, w)

(* While a flow is adding, rolling back or removing a worktree, nobody     *)
(* takes its mark off the row with a row read before the mark, except a    *)
(* provision against a flow of the other keys: of two flows that share     *)
(* ws:, or repo:, and of the requests that do not await, none does.  The   *)
(* exception does happen, as no key is common to the two: a reconcile that *)
(* read a failed row writes it over the marker of its provisioning.        *)
MarkLostOnlyAcrossKeys ==
    [][\A f \in Flows :
          Marked(f) /\ flow'[f].pc = flow[f].pc /\ ~Marked(f)' =>
              \E g \in Flows : flow'[g] # flow[g] /\ AcrossKeys(f, g)]_vars

(* A workspace whose row is deleted comes back only as a fresh             *)
(* provisioning: no slow flow writes the row it read before the deletion.  *)
NoResurrection ==
    [][\A w \in Workspaces :
          row[w] = None /\ row'[w] # None => row'[w].state = "provisioning"]_vars

(* The same of every flow but one: no reconcile, repair or cleanup that    *)
(* read a row before its deletion brings it back; only a provision that is *)
(* past its gates, and shares no key with the cleanup, can.                *)
OnlyProvisionRevives ==
    [][\A w \in Workspaces :
          row[w] = None /\ row'[w] # None =>
              \/ row'[w].state = "provisioning"
              \/ \E f \in Flows : Provisioning(f, w) /\ flow'[f] # flow[f]]_vars

(* A row that can be bound to a surface carries a real gitdir identity:    *)
(* the placeholder a first provisioning persists before the worktree       *)
(* exists never gets past it, whatever fails or crashes in between.        *)
PlaceholderNeverBindable ==
    \A w \in Workspaces :
        row[w] # None /\ Bindable(row[w]) => row[w].ident # 0

(* However a repair that re-materializes a worktree ends, it does not      *)
(* leave its own repair lock on the row (the finally of                    *)
(* executeRepairAndFinalize); only a crash can.                            *)
RepairUnlocks ==
    [][Crash \/ \A f \in Flows :
          flow[f].nested /\ flow'[f] = Idle =>
              LET r == row'[flow[f].ws] IN
              r # None /\ r.lock # None =>
                  ~(r.lock.owner = flow[f].actor /\ r.lock.reason = "repair")]_vars

LegalWalkStep(s, t) ==
    \/ s = t \/ Legal(s, t)
    \/ Legal(s, "recovery-required") /\ Legal("recovery-required", t)
    \/ s \in Completable /\ t = "provisioning"

(* Every lifecycle change of a live row is a legal transition, a           *)
(* classification to recovery-required with a repair's decision in the     *)
(* same turn, or the re-entry of a completable row into provisioning       *)
(* ("persists the classification within a legal transition",               *)
(* reconciliation.ts:371).                                                 *)
LegalWalk ==
    [][\A w \in Workspaces :
          row[w] # None /\ row'[w] # None =>
              LegalWalkStep(row[w].state, row'[w].state)]_vars

(* Every request in flight comes to an end; in particular a repair's       *)
(* nested provision is never waiting for a key its own flow holds.         *)
FlowsFinish == \A f \in Flows : flow[f].pc # "idle" ~> flow[f].pc = "idle"
=============================================================================
