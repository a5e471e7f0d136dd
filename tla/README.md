# Keiko: TLA+ models of the workspace, mutation and coding runtime core

Keiko is a local coding assistant: a Node server (`packages/keiko-server`)
with a web interface, a model gateway, memory and retrieval, connectors to Jira
and MCP servers, and a coding runtime that works in Git worktrees. Most of the
repository transforms data. The parts specified here are the ones where several
asynchronous flows, a crash, or a provider that may or may not have acted meet
durable state:

- the **task workspaces** (`keiko-server/src/task-workspace`): rows in SQLite,
  worktrees on disk, an active pointer, five services over one keyed mutex;
- the **mutation journal** (`keiko-server/src/store/chatToolMutations.ts`):
  the durable record of every external write of a chat or coding turn, and its
  three callers;
- the **coding runtime** (`keiko-server/src/coding-runtime`, `editor`): the
  registry that hands each governed tool call to its executor once, the leases
  and the review queue behind an edit, and the replay buffer that tells the
  browsers what a run does;
- the **circuit breaker** and the retries of the model gateway
  (`packages/keiko-model-gateway/src/resilience.ts`).

All paths below are relative to `src/packages/keiko-server/src` unless they
start with `packages/` or `docs/`.

## Inventory

| component | state | operations | what is hard | what makes it correct |
| --- | --- | --- | --- | --- |
| workspace mutex (`task-workspace/mutex.ts`) | `tails`: key to tail promise | `runExclusive` | overlapping key sets, order of arrival, dropping entries | exclusion per key, arrival order, no cycle, no leak |
| provisioning (`provisioning.ts`, `locks.ts`) | instance rows, worktrees | provision, activate, resume | Git calls between read and write, rollback, crash in the middle | a bindable row names a real worktree; a row in mid-mutation keeps its marker against every flow that shares a key |
| lifecycle (`lifecycle.ts`, `active-store.ts`) | rows, active pointer | setActive, getActive, pause, handoff, clear | pointer flip after the section ended; writes from a read | the pointer never names a parked workspace; transitions are legal |
| reconciliation (`reconciliation.ts`, `packages/keiko-contracts/src/task-workspace.ts`) | rows | live pass, single-instance pass | upsert of a row read before the facts | no lost update, no resurrection, legal transitions |
| repair (`repair.ts`) | rows, repair lock | consult, strategies, nested provision | nested mutex sections, refusals halfway | the lock is given back; no self-deadlock |
| cleanup (`cleanup.ts`) | rows, worktrees, pointer | request, complete, orphan sweep | partial removal, changes under the gate | a deleted row stays deleted; foreign trees stay |
| mutation journal (`store/chatToolMutations.ts`, `chatToolMutationState.ts`) | one row per external write | prepare, beginDispatch, acknowledge, settle, retire | crash after send, late or replaced answers | outcomes are true, nothing is applied twice, one open effect |
| Jira and MCP chat writes (`atlassian/jiraChatMutation.ts`, `mcp/mcpChatMutation.ts`) | in-memory call | one journalled write each | ambiguous statuses, aborts | what they settle is what the record allows |
| native MCP writes (`coding-runtime/opencodeNativeMcpMutationJournal.ts`) | in-memory permits | permit, dispatch, release, completion report, recovery | twin permits, completion racing a late answer | as the journal |
| coding tool invocation registry (`coding-runtime/codingToolInvocationRegistry.ts`) | staged and claimed payloads, tombstones, two indexes, revoked runs | stage, take, native reads, settle, expire, revoke, dispose | expiry racing a claim, replay after eviction, every limit at once | an action is executed once; bytes add up; a running executor can be stopped |
| editor edits (`coding-runtime/codingRuntimeEditorMutationLeaseCoordinator.ts`, `codingToolReadEditPorts.ts`, `editor/agentRoutes.ts`, `editor/agentSessionRegistry.ts`) | leases, waiters, review queue, the tree | register, dispatch, admit, review, commit, cancel, revoke, wait for idle | response, review, abort, revocation and timeout in any order | an edit lands at most once, never after its answer, and the answer is true |
| coding runtime events (`coding-runtime/codingRuntimeEventHub.ts`, the projection in `codingRuntimeOrchestrator.ts`, retry facts in `coding-sidecar-gateway.ts`) | bounded buffer with a reserve, subscribers | publish, evict, replay, subscribe, prune | eviction under two limits, a lost connection, a refused publication | order, no loss of a critical frame, a contained run shows it |
| gateway resilience (`packages/keiko-model-gateway/src/resilience.ts`) | breaker with generations and probe slots, waiters, attempts | admit, wait, settle, retry, cancel | late answers of earlier generations, lost wake-ups, a slot that leaks | only probes decide; the outage window holds calls; every call ends |
| operations and session leases (`codingRuntimeOperationCoordinator.ts`, `codingRunSessionLease.ts`) | single-flight operations, expiring leases | acquire, renew, release, expire | a late holder after expiry | one holder per lease |
| wakes and description jobs (`codingScheduledWakes.ts`, `codingRuntimeDescriptionJobStore.ts`) | timers, jobs | schedule, fire, claim | timers over a restart | no double wake |
| approvals (`gitDelivery/approvalStore.ts`, `store/chatToolApprovalTransition.ts`, `coding-runtime/codingToolApprovalBridge.ts`) | approvals | request, decide, consume, expire | consume racing expiry and revocation | an approval is used once |
| quality intelligence breaker (`qualityIntelligence/circuitBreaker.ts`) | a failure count | call | none: its calls follow each other | it opens and closes at its thresholds |

The rest (identity probes, routes, evidence and activity logs, folder
workspaces and local checkouts, harness, memory, retrieval, quality
intelligence, connectors, tools, sandbox, UI, CLI and launchers) is listed in
`PROJECT.json` with the reason why it is not modelled: pure projections, input
and output around a decision, or data processing without shared state.

How the parts interact: the five workspace services share the mutex registry,
the instance store and the pointer store; repair calls reconciliation and
provisioning inside its own section; provision takes `repo:` and `prov:`, the
other flows `ws:`, the pointer flip `active:`. The three write callers share the
journal; the approval is claimed by the guard that `beginDispatch` runs inside
its transaction; native writes are settled by what the coding runtime reports of
the tool call they belong to. A tool call of a coding run is staged in the
registry and taken by its executor; a mutating edit goes from there through the
edit port, the run's lease coordinator, an HTTP request to the action route and
the session's review queue, and its outcome comes back as a promise. A revoked
run is revoked in the registry, in the coordinator and in the queue. The
orchestrator and the model gateway publish what happens to the run into the hub,
and a refused publication changes the run's state.

The `hazards` of `PROJECT.json` list, line by line, what of this a test hardly
reaches, and the properties that would catch it.

## Modules

### WorkspaceMutex and KeyedLock

One element of `Calls` is one `runExclusive` call and its gate promise.
`RunExclusive` is the synchronous region (capture the tails, install the gate),
`Enter` the resumption of `await Promise.all(predecessors)`, `Release` the
`finally` block. The code sorts the keys; since capture and install are one
uninterrupted loop the order has no effect on what is captured, so a request is
a set of keys. `ticket` and `clock` are history variables that record the order
of arrival.

`KeyedLock` is the abstract lock the services rely on: a call arrives, waits for
exactly the calls present that share a key with it, is granted, leaves. It knows
neither tails nor gates. `LockPromise` is `KeyedLock` with `phase` mapped to
`status` and `ahead[c]` to the live earlier arrivals that share a key with `c`;
TLC checks it and it is proved.

### TaskWorkspace

The workspaces of one repository. `row[w]` is the persisted instance reduced to
lifecycle state, advisory lock and gitdir identity; `disk[w]` is the identity of
the worktree at the managed path; `pointer` is the active pointer; `flow[f]` is
an asynchronous request with what it keeps across its awaits: the row it read
(`snap`), the worktree it saw (`seen`), the lock verdict (`alive`), whether it
added the tree (`created`), whether it is a repair's provision (`nested`).

A flow is cut exactly at its awaits. Services that are synchronous inside their
section (`Pause`, `PrepareHandoff`, `RequestCleanup`, `GetActive`, `ClearActive`)
are single steps.

| code | actions |
| --- | --- |
| `provisionImpl`, `provisionLocked`, `reuseExistingOrUndefined` | `Provision`, `ProvisionLocked` |
| `assertProvisionable`, `freshInstance` | `AssertProvisionable` |
| `materializeWorktree`, `runWorktreeMutation`, `failProvisioning` | `MaterializeWorktree`, `FinalizeActive`, `Rollback`, `FailProvisioning` |
| `activateImpl`, `setActiveImpl` | `SetActive`, `FlipPointer` |
| `runDirectTransition`, `admitTransition`, `getActiveImpl` | `Pause`, `PrepareHandoff`, `GetActive`, `ClearActive` |
| `reconcileOneOrCarryForward`, `reconcileWithContext` | `Reconcile`, `ReconcileWithContext` |
| `repairLocked`, `executeStrategy`, `executeRepairAndFinalize` | `Repair`, `ConsultRepository`, `RepairEnds`, `ApplyProvisioningRepair`, `ApplyReleaseStaleLock`, `ApplyAbandon`, `NestedProvision`, `PruneFails` |
| `requestCleanupImpl`, `completeCleanupImpl` | `RequestCleanup`, `CompleteCleanup`, `GatherCleanupFacts`, `EvaluateLiveCleanupSafety`, `RemoveManagedWorktree`, `CleanupRefused`, `ReprobeWorktree`, `FinalizeCleanup`, `CleanupFails` |
| `cleanupOneOrphan` | `CleanupOneOrphan`, `ProbeOrphan` |
| the world | `ExpireLock`, `DisturbWorktree`, `Crash` |

The mutex is not instantiated here but used through what is proved of it: a
flow is in a section only while no other flow holds one of its keys. The keys are
the code's: `provision` takes `repo:` and `prov:` on every call, the other flows
`ws:`, and so a provision runs beside a reconcile, a repair or a cleanup of the
same workspace, although ADR-0093 assumes that it does not. The properties say
what survives this. `MarkLostOnlyAcrossKeys` and `OnlyProvisionRevives` allow a
marker to be overwritten, or a deleted row to come back, only between a provision
and a holder of `ws:`, which does happen; whoever shares a key never does either.
The pointer, the placeholder and the repair lock are safe in any case. Without
its exception the second property is `NoResurrection`, which the run
`reprovision` refutes.

`setActive` flips the pointer after its `ws:` section has ended. Between the two
only promises resume, and a section on `active:` contains no await, so the flip
is taken before the event loop turns to an answer of Git. `FlipsDone` says so of
the one step where it matters, the end of a provision (`FinalizeActive`); every
other step may come before a pending flip.

Left out: HEAD bookkeeping and `accept-moved-head`, branch facts, path
containment, the retired and unsupported identity schemas, validation of
request fields, local checkouts. A dirty tree, an unreachable repository and
every Git failure are nondeterministic outcomes of the step that meets them.

### MutationJournal and GovernedWrite

One turn. `rec[i]` is the journal row of invocation `i`, `caller[i]` the place
of the code executing it, `effect[i]` what the provider really did (nobody in
the program reads it), `current` whether the turn is still the pending one.
Each store method is one SQLite transaction and one step. The answers are
reduced to the three classes the rules tell apart: a success, a status that can
be a definitive rejection, anything else. The provider may act after the caller
has given up or crashed; a proxy may replace any answer by an error. That a
definitive status with Jira's own error document comes only with a refused
request is what `definitiveRejectionStatus` and `jiraRejectedWithoutEffect` rely
on, and is the one assumption about the provider.

`Prepare`, `BeginDispatch`, `Answer`, `NoAnswer`, `Settle` and `EndCall` are the
common path; `EndUndispatched` and `AbandonPrepared` its local endings;
`ReleaseTwin`, `ObserveCompletion` and `SettleUnconfirmed` belong to native
writes. `observeCompletion` and `settleUnconfirmed` judge once and then settle
record by record, each in a transaction of its own; what they settle is any part
of the call, because a crash may end the loop between two records and a settled
record is no longer looked at. The link requests that follow a Jira write leave its record alone and
count as part of it. Native actions carry their own digest, so two identical
native calls share one record: the second holder is `ReleaseTwin`.

`GovernedWrite` is what a turn is promised, without rows, callers or answers: what
a reader is told of each write, and the write's fate. A write is sent once, with
no other fate unknown and no success unconfirmed outside its own tool call; an
unknown outcome is resolved only by what the provider did; an action is asked for
again only behind refusals; writes of a tool call are confirmed only while none of the
call is unknown, though a crash can leave it half confirmed. `WritePromise` is
`GovernedWrite` with `told` mapped to what `observedChatToolMutationOutcome` answers
of the rows and `fate` to `effect`, checked by TLC and proved.

### InvocationRegistry

One registry, its runs and its clock. `entries[i]` is a staged and `claimed[i]`
a taken payload (its size and its deadline), `tombstones[i]` what is remembered
after it, `actions` and `keys` the two indexes, `evicted` the members of the
replay filter, `revoked` the bounded queue of revoked runs. `taken`, `running`
and `forgotten` are history.

| code | actions |
| --- | --- |
| `stage`, `collision`, `evictSettled` | `Stage`, `Collides`, `Evict` |
| `take`, `remember` | `Take`, `Remember` |
| `attachNativeRead`, `claimNativeReadOperation` | the actions of those names |
| `settle`, `dropLive`, `dropClaimed` | `Settle`, `Drop` |
| `expire`, which timers run and the methods begin with | `Expire`; the methods wait for `NothingDue` |
| `revokeRun`, `dispose` | `RevokeRun`, `Dispose` |

A method that starts with `expire()` is thereby `Expire` followed by the method,
and an `Expire` that nothing follows is a timer.

### EditorMutation and GovernedEdit

`GovernedEdit` is the abstract specification: two variables, the edits in the
tree and the answers given, two actions. `EditorMutation` is the way of an edit
through four files and implements it: `PromiseKept` is `GovernedEdit` with
`tree` and `answer` mapped to the variables of those names, checked by TLC and
proved.

`phase[e]` is the await at which the call of `e` stands; `leases`, `waiting`,
`settled`, `latest` and `idle` are the coordinator of its run; `requests`,
`replies` and `queue` the HTTP exchange and the review queue.

| code | actions |
| --- | --- |
| `prepareEdit`, `bindPreparedEdit`, `executeMaterializedEdit` | `PrepareRefused`, `Prepare`, `BindRefused`, `Dispatch` |
| `executeServerPreparedEdit` | `ServerEdit` |
| `executeBrowserPreparedEdit`, `completedEdit` | `ReplyQueued`, `ReplyRefused`, `ClientFails`, `Complete` |
| `registerRecord`, `completeRecord`, `discardUnclaimedLease`, `cancelUnclaimedMutation`, `settleIfIdle` | `Registrable`, `Release`, `CompleteUnclaimed`, `Discard`, `CancelUnclaimed`, `Tell` |
| `admitEditorAction` | `Admit` |
| `commitApprovedChangeset`, `handleChangesetResult`, the queue's `onTimeout` | `ReviewApproves`, `ReviewEnds`, `ReviewTimeout` |
| `waitForMutation` with its signal | `Abort` |
| `revokeRun`, `dispose`, `waitForIdle`, `abortRuntimeTask` | `RevokeRun`, `Dispose`, `WaitForIdle`, `AbortTurn` |

A commit (claim, write, complete) contains no await and is one step. What the
file checks, the mutation guard and the patch writer answer is nondeterministic.

### RuntimeEvents

One run: its state, the hub's buffer, the browsers and the model calls of the
gateway. A frame is its number, the run state it was published in, its kind and
whether it is critical; the encoded size is a constant of the kind.

| code | actions and operators |
| --- | --- |
| `publish`, `makeCapacity`, `removeLossy`, `demotePriorTurnFailures`, `fanOut` | `Publish`, `MakeCapacity`, `RemoveLossy`, `DemotePriorTurnFailures`, `FanOut` |
| `transition`, `publishOrRecover`, `advanceRevision`, `pruneSettled` | the actions of those names |
| `gatewayRetryTrace`, `surfaceGatewayRetry`, `reportGatewayTurnFailure` | `CallStarts`, `HearRetry`, `HearAnswer`, `CallEnds`, `Surface`, `ReportTurnFailure` |
| `subscribe`, `replay`, `openCodingRuntimeSse`, a write that fails | `Connect`, `Resume`, `ResumeReset`, `Attach`, `Replay` (with `InOrder`), `Disconnect` |

### GatewayResilience

One provider's breaker and the calls that share it. `breaker` has the fields of
the class; `call[c]` says where a call stands, since when, in which attempt, with
which admission and when its timer fires; `notified` are the waiters whose
`notify` has run but which have not resumed; `proof` counts, as history, the
successes of the current half-open generation's probes.

| code | actions and operators |
| --- | --- |
| `assertAllowed`, `enterHalfOpenOrReject`, `createAdmission` | `Allowing`, `Allowed`, `EnterHalfOpen`, `Attempt` |
| `waitForAdmission`, `blockedWait`, `waitForChange` | `Advance`, `BlockedWait`, `Wake` |
| `settleAdmission` with `recordSuccess`, `recordFailure`, `recordNonProviderFault`, `announceProviderCooldown` | `SettleAdmission`, `Settle` and the operators of those names |
| `executeWithRetry`, `executeRetryAttempt`, `retryDecision`, `recordFailedAttempt` | `Start`, `Retry`, `Decision`, `Answered`, `TimesOut`, `ProviderFails`, `ModelFails`, `DispatchFails` |
| `sleepWithCancellation` | `Cancel` |

### Totals

The counters of the hub and of the registry are sums over sets. `Totals` counts
such a sum as a number of units, a thing of size n being n pairs, so that what an
addition or a removal does to it follows from the library's facts on cardinality;
of a recursive sum it could not be proved.

## Runs

| run | instance | shows |
| --- | --- | --- |
| `mutex` | 3 calls, 2 keys, every key set | exclusion, exact tails, refinement of `KeyedLock`, progress |
| `workspace` | 3 flows of 2 actors on one workspace, and one flow with a pending flip on two; identities 0 to 2 | the pointer; who can take a marker off a row; who can revive a deleted one |
| `overlap` | 1 workspace, 2 flows, 1 actor, identities 0 to 2, fair | the placeholder never becomes bindable; repairs unlock; every flow ends |
| `reprovision` | as `overlap` | violated: a deleted row is written back |
| `active_read` | 1 workspace, 1 flow, 1 actor | violated: an illegal transition through `getActive` |
| `journal` | a chat turn (attachment, its retry, a batch item, an MCP write) or a coding turn (two native writes of one tool call, one of another); at most 2 held | truth, at most once, the per-turn bound, refinement of `GovernedWrite` |
| `events` | 1 browser, 2 calls, 3 frames and 4 bytes retained, 5 published | order, no skipped frame, containment, the end of a retry phase |
| `events_gap` | as `events` | violated: a resume over a lost frame |
| `registry` | 3 requests of one run, two with one key, and one of another run; every limit within reach; clock to 3 | executed once, bytes, stoppable executors, payloads dropped in time |
| `edit` | 3 edits of one run and session, two reviewed; 2 leases; fair | outcomes, waiters, revocation, refinement of `GovernedEdit`, every wait ends |
| `edit_idle` | as `edit` | violated: `idle-succeeded` after a failed claimed mutation |
| `breaker` | 2 calls under the outage window, 1 without; opens at 1 failure, wants 2 probes; 1 retry; clock to 5; fair | slots, wake-ups, the window, who decides, every call ends |

Why the bounds are enough.

- `mutex`: three calls on two keys contain every shape of overlap in which one
  call waits for two others, and one captures a tail while an earlier one is
  still queued.
- Workspaces: two flows are what a race between a slow flow and another needs, a
  third lets a third party act between them. Two actors separate own from foreign
  locks; one actor with several flows is the case in which the owner check cannot
  tell two flows apart; two workspaces are what a pointer flip needs. The
  CONSTRAINT `Explored` of `MCTaskWorkspace` takes the sum of these instances
  (three flows and two actors on one workspace; on two a flow, a flip that is still
  pending, one actor and one identity) instead of their product. Two real
  identities beside the placeholder allow a tree that is added and replaced. Symmetry is used in `workspace` only, which
  checks no liveness: no action or property names an actor, a flow or a workspace.
- `journal`: the chat turn has one write of each kind the rules distinguish plus a
  retry of the retryable one; the coding turn has two writes in one call (the
  exemption of `observedWithinNativeCall`) and one in another, with room for two.
  The ACTION_CONSTRAINT `OneKindOfTurn` keeps a behaviour to one kind, as a chat
  and a coding run never share a turn.
- `events`: three statuses fill the places before the bytes, two failures the bytes
  before the places, so both evictions and both uses of the reserve occur; five
  publications are two more than are retained, which a gap behind a retained
  frame and a second containment frame need.
- `registry`: two live entries, one tombstone, one remembered revocation and four
  bytes are the smallest limits at which each is met while another request is
  alive; the second run meets the memory of revoked runs. The clock reaches every
  deadline, because nothing is staged whose deadline it cannot reach.
- `edit`: three edits are one more than the leases; reviewed and unreviewed ones
  take the queue's and the server's way; a coordinator belongs to one run, and
  runs meet only in a session's queue, where an action knows its run. The proofs
  cover several runs.
- `breaker`: with two probes wanted, two callers fill the slots and a third waits
  for one (`probe-saturated`); a late answer of an earlier generation needs one
  caller that outlives an opening. A call that starts at 0 ends by its budget of 2
  or, with its window, 5.

Deadlock checking is off where a behaviour ends: `mutex`, `edit` and `breaker`,
whose calls are used once, `events`, which stops at `MaxFrames`, and `registry`,
whose clock stops.

Fairness, always weak unless said otherwise, and never of a user, a reviewer, a
crash or another program:

- `WorkspaceMutex`: a resolved promise resumes its continuation, and a section
  ends, which the Git adapter's timeouts bound.
- `TaskWorkspace`: every await is answered, with an error if need be (`Continue`).
  The fairness is strong, because a pending flip of another request comes before
  the answer (`FlipsDone`) and each is over within its turn of the event loop; a
  flow cannot be passed over for ever. A nested provision, which waits for `repo:`,
  gets its turn when it comes up again and again: strong fairness too, justified
  by the arrival order proved of the mutex.
- `InvocationRegistry`: the clock moves and a due timer fires (`Tick`, `Expire`).
- `EditorMutation`: the retries of the session list end (`BindRefused`), the HTTP
  client has its timeout (`ClientFails`), a settled promise resumes (`Complete`),
  and the life of an invocation ends by its timer (`Abort`).
- `GatewayResilience`: the clock moves, a notified or timed-out waiter resumes
  (`Wake`), a backoff ends (`Retry`), an attempt ends by its own timeout
  (`TimesOut`).

## Findings

**A provision of an existing row shares no key with cleanup** (`reprovision`).
`provisionImpl` takes `repo:` and `prov:` on every call. ADR-0093 argues that
this differs from `ws:` only in the first-provision window and that afterwards
every flow uses `ws:`. A provision that completes a `failed` row, however, can be
between its gates and `finalizeActive` while request-cleanup and
complete-cleanup delete the row, and then writes it back as `active`. The same
missing key lets a reconcile that read the `failed` row before the provision was
admitted write it over the provisioning marker, while the worktree is being
added. `MarkLostOnlyAcrossKeys` states both directions of this as its exception.

**A reconcile can undo the drift flag of a read** (`active_read`).
`reconcileWithContext` upserts the row it read before its Git calls. `getActive`
writes `recovery-required` without a key in the meantime; the reconcile then
writes the older state, a transition (`recovery-required` to `handoff-ready`)
outside the table that the comment on that function promises to respect. The
next reconcile flags the row again.

**A resume can pass over a lost frame** (`events_gap`). `replay` compares the
cursor with the oldest retained frame only. Eviction takes lossy frames from
behind retained critical ones, so a browser whose last frame was lossy resumes
without hearing of the next one, against the comment on `replay`. `LiveIsCurrent`
shows what does hold: no frame that is still retained is skipped.

**A later success hides a failed mutation** (`edit_idle`). `completeRecord` keeps
only the latest outcome, and `waitForIdle` answers `idle-succeeded` although an
earlier claimed mutation failed, against the doc of that outcome.

Two further observations, without a run. `makeCapacity` says that the terminal
containment fact is never dropped; that is true of the first containment frame
(`ContainmentRecorded`), while a second one, such as a revision of a settled run,
can be refused when the reserve is taken. And `discardUnclaimedLease` ends the lease when
the HTTP client gives up, while the queued action stays until its review or its
timeout; a review then finds no lease, so nothing is written (`OutcomeIsTheTree`).

## Proofs

All proofs are of the specifications the runs check, for every value of the
constants that meets the named assumption of the module. The assumptions say that
`None` differs from the values it stands beside, that limits are natural numbers,
and what is listed below.

**`WorkspaceMutexProofs`**: `TypeCorrect`, `Exclusive`, `ArrivalOrder`,
`NoLeakedTail`, `Refinement`. Exclusion is not inductive: a call waits only for the tails it
captured, not for everybody ahead of it. The invariant therefore says (`ChainInv`)
that behind every live earlier arrival on a key a call has a live captured
predecessor on that key that is at least as late, (`TailInv`, `TailOwned`) that a
key's tail is the latest live arrival on it, (`TicketInv`) that tickets are distinct
and below the clock, and (`RunInv`) that a running call's predecessors have been
released. A running call with a live earlier arrival would contradict the first
and the last. By the same argument a call is granted exactly when nobody it shares
a key with is ahead of it any more (`NobodyAhead`), which is the step of the
refinement of `KeyedLock` that is not immediate. `ArrivalOrder` states
`FirstComeFirstServed`, a consequence of that refinement which no run checks
separately.

**`TaskWorkspaceProofs`**: `TypeCorrect`, `PlaceholderTheorem`,
`RepairUnlocksTheorem`, `PointerTheorem`, `MarkTheorem`, `RevivalTheorem`, all
under the keys the code takes. `IInv` says of each row and each flow that a bindable
row, stored or carried, has a real identity (`RowSound`), and that a flow knows its
workspace, its actor and the row it read as long as it needs them (`FlowSound`).
A flow cannot rely on the stored row being the one it read, since a provision and a
read may have written it. What it can rely on is `SInv`: two holders of `ws:` of one
workspace never overlap, nor do two provisions (`WorkspaceExclusive`,
`RepositoryExclusive`); only a holder of `ws:` deletes a row, so it stays while
another flow holds it (`RowHeld`); and a workspace whose row a flow has read as
paused or abandoned is not advertised before that flow is done, nor is a pending
flip about to (`ParkedUnadvertised`), which is what makes `PointerNeverParked`
inductive: the flow may still write the parked row back. A provision that finalizes
beside it makes the row active again, when no flip is pending (`FlipsDone`).
`Fits` says how a step of one flow meets the keys, the row and the pointer the
others rely on; each action has a lemma that it fits, and the marks and the
revivals follow from what a fitting step may write.

**`MutationJournalProofs`**: `JournalTypeCorrect` (every row satisfies the table's
constraints), `Truthful`, `AtMostOnce`, `OneOpenEffect`, `HeldBounded`, `Refinement`.
Assumed of the constants: the sources are the three kinds, exactly the native ones
belong to a tool call, the invocations are finitely many. `Sound(i)` collects what
links a record, its caller and the provider: no effect without a dispatched record; a
recorded success was applied and a recorded refusal was not; a Jira call that still
waits is the only writer of its record; a document speaks of a refused request;
only refused records are retired. `OneLiveRecord` (two records that are not retired
are never of one action) gives at-most-once: a retry is admitted only behind a
retired, hence refused, record. `OneUnresolvedEffect` is kept because a request
leaves only when no other record is dispatched or uncertain, and an open effect
always has such a record. The bound is kept because only `prepare` adds a write
that counts: every other step writes only rows that counted already, settled rows
being final (`OnlyOpenRows`). The refinement of `GovernedWrite` takes `IInv` and asks
of each step what it tells: `beginDispatch` is `Send`, because its barrier sees every
record that is told unknown, and an action applied before has a live record of its
own; an answer and a caller's settlement are `Learn`, `Decline` or `Confirm`; a
completion report is `ConfirmCall` or nothing; and the twin's release, the recovery
of a run and a crash tell nothing new, since they store what was told of the row
already (`RetainedStory`). `OneOpenEffect` states `OneUnresolvedEffect`, which `Send`
contains and no run checks separately.

**`InvocationRegistryProofs`**: `TypeCorrect`, `ExecutedOnceTheorem`,
`RunningStoppableTheorem`, `BytesAccountedTheorem`. The two indexes agree and own an
action id and a key once (`IndexesAgree`); what is staged, taken or buried is indexed
(`Indexed`); a staged identity is new (`StagedIsNew`); what was executed is in a tombstone or the filter,
or its run is refused or forgotten (`TakenRemembered`); and a refused run holds nothing
(`RefusedHoldsNothing`). A second execution would have to be staged past one of them.
The counter is the sum of what is staged and taken (`Accounted`): every drop is the
same split of that sum (`WithoutHeld`), and a take moves an entry's bytes from one
part to the other. Finitely many bytes are held even of infinitely many identities,
which is why `Accounted` speaks of finite units and not of finite sets.

**`EditorMutationProofs`**: `TypeCorrect`, `OutcomeTheorem`,
`NobodyWaitsInVainTheorem`, `RevokedRunTheorem` and `Refinement`, that every step of
the detailed specification is an `Apply`, an `Answer` or a stutter of `GovernedEdit`.
A lease exists only between registration and outcome (`LeaseIsOpen`), an edit not yet
sent is nowhere else (`UnsentIsUntouched`), the answer is the last step
(`AnswerIsLast`). Every operation that ends leases is `Release` of a set of them, so
one lemma serves commit, discard, cancel, revoke and dispose.

**`GatewayResilienceProofs`**: `TypeCorrect`, `ProbeSlotsOwnedTheorem`,
`NoLostWakeupTheorem`, `WindowedIsHeldTheorem`, `ProbesDecideTheorem`, for finitely many
calls that start early enough to end within the clock's bound. Exactly the calls
with the provider hold an admission (`AdmissionsHeld`), and one of the current
generation is a probe exactly when the breaker probes (`AdmissionsDated`), so a settled
admission of an earlier generation cannot touch slots or proof; `ProofCounted` ties
the answers given to the answers wanted.

**`RuntimeEventsProofs`**: `TypeCorrect`, `ContainmentIsRecorded`, `ReadsInOrderOnce`,
`ConnectedIsCurrent`, `RetryPhaseOwned`, `CriticalStays`, for any limits, sizes of frames, browsers and calls
and every bound on what is published. The order of what a browser read is not
inductive alone: it has to be known that everything it read lies below the number the
hub gives next, and that below what it read no frame still retained was skipped
(`Readers`), or a replay could insert an older one. A connected browser has read
all that is retained (`Connected`). What a publication does to the buffer is said once, for
every eviction, demotion and refusal (`Published`, `Shrunk`): evictions take no lasting
frame and show no retry that was not shown, and a refusal for want of room has dropped
every lossy frame, retries among them, so the phase belongs to a live run
(`RetryVisible`). That `replay` lists the frames in order rests on `EnumerationExists`,
proved from a least counterexample (`LeastNumber`). Pruning frees a run's numbers, so
from then on only the past is spoken of.

That a contained run shows it (`ContainmentRecorded`) is not inductive either: it has
to be known before the run ends that there will be room. `Hub` says that the counter
is the sum of the retained frames, within both limits, and that as long as no frame
contains the run, the critical frames leave one place and the bytes of a status
(`Reserved`). Dropping the lossy frames then makes room for the one that matters
(`ReserveServes`), and `PublishHub` carries this through every publication. Assumed of
the constants: at least two places, a status no larger than any other frame, and no
frame larger than half of the buffer.

**`TotalsProofs`**: what an addition, a removal, a renaming and a change of one size
do to a total, cited by the two modules above.

Only model-checked: the liveness properties (`EveryCallRuns`, `FlowsFinish`,
`PayloadReleased`, `EveryWaitEnds`, `EveryCallEnds`), because neither fairness nor
ENABLED is in the prover's reach. Every other property of a passing run is a
theorem.

## Not modelled

The map covers a small share of the repository's lines, and has to: of its 1.3
million lines the greater part is the web interface, contracts (tens of thousands
of generated lines of activity-log descriptors among them), validation, retrieval
and scoring, prompt and report text, protocol clients and tests. There is no state
machine in them whose steps interleave; a model would restate the data.

Within the modelled parts, what is left out is said at the head of each module and
in `PROJECT.json`: HEAD and branch facts, path containment and retired identity
schemas of the workspaces; the SQL behind the stores; digests and false positives of
the registry's filter; the other action kinds of the editor queue; what else the
orchestrator does; the steered answer repair, stream reading and announcements of
the gateway. Session leases, approvals, wakes and description jobs have state
machines of their own and are in the plan.

Two hazards have no property. A removal that throws leaves its cleanup lock to
expire, a matter of the clock that the workspace model reduces to `ExpireLock`
without fairness. And the orphan sweep deletes a directory two awaits after it
looked at the store: the model reaches a sweep that removes the tree a provision
has just added, but the code states no promise it would break, and the next read
flags the row.

## Plan

1. Done: the mutex, the workspaces and the journal with their proofs; the
   invocation registry, the editor's edit path with its abstract specification
   and refinement, the event hub, the gateway's breaker.
2. Next: the approval stores, composed with the journal's guard; the session
   leases and single-flight operations of a run, with an abstract one-holder
   specification; the scheduled wakes over a restart.
3. Done: the abstract lock that `WorkspaceMutex` implements and the governed write
   that `MutationJournal` implements, each with its refinement proved.
4. `TaskWorkspace` over `KeyedLock` instead of the sections it now reads off its
   flows, with the exclusion it uses as a refinement.
5. The orphan sweep against a provision of the same leaf, once the sweep's promise
   is stated; the wait for a cleanup lock's expiry.
