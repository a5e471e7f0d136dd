---------------------------- MODULE RuntimeEvents ----------------------------
(***************************************************************************)
(* The replay buffer of one coding run and everything that talks to it:    *)
(*                                                                         *)
(*   - the hub (coding-runtime/codingRuntimeEventHub.ts), a bounded buffer *)
(*     of frames with a reserve for the frame that contains the run;       *)
(*   - the orchestrator's projection of the run's state onto the hub       *)
(*     (coding-runtime/codingRuntimeOrchestrator.ts), which moves a run    *)
(*     whose frame was refused to recovery-required;                       *)
(*   - the model gateway's turn failures and retry facts                   *)
(*     (coding-sidecar-gateway.ts);                                        *)
(*   - the browsers that follow the run (codingRuntimeRoutes.ts), which    *)
(*     lose their connection and resume from the last frame they read.     *)
(*                                                                         *)
(* Every operation runs without an await, so it is one step.  A frame is   *)
(* its sequence number, the run state it was published in, its kind and    *)
(* whether it may be evicted; frames enter in sequence order, so a set of  *)
(* them is the buffer's list.  Input validation and cursors of another run *)
(* are left out: a cursor is one the browser was given for this run.       *)
(***************************************************************************)
EXTENDS Integers, Sequences, FiniteSets, FiniteSetsExt, SequencesExt, Totals

CONSTANTS
    Clients,        \* browsers
    Calls,          \* model calls the gateway serves for the run
    MaxEvents,      \* CODING_RUNTIME_EVENT_HUB_MAX_EVENTS
    MaxBytes,       \* CODING_RUNTIME_EVENT_HUB_MAX_BYTES
    MaxSubscribers, \* CODING_RUNTIME_EVENT_HUB_MAX_SUBSCRIBERS
    FrameBytes,     \* FrameBytes[k]: encoded size of a frame of kind k
    RunStates,      \* the run states explored
    MaxFrames       \* bound: frames published in a behaviour

TerminalStates == {"succeeded", "failed", "cancelled", "taken-over"}

FrameKinds == {"status", "tool-event", "failure-redacted", "model-gateway-retrying",
               "model-gateway-recovered", "model-gateway-retry-stopped"}

(* The rows of LEGAL_TRANSITIONS a started run can use.                     *)
LegalTransitions ==
    [s \in {"starting", "ready", "running", "paused", "awaiting-approval", "stopping",
            "recovery-required"} \cup TerminalStates |->
        CASE s = "starting" -> {"ready", "stopping", "failed", "cancelled", "taken-over",
                                "recovery-required"}
          [] s = "ready" -> {"running", "stopping", "failed", "taken-over", "recovery-required"}
          [] s = "running" -> {"paused", "awaiting-approval", "stopping", "succeeded", "failed",
                               "taken-over", "recovery-required"}
          [] s = "paused" -> {"running", "awaiting-approval", "stopping", "failed", "taken-over",
                              "recovery-required"}
          [] s = "awaiting-approval" -> {"running", "stopping", "failed", "taken-over",
                                         "recovery-required"}
          [] s = "stopping" -> {"cancelled", "succeeded", "failed", "recovery-required"}
          [] s \in TerminalStates -> {"recovery-required"}
          [] s = "recovery-required" -> {}]

ASSUME EventConstants ==
    /\ MaxEvents \in Nat \ {0, 1}
    /\ MaxBytes \in Nat
    /\ MaxSubscribers \in Nat \ {0}
    /\ MaxFrames \in Nat
    /\ FrameBytes \in [FrameKinds -> Nat \ {0}]
    /\ RunStates \subseteq DOMAIN LegalTransitions
    /\ {"running", "recovery-required"} \subseteq RunStates
    (* The reserve holds for a frame that contains the run only when it is *)
    (* no larger than the frames the reserve is computed from.             *)
    /\ \A k \in FrameKinds : FrameBytes["status"] <= FrameBytes[k] /\ 2 * FrameBytes[k] <= MaxBytes

VARIABLES
    state,      \* the run's durable state, or "pruned" once its row is deleted
    hub,        \* the run's buffer
    subs,       \* browsers the hub writes to
    received,   \* received[c]: sequence numbers c read, since it last started afresh
    acked,      \* acked[c]: how many of them it had read when it last connected
    calls       \* calls[m]: "idle", or in flight with its retry fact "closed" or "open"

vars == <<state, hub, subs, received, acked, calls>>

Contained(s) == s \in TerminalStates \cup {"recovery-required"}
Live(s) == s \in {"running", "paused"}

--------------------------------------------------------------------------
(* The hub.                                                                *)

NewRun == [next |-> 0, frames |-> {}, bytes |-> 0, terminal |-> FALSE]

(* How the hub judges a frame.  No publisher sends the kinds               *)
(* runtime-stopped and permission-requested: the orchestrator makes either *)
(* a transition (ingestActiveEvent).  None gives a frame the failureCode   *)
(* revoked, which would make it critical too.                              *)
IsTerminal(s, k) == s \in TerminalStates \/ k = "runtime-stopped"
IsContainment(s, k) == IsTerminal(s, k) \/ s = "recovery-required"
IsCritical(s, k) ==
    \/ IsContainment(s, k)
    \/ s = "awaiting-approval"
    \/ k \in {"permission-requested", "failure-redacted"}

BytesOf(fs) == Total([f \in fs |-> FrameBytes[f.kind]], fs)
Critical(fs) == {f \in fs : f.critical}

RemoveLossyNoAccounting(h) == [h EXCEPT !.frames = Critical(h.frames)]
RemoveLossy(h) == [h EXCEPT !.frames = Critical(h.frames),
                            !.bytes = @ - BytesOf(h.frames \ Critical(h.frames))]

DemotePriorTurnFailures(h) ==
    [h EXCEPT !.frames = {IF f.kind = "failure-redacted" THEN [f EXCEPT !.critical = FALSE] ELSE f :
                          f \in h.frames}]

(* The buffer after the eviction of every lossy frame before sequence n.   *)
KeepFromAny(h, n) ==
    LET gone == {f \in h.frames : f.seq < n}
    IN [h EXCEPT !.frames = @ \ gone, !.bytes = @ - BytesOf(gone)]
KeepFrom(h, n) ==
    LET gone == {f \in h.frames : ~f.critical /\ f.seq < n}
    IN [h EXCEPT !.frames = @ \ gone, !.bytes = @ - BytesOf(gone)]

HasRoom(h, f) == Cardinality(h.frames) < MaxEvents /\ h.bytes + FrameBytes[f.kind] <= MaxBytes

ReserveTakenLate(h, f) ==
    /\ f.critical /\ ~IsContainment(f.state, f.kind)
    /\ \/ Cardinality(Critical(h.frames)) >= MaxEvents
       \/ BytesOf(Critical(h.frames)) + FrameBytes[f.kind] > MaxBytes
ReserveTaken(h, f) ==
    /\ f.critical /\ ~IsContainment(f.state, f.kind)
    /\ \/ Cardinality(Critical(h.frames)) >= MaxEvents - 1
       \/ BytesOf(Critical(h.frames)) + 2 * FrameBytes[f.kind] > MaxBytes

(* makeCapacity: evicts lossy frames oldest first until f fits.  A refusal *)
(* by the loop has evicted all of them.                                    *)
MakeCapacity(h, f) ==
    LET cuts == {n \in 0 .. h.next : HasRoom(KeepFrom(h, n), f)}
    IN CASE ReserveTaken(h, f) -> [ok |-> FALSE, hub |-> h]
         [] ~ReserveTaken(h, f) /\ cuts = {} -> [ok |-> FALSE, hub |-> KeepFrom(h, h.next)]
         [] OTHER -> [ok |-> TRUE, hub |-> KeepFrom(h, Min(cuts))]

(* publish up to the fan-out.                                              *)
Publish(h, s, k) ==
    LET f == [seq |-> h.next, state |-> s, kind |-> k, critical |-> IsCritical(s, k)]
        cleared == IF IsContainment(s, k) THEN RemoveLossy(h) ELSE h
        demoted == IF k = "failure-redacted" THEN DemotePriorTurnFailures(cleared) ELSE cleared
        room == MakeCapacity(demoted, f)
    IN IF room.ok
       THEN [ok |-> TRUE, hub |-> [next |-> h.next + 1, frames |-> room.hub.frames \cup {f},
                                   bytes |-> room.hub.bytes + FrameBytes[k],
                                   terminal |-> IsTerminal(s, k)]]
       ELSE room

(* fanOut: the frame with sequence n goes to every subscriber.  The write  *)
(* of a stalled one fails, which closes it; the frame may reach it anyway. *)
FanOutKeepsStalled(n, terminal) ==
    \E stalled \in SUBSET subs :
        /\ received' = [c \in Clients |-> IF c \in subs \ stalled
                                          THEN Append(received[c], n) ELSE received[c]]
        /\ subs' = IF terminal THEN {} ELSE subs
FanOut(n, terminal) ==
    \E stalled \in SUBSET subs : \E late \in SUBSET stalled :
        /\ received' = [c \in Clients |-> IF c \in (subs \ stalled) \cup late
                                          THEN Append(received[c], n) ELSE received[c]]
        /\ subs' = IF terminal THEN {} ELSE subs \ stalled

NewestIsRetrying(h) ==
    \E f \in h.frames : f.kind = "model-gateway-retrying" /\ \A g \in h.frames : g.seq <= f.seq

(* One publication p, with its fan-out when the hub took the frame.        *)
Emit(p) ==
    /\ hub' = p.hub
    /\ IF p.ok THEN FanOut(hub.next, p.hub.terminal) ELSE UNCHANGED <<received, subs>>
    /\ UNCHANGED acked

--------------------------------------------------------------------------
(* The orchestrator's projection.                                          *)

MayPublish == state # "pruned" /\ hub.next < MaxFrames

(* transition to recovery-required after a refused publication p.          *)
RecoverFrom(p) ==
    /\ state' = "recovery-required"
    /\ Emit(Publish(p.hub, "recovery-required", "status"))

Transition(to) ==
    /\ MayPublish
    /\ to \in LegalTransitions[state] \cap RunStates
    /\ LET p == Publish(hub, to, "status")
       IN IF p.ok \/ Contained(to)
          THEN state' = to /\ Emit(p)
          ELSE RecoverFrom(p)
    /\ UNCHANGED calls

(* publishOrRecover of an ordinary runtime event of the active run.        *)
PublishOrRecover ==
    /\ MayPublish
    /\ ~Contained(state)
    /\ LET p == Publish(hub, state, "tool-event")
       IN IF p.ok THEN state' = state /\ Emit(p) ELSE RecoverFrom(p)
    /\ UNCHANGED calls

(* advanceRevision: a new revision of a run in the state it is in, a       *)
(* settled one included (an undo).                                         *)
AdvanceRevision ==
    /\ MayPublish
    /\ LET p == Publish(hub, state, "status")
       IN IF p.ok \/ state = "recovery-required"
          THEN state' = state /\ Emit(p)
          ELSE RecoverFrom(p)
    /\ UNCHANGED calls

(* pruneSettled of a settled run the ledger no longer keeps: deleteRuns.   *)
PruneSettled ==
    /\ state \in TerminalStates
    /\ state' = "pruned"
    /\ hub' = NewRun
    /\ subs' = {}
    /\ UNCHANGED <<received, acked, calls>>

--------------------------------------------------------------------------
(* The gateway's calls for the run.                                        *)

CallStarts(m) ==
    /\ calls[m] = "idle" /\ Live(state)
    /\ calls' = [calls EXCEPT ![m] = "closed"]
    /\ UNCHANGED <<state, hub, subs, received, acked>>

(* surfaceGatewayRetry: a fact about a run that can still show a status.   *)
Surface(fact) ==
    IF Live(state) /\ ~hub.terminal
    THEN Emit(Publish(hub, state, fact))
    ELSE UNCHANGED <<hub, subs, received, acked>>

(* The call hears that it is retried or held: one retrying fact, repeated  *)
(* when a later frame has ended the phase.                                 *)
HearRetry(m) ==
    /\ calls[m] # "idle" /\ MayPublish
    /\ ~(calls[m] = "open" /\ NewestIsRetrying(hub))
    /\ Live(state) /\ ~hub.terminal
    /\ LET p == Publish(hub, state, "model-gateway-retrying")
       IN Emit(p) /\ calls' = [calls EXCEPT ![m] = IF p.ok THEN "open" ELSE @]
    /\ UNCHANGED state

(* The call was answered after it had shown a retry.                       *)
HearAnswerSilently(m) ==
    /\ calls[m] = "open" /\ hub.next < MaxFrames
    /\ calls' = [calls EXCEPT ![m] = "closed"]
    /\ UNCHANGED <<state, hub, subs, received, acked>>
HearAnswer(m) ==
    /\ calls[m] = "open" /\ hub.next < MaxFrames
    /\ calls' = [calls EXCEPT ![m] = "closed"]
    /\ Surface("model-gateway-recovered")
    /\ UNCHANGED state

(* reportGatewayTurnFailure: the call failed for good.                     *)
ReportTurnFailure(m) ==
    /\ calls[m] # "idle" /\ MayPublish
    /\ Live(state) /\ ~hub.terminal
    /\ Emit(Publish(hub, state, "failure-redacted"))
    /\ UNCHANGED <<state, calls>>

(* The route is done with the call: a retry fact still shown is closed.    *)
CallEnds(m) ==
    /\ calls[m] # "idle" /\ hub.next < MaxFrames
    /\ calls' = [calls EXCEPT ![m] = "idle"]
    /\ IF calls[m] = "open" /\ NewestIsRetrying(hub)
       THEN Surface("model-gateway-retry-stopped")
       ELSE UNCHANGED <<hub, subs, received, acked>>
    /\ UNCHANGED state

--------------------------------------------------------------------------
(* The browsers.                                                           *)

(* The sequence numbers S in the order of the buffer's list.               *)
InOrder(S) ==
    CHOOSE q \in [1 .. Cardinality(S) -> S] :
        ToSet(q) = S /\ \A i, j \in 1 .. Cardinality(S) : i < j => q[i] < q[j]

(* replay: the retained frames after the cursor, in order.                 *)
ReplayFromCursor(h, cursor) == InOrder({f.seq : f \in {g \in h.frames : g.seq >= cursor}})
Replay(h, cursor) == InOrder({f.seq : f \in {g \in h.frames : g.seq > cursor}})

Cursor(c) == IF received[c] = <<>> THEN -1 ELSE Last(received[c])
Evicted(h, cursor) == h.frames # {} /\ \A f \in h.frames : cursor < f.seq

(* subscribe from the cursor, of a browser that had read the frames had.   *)
(* All frames are written, or the n-th write fails and closes the browser; *)
(* a terminal run's stream closes behind the last frame.                   *)
Attach(c, had, cursor) ==
    LET frames == Replay(hub, cursor)
    IN /\ acked' = [acked EXCEPT ![c] = Len(had)]
       /\ \/ /\ received' = [received EXCEPT ![c] = had \o frames]
             /\ subs' = IF hub.terminal THEN subs ELSE subs \cup {c}
          \/ \E n \in 0 .. Len(frames) - 1 :
                /\ received' = [received EXCEPT ![c] = had \o SubSeq(frames, 1, n)]
                /\ UNCHANGED subs

Connectable(c) == state # "pruned" /\ c \notin subs /\ Cardinality(subs) < MaxSubscribers

Connect(c) ==
    /\ Connectable(c)
    /\ Attach(c, <<>>, -1)
    /\ UNCHANGED <<state, hub, calls>>

Resume(c) ==
    /\ Connectable(c)
    /\ Cursor(c) # -1
    /\ ~Evicted(hub, Cursor(c))
    /\ Attach(c, received[c], Cursor(c))
    /\ UNCHANGED <<state, hub, calls>>

(* The resume is refused as cursor-evicted: the browser starts afresh.     *)
ResumeReset(c) ==
    /\ Connectable(c)
    /\ Cursor(c) # -1
    /\ Evicted(hub, Cursor(c))
    /\ received' = [received EXCEPT ![c] = <<>>]
    /\ acked' = [acked EXCEPT ![c] = 0]
    /\ UNCHANGED <<state, hub, subs, calls>>

(* The connection breaks; frames written on it may be lost, newest first.  *)
Disconnect(c) ==
    /\ c \in subs
    /\ subs' = subs \ {c}
    /\ \E n \in acked[c] .. Len(received[c]) :
          received' = [received EXCEPT ![c] = SubSeq(@, 1, n)]
    /\ UNCHANGED <<state, hub, acked, calls>>

--------------------------------------------------------------------------
Init ==
    /\ state = "running"
    /\ hub = NewRun
    /\ subs = {}
    /\ received = [c \in Clients |-> <<>>]
    /\ acked = [c \in Clients |-> 0]
    /\ calls = [m \in Calls |-> "idle"]

Next ==
    \/ \E to \in RunStates : Transition(to)
    \/ PublishOrRecover
    \/ AdvanceRevision
    \/ PruneSettled
    \/ \E m \in Calls : CallStarts(m)
    \/ \E m \in Calls : HearRetry(m)
    \/ \E m \in Calls : HearAnswer(m)
    \/ \E m \in Calls : ReportTurnFailure(m)
    \/ \E m \in Calls : CallEnds(m)
    \/ \E c \in Clients : Connect(c)
    \/ \E c \in Clients : Resume(c)
    \/ \E c \in Clients : ResumeReset(c)
    \/ \E c \in Clients : Disconnect(c)

Spec == Init /\ [][Next]_vars

--------------------------------------------------------------------------
Frames == [seq : Nat, state : RunStates, kind : FrameKinds, critical : BOOLEAN]

(* The shape of the buffer, of what the browsers read and of the calls.    *)
(* Neither retention bound is ever exceeded, and the byte counter that the *)
(* evictions decrement frame by frame never drifts from the frames kept.   *)
TypeOK ==
    /\ state \in RunStates \cup {"pruned"}
    /\ hub.frames \subseteq Frames /\ hub.next \in Nat /\ hub.terminal \in BOOLEAN
    /\ Cardinality(hub.frames) <= MaxEvents
    /\ hub.bytes = BytesOf(hub.frames) /\ hub.bytes <= MaxBytes
    /\ subs \subseteq Clients
    /\ received \in [Clients -> Seq(Nat)]
    /\ \A c \in Clients : acked[c] \in 0 .. Len(received[c])
    /\ calls \in [Calls -> {"idle", "closed", "open"}]

(* Whatever reconnects, lost tails and evictions happened, a browser reads *)
(* each frame at most once and in publication order.                       *)
InOrderOnce ==
    \A c \in Clients : \A i, j \in 1 .. Len(received[c]) : i < j => received[c][i] < received[c][j]

(* A connected browser has read every frame the buffer retains, so no      *)
(* resume skips an approval, a failure or a containment frame; and it is   *)
(* connected to a stream that goes on, not to one that has ended.          *)
LiveIsCurrent ==
    \A c \in subs : /\ \A f \in hub.frames : f.seq \in ToSet(received[c])
                    /\ ~hub.terminal /\ state # "pruned"

(* The reserve works: however many approvals saturate the buffer, a run    *)
(* that is settled or needs recovery has a frame saying so.                *)
ContainmentRecorded ==
    Contained(state) => \E f \in hub.frames : Contained(f.state)

(* The Workbench names a gateway retry while it is the newest frame; that  *)
(* never outlives the calls that are being retried.                        *)
RetryPhaseHasCall == NewestIsRetrying(hub) => \E m \in Calls : calls[m] = "open"

(* An approval or containment frame, once published, is retained as long   *)
(* as the run is.                                                          *)
CriticalKept ==
    [][\A f \in hub.frames : f.critical /\ f.kind # "failure-redacted" /\ state' # "pruned"
            => f \in hub'.frames]_vars

(* replay: "Resume is valid only from a retained event. Treating a gap as  *)
(* replayable risks silently claiming continuity after a lossy eviction":  *)
(* a cursor the hub resumes from is one of a frame it retains, or at least *)
(* no frame published after it is lost.                                    *)
ResumeFromRetained ==
    \A c \in Clients : Connectable(c) /\ Cursor(c) # -1 /\ ~Evicted(hub, Cursor(c))
        => \/ \E f \in hub.frames : f.seq = Cursor(c)
           \/ \A n \in Cursor(c) + 1 .. hub.next - 1 : \E f \in hub.frames : f.seq = n
=============================================================================
