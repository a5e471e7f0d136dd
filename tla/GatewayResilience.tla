-------------------------- MODULE GatewayResilience --------------------------
(***************************************************************************)
(* One provider's circuit breaker and the calls that share it              *)
(* (keiko-model-gateway/src/resilience.ts, with the buffered attempt of    *)
(* gateway.ts): each call asks for admission, may wait for it, tries the   *)
(* provider, settles its admission and backs off or ends.                  *)
(*                                                                         *)
(* A turn of the event loop is a step.  An admission is asked for in the   *)
(* turn that starts the attempt; a waiter resumes in a later turn than the *)
(* timer or the notification that woke it, and timers may be late.  Errors *)
(* are reduced to what the breaker and the retry rules distinguish, jitter *)
(* and backoff to their least step.  The steered answer repair, which only *)
(* the calls that ask for it have, and the read of a stream are left out.  *)
(***************************************************************************)
EXTENDS Naturals, FiniteSets

CONSTANTS
    Calls,             \* calls of one provider
    None,              \* no admission, no opening time
    Windowed,          \* the calls that carry outagePolicy "outage-window"
    Window,            \* codingOutageWindowMs
    FailureThreshold,  \* circuitBreaker.failureThreshold
    HalfOpenProbes,    \* circuitBreaker.halfOpenProbes
    Cooldown,          \* circuitBreaker.cooldownMs
    RetryAfter,        \* the cooldown a provider announces
    MaxRetries,        \* provider.maxRetries
    Budget,            \* the end-to-end budget of a call without a window
    MaxStart,          \* bound: no call starts later
    MaxTime            \* bound: the clock

CallBudget(c) == IF c \in Windowed THEN Budget + Window ELSE Budget

ASSUME ResilienceConstants ==
    /\ IsFiniteSet(Calls) /\ Windowed \subseteq Calls
    /\ {FailureThreshold, HalfOpenProbes, Cooldown, RetryAfter, Budget, Window} \subseteq Nat \ {0}
    /\ {MaxRetries, MaxStart, MaxTime} \subseteq Nat
    /\ \A c \in Calls : MaxStart + CallBudget(c) <= MaxTime
    /\ None \notin Nat /\ None \notin [generation : Nat, halfOpen : BOOLEAN]

VARIABLES
    now,       \* the clock
    breaker,   \* the CircuitBreaker of the provider
    call,      \* call[c]: where the call is
    notified,  \* the waiting calls whose notify has run
    proof      \* history: successes of the probes of the current half-open generation

vars == <<now, breaker, call, notified, proof>>

Admission == [generation : Nat, halfOpen : BOOLEAN]
Breaker == [state : {"closed", "open", "half-open"}, generation : Nat, failures : Nat,
            openedAt : Nat \cup {None}, probesRemaining : Nat, probesInFlight : Nat,
            cooldownUntil : Nat]
Call == [pc : {"idle", "waiting", "calling", "backoff", "ended"},
         result : {"none", "answered", "failed", "budget", "circuit-open", "cancelled"},
         start : Nat, attempt : Nat,
         named : BOOLEAN,        \* the previous error carries a retryAfterMs
         recovering : BOOLEAN,   \* this admission waits through an open breaker
         until : Nat,            \* when this admission must have been granted
         wake : Nat,             \* when the timer of a wait or of a backoff fires
         reason : {"none", "provider-cooldown", "circuit-cooldown", "probe-saturated"},
         admission : Admission \cup {None}]

Minimum(x, y) == IF x <= y THEN x ELSE y
Maximum(x, y) == IF x <= y THEN y ELSE x

Idle == [pc |-> "idle", result |-> "none", start |-> 0, attempt |-> 1, named |-> FALSE,
         recovering |-> FALSE, until |-> 0, wake |-> 0, reason |-> "none", admission |-> None]

--------------------------------------------------------------------------
(* The breaker, as a value.                                                *)
Open(b) == [b EXCEPT !.state = "open", !.generation = @ + 1, !.openedAt = now,
                     !.probesRemaining = 0, !.probesInFlight = 0]
Close(b) == [b EXCEPT !.state = "closed", !.generation = @ + 1, !.failures = 0,
                      !.openedAt = None, !.probesRemaining = 0, !.probesInFlight = 0]
EnterHalfOpen(b) == [b EXCEPT !.state = "half-open", !.generation = @ + 1,
                              !.probesRemaining = HalfOpenProbes, !.probesInFlight = 0]

FreeSlot(b) == [b EXCEPT !.probesInFlight = IF @ = 0 THEN 0 ELSE @ - 1]

RecordSuccess(b) ==
    IF b.state # "half-open" THEN [b EXCEPT !.failures = 0]
    ELSE IF b.probesRemaining <= 1 THEN Close(b)
         ELSE [FreeSlot(b) EXCEPT !.probesRemaining = @ - 1]
RecordFailure(b) ==
    IF b.state = "half-open" \/ b.failures + 1 >= FailureThreshold
    THEN Open(IF b.state = "half-open" THEN b ELSE [b EXCEPT !.failures = @ + 1])
    ELSE [b EXCEPT !.failures = @ + 1]
\* Mutant: the slot of a probe that proved nothing stays taken (PR #3602).
KeepSlot(b) == b
RecordNonProviderFault(b) == IF b.state = "half-open" THEN FreeSlot(b) ELSE b

(* What an attempt ends with.  "timeout" and "overload" say the provider   *)
(* is unavailable, the second names a retryAfterMs; "rejected" is a        *)
(* provider failure no retry helps; "malformed" and "unusable" are the     *)
(* model's own output, retried and not; "cancelled" is the caller;         *)
(* "undispatched" is a timeout or a transport error of the prompt's own    *)
(* admission: the provider never saw the attempt, and the breaker counts   *)
(* it as nobody's fault, but the retry rules read the error alone.         *)
Retryable == {"timeout", "overload", "malformed", "undispatched"}
NonProviderErrors == {"malformed", "unusable", "cancelled"}
NonProviderFaults == NonProviderErrors \cup {"undispatched"}

Announce(b, outcome) ==
    IF outcome = "overload" THEN [b EXCEPT !.cooldownUntil = Maximum(@, now + RetryAfter)] ELSE b

CanExtendOutage(b, origin) ==
    ~origin.halfOpen /\ b.state = "open" /\ b.generation = origin.generation + 1

\* Mutant: an admission settles whatever generation is current.
SettleAnyGeneration(b, origin, outcome) ==
    IF outcome = "answer" THEN RecordSuccess(b)
    ELSE IF outcome \in NonProviderFaults THEN RecordNonProviderFault(b)
         ELSE RecordFailure(Announce(b, outcome))
Settle(b, origin, outcome) ==
    IF origin.generation = b.generation
    THEN IF outcome = "answer" THEN RecordSuccess(b)
         ELSE IF outcome \in NonProviderFaults THEN RecordNonProviderFault(b)
              ELSE RecordFailure(Announce(b, outcome))
    ELSE IF CanExtendOutage(b, origin) THEN Announce(b, outcome) ELSE b

\* Mutant: a freed slot is not a change a waiter hears of.
AdmissionStateWithoutSlots(b) == <<b.state, b.openedAt, b.cooldownUntil>>
AdmissionState(b) == <<b.state, b.openedAt, b.probesInFlight, b.cooldownUntil>>

Waiting == {c \in Calls : call[c].pc = "waiting"}

(* Settling an admission notifies every waiter when it changed what they   *)
(* wait for.                                                               *)
SettleAdmission(c, outcome) ==
    LET after == Settle(breaker, call[c].admission, outcome)
        probe == call[c].admission.halfOpen /\ call[c].admission.generation = breaker.generation
    IN /\ breaker' = after
       /\ notified' = IF AdmissionState(after) = AdmissionState(breaker)
                      THEN notified ELSE notified \cup Waiting
       /\ proof' = IF probe /\ outcome = "answer" THEN proof + 1 ELSE proof

--------------------------------------------------------------------------
(* Admission.  A wait is a reason and the time its timer would take;       *)
(* Forever stands for the wait for a probe slot, which has no timer.       *)
Forever == MaxTime + 1
NoWait == [reason |-> "none", delay |-> 0]

CircuitLeft == Cooldown - (now - breaker.openedAt)
Elapsed == breaker.openedAt # None /\ now - breaker.openedAt >= Cooldown

\* Mutant: a saturated half-open breaker is not waited for.
BlockedUnlessProbing(recovering) ==
    IF breaker.cooldownUntil > now
    THEN [reason |-> "provider-cooldown", delay |-> breaker.cooldownUntil - now + 1]
    ELSE IF recovering /\ breaker.state = "open" /\ breaker.openedAt # None /\ ~Elapsed
         THEN [reason |-> "circuit-cooldown", delay |-> CircuitLeft]
    ELSE NoWait
BlockedWait(recovering) ==
    IF breaker.cooldownUntil > now
    THEN [reason |-> "provider-cooldown", delay |-> breaker.cooldownUntil - now + 1]
    ELSE IF ~recovering THEN NoWait
    ELSE IF breaker.state = "open" /\ breaker.openedAt # None /\ ~Elapsed
         THEN [reason |-> "circuit-cooldown", delay |-> CircuitLeft]
    ELSE IF breaker.state = "half-open" /\ breaker.probesInFlight >= HalfOpenProbes
         THEN [reason |-> "probe-saturated", delay |-> Forever]
    ELSE NoWait

(* assertAllowed: the breaker that admits the caller, if any does.         *)
Allowing == IF breaker.state = "open" /\ Elapsed THEN EnterHalfOpen(breaker) ELSE breaker
Allowed == \/ Allowing.state = "closed"
           \/ Allowing.state = "half-open" /\ Allowing.probesInFlight < HalfOpenProbes

Ended(result) == [Idle EXCEPT !.pc = "ended", !.result = result]
EndCall(c, result) == call' = [call EXCEPT ![c] = Ended(result)]

(* One pass of the admission loop for a call whose record is m.            *)
Advance(c, m) ==
    LET blocked == BlockedWait(m.recovering)
        remaining == m.until - now
        inTime == m.until > now
        fits == blocked.delay < remaining \/ blocked.reason = "probe-saturated"
        becomes(r) == call' = [call EXCEPT ![c] = r]
    IN /\ notified' = notified \ {c}
       /\ \/ /\ ~inTime \/ (blocked # NoWait /\ ~fits)
             /\ becomes(Ended("budget"))
             /\ UNCHANGED <<breaker, proof>>
          \/ /\ inTime /\ blocked # NoWait /\ fits
             /\ becomes([m EXCEPT !.pc = "waiting", !.reason = blocked.reason,
                                  !.wake = now + Minimum(blocked.delay, remaining)])
             /\ UNCHANGED <<breaker, proof>>
          \/ /\ inTime /\ blocked = NoWait /\ ~Allowed
             /\ becomes(Ended("circuit-open"))
             /\ UNCHANGED <<breaker, proof>>
          \/ /\ inTime /\ blocked = NoWait /\ Allowed
             /\ LET b == Allowing
                    probing == b.state = "half-open"
                IN /\ breaker' = IF probing THEN [b EXCEPT !.probesInFlight = @ + 1] ELSE b
                   /\ becomes([Idle EXCEPT
                          !.pc = "calling", !.start = m.start, !.attempt = m.attempt,
                          !.admission = [generation |-> b.generation, halfOpen |-> probing]])
                   /\ proof' = IF b.generation = breaker.generation THEN proof ELSE 0

(* The attempt of a call whose record is m: its admission is held to what  *)
(* is left of the budget and, under the policy of the call, of the window. *)
Attempt(c, m) ==
    LET left == m.start + CallBudget(c) - now
        windowLeft == IF m.start + Window > now THEN m.start + Window - now ELSE 1
        admissionBudget == IF c \in Windowed THEN Maximum(1, Minimum(left, windowLeft)) ELSE left
    IN Advance(c, [m EXCEPT
           !.until = now + admissionBudget,
           !.recovering = breaker.cooldownUntil > now \/ c \in Windowed \/ m.named])

--------------------------------------------------------------------------
(* The program.                                                            *)
Init ==
    /\ now = 0
    /\ breaker = [state |-> "closed", generation |-> 0, failures |-> 0, openedAt |-> None,
                  probesRemaining |-> 0, probesInFlight |-> 0, cooldownUntil |-> 0]
    /\ call = [c \in Calls |-> Idle]
    /\ notified = {}
    /\ proof = 0

Start(c) ==
    /\ call[c].pc = "idle" /\ now <= MaxStart
    /\ Attempt(c, [call[c] EXCEPT !.start = now])
    /\ UNCHANGED now

\* Mutant: a waiter has no timer of its own.
WakeNotified(c) ==
    call[c].pc = "waiting" /\ c \in notified /\ Advance(c, call[c]) /\ UNCHANGED now
(* A waiter whose timer fired or whose notify ran looks again.             *)
Wake(c) ==
    /\ call[c].pc = "waiting"
    /\ c \in notified \/ now >= call[c].wake
    /\ Advance(c, call[c])
    /\ UNCHANGED now

Answered(c) ==
    /\ call[c].pc = "calling"
    /\ SettleAdmission(c, "answer")
    /\ EndCall(c, "answered")
    /\ UNCHANGED now

(* recordFailedAttempt: the decision after a failed attempt.               *)
Decision(c, outcome) ==
    LET extended == c \in Windowed /\ outcome \notin NonProviderErrors
        left == call[c].start + CallBudget(c)
        limit == IF extended THEN Minimum(left, call[c].start + Window) ELSE left
        delay == IF outcome = "overload" THEN RetryAfter + 1 ELSE 1
    IN IF outcome \notin Retryable THEN [stop |-> "failed", delay |-> 0]
       ELSE IF ~extended /\ call[c].attempt > MaxRetries THEN [stop |-> "failed", delay |-> 0]
       ELSE IF now + delay >= limit THEN [stop |-> "budget", delay |-> 0]
       ELSE [stop |-> "none", delay |-> delay]

Fails(c, outcome) ==
    LET decision == Decision(c, outcome)
    IN /\ call[c].pc = "calling"
       /\ SettleAdmission(c, outcome)
       /\ IF decision.stop # "none"
          THEN EndCall(c, decision.stop)
          ELSE call' = [call EXCEPT ![c] = [@ EXCEPT
                           !.pc = "backoff", !.admission = None,
                           !.wake = now + decision.delay, !.named = outcome = "overload"]]
       /\ UNCHANGED now

(* The attempt's own bound: the provider never answered.                   *)
TimesOut(c) == Fails(c, "timeout")
ProviderFails(c) == \E outcome \in {"overload", "rejected"} : Fails(c, outcome)
ModelFails(c) == \E outcome \in {"malformed", "unusable"} : Fails(c, outcome)
(* prepareBufferedDispatch fails on the way to the provider.               *)
DispatchFails(c) == Fails(c, "undispatched")

(* The backoff is over: the budget is read again and the next attempt asks.*)
Retry(c) ==
    /\ call[c].pc = "backoff" /\ now >= call[c].wake
    /\ IF now >= call[c].start + CallBudget(c)
       THEN EndCall(c, "budget") /\ UNCHANGED <<breaker, notified, proof>>
       ELSE Attempt(c, [call[c] EXCEPT !.attempt = @ + 1])
    /\ UNCHANGED now

\* Mutant: an aborted wait leaves its notify among the waiters.
CancelKeepsNotify(c) ==
    /\ \/ call[c].pc \in {"waiting", "backoff"} /\ UNCHANGED <<breaker, notified, proof>>
       \/ call[c].pc = "calling" /\ SettleAdmission(c, "cancelled")
    /\ EndCall(c, "cancelled")
    /\ UNCHANGED now
(* The caller's abort signal, before the call has ended.                   *)
Cancel(c) ==
    /\ \/ /\ call[c].pc \in {"waiting", "backoff"}
          /\ notified' = notified \ {c}
          /\ UNCHANGED <<breaker, proof>>
       \/ /\ call[c].pc = "calling"
          /\ SettleAdmission(c, "cancelled")
    /\ EndCall(c, "cancelled")
    /\ UNCHANGED now

Tick == now < MaxTime /\ now' = now + 1 /\ UNCHANGED <<breaker, call, notified, proof>>

Next ==
    \/ Tick
    \/ \E c \in Calls : \/ Start(c) \/ Wake(c) \/ Answered(c) \/ TimesOut(c) \/ ProviderFails(c)
                        \/ ModelFails(c) \/ DispatchFails(c) \/ Retry(c) \/ Cancel(c)

Spec == Init /\ [][Next]_vars

(* Time passes, timers fire and notified waiters resume, and an attempt is *)
(* ended by its own bound if by nothing else.                              *)
Proceed(c) == Wake(c) \/ Retry(c) \/ TimesOut(c)
Fairness == WF_vars(Tick) /\ \A c \in Calls : WF_vars(Proceed(c))
FairSpec == Spec /\ Fairness

--------------------------------------------------------------------------
TypeOK ==
    /\ now \in 0 .. MaxTime
    /\ breaker \in Breaker /\ call \in [Calls -> Call]
    /\ notified \subseteq Waiting
    /\ proof \in Nat

(* The probes of the current half-open generation that hold a slot.        *)
Probing == {c \in Calls : /\ call[c].admission # None /\ call[c].admission.halfOpen
                          /\ call[c].admission.generation = breaker.generation}

(* Every probe slot the half-open breaker counts is held by a probe of its *)
(* generation still with the provider, and by no more than the limit: no   *)
(* outcome of a probe, a cancel included, keeps its slot (the finding the  *)
(* comment of recordNonProviderFault tells of), and no late outcome of an  *)
(* earlier generation frees one.                                           *)
ProbeSlotsOwned ==
    breaker.state = "half-open" =>
        /\ breaker.probesInFlight = Cardinality(Probing)
        /\ breaker.probesInFlight <= HalfOpenProbes

(* A call that sleeps until a probe slot frees, and has not been notified, *)
(* is right to sleep: waitForChange races only notify and the call's own   *)
(* window, so a slot freed without a notify would hold it to its end.      *)
NoLostWakeup ==
    \A c \in Waiting \ notified : call[c].reason = "probe-saturated" =>
        breaker.state = "half-open" /\ breaker.probesInFlight >= HalfOpenProbes

(* The breaker never refuses a call under the outage window: it is held    *)
(* (blockedWait) exactly when assertAllowed would throw.                   *)
WindowedIsHeld == \A c \in Windowed : call[c].result # "circuit-open"

(* Only the probes of a half-open generation decide it: it closes after as *)
(* many of them succeeded as the breaker asks for, and reopens as one of   *)
(* them ends; an answer that outlived its generation decides nothing.      *)
ProbesDecide ==
    [][breaker.state = "half-open" /\ breaker'.state # "half-open" =>
          \/ breaker'.state = "closed" /\ proof' >= HalfOpenProbes
          \/ breaker'.state = "open" /\ \E c \in Probing : call'[c].admission = None]_vars

(* Every call that starts ends: no wait, backoff or attempt outlives the   *)
(* budget of its call for good.                                            *)
EveryCallEnds == \A c \in Calls : call[c].pc # "idle" ~> call[c].pc = "ended"

(* What makes the properties above inductive: exactly the calls with the   *)
(* provider hold an admission, none of a generation still to come, and one *)
(* of the current generation is a probe exactly if the breaker probes; a   *)
(* probing breaker waits for as many answers as are still to be given;     *)
(* an open one knows since when; only an ended call has a result; and a    *)
(* waiting call of the outage window waits through an open breaker.        *)
AdmissionsHeld == \A c \in Calls : call[c].admission # None <=> call[c].pc = "calling"
AdmissionsDated ==
    \A c \in Calls : call[c].admission # None =>
        /\ call[c].admission.generation <= breaker.generation
        /\ call[c].admission.generation = breaker.generation
              => (call[c].admission.halfOpen <=> breaker.state = "half-open")
ProofCounted ==
    breaker.state = "half-open" =>
        breaker.probesRemaining > 0 /\ proof + breaker.probesRemaining = HalfOpenProbes
OpenDated == breaker.state = "open" => breaker.openedAt # None
Undecided == \A c \in Calls : call[c].pc # "ended" => call[c].result = "none"
WindowedRecovers == \A c \in Windowed : call[c].pc = "waiting" => call[c].recovering
IInv == /\ TypeOK /\ AdmissionsHeld /\ AdmissionsDated /\ ProofCounted
        /\ ProbeSlotsOwned /\ NoLostWakeup /\ OpenDated /\ Undecided /\ WindowedRecovers
        /\ WindowedIsHeld
=============================================================================
