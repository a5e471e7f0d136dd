----------------------- MODULE GatewayResilienceProofs -----------------------
(***************************************************************************)
(* Machine-checked proofs about GatewayResilience, for every set of calls, *)
(* every threshold, number of probes, cooldown, window and budget.  IInv   *)
(* is inductive; two lemmas say what the two halves of a call do to it:    *)
(* settling an admission (SettleIInv) and asking for one (AdvanceIInv).    *)
(***************************************************************************)
EXTENDS GatewayResilience, FiniteSetTheorems, TLAPS

(* The fields of a breaker.                                                *)
LEMMA BreakerFields ==
  ASSUME NEW b \in Breaker
  PROVE  /\ b.state \in {"closed", "open", "half-open"}
         /\ b.generation \in Nat /\ b.failures \in Nat /\ b.openedAt \in Nat \cup {None}
         /\ b.probesRemaining \in Nat /\ b.probesInFlight \in Nat /\ b.cooldownUntil \in Nat
  BY DEF Breaker

(* Opening, closing, probing and freeing a slot: what becomes of the type  *)
(* and of the fields the invariant speaks about.                           *)
LEMMA OpenEffect ==
  ASSUME NEW b \in Breaker, now \in Nat
  PROVE  /\ Open(b) \in Breaker
         /\ Open(b).state = "open" /\ Open(b).generation = b.generation + 1
         /\ Open(b).openedAt = now
<1> DEFINE g == b.generation + 1
<1>1. g \in Nat
  BY BreakerFields
<1>2. [[b EXCEPT !.state = "open"] EXCEPT !.generation = g] \in Breaker
  BY <1>1 DEF Breaker
<1>3. Open(b) \in Breaker
  BY <1>1, <1>2 DEF Breaker, Open
<1> QED BY <1>3 DEF Breaker, Open

LEMMA CloseEffect ==
  ASSUME NEW b \in Breaker
  PROVE  /\ Close(b) \in Breaker
         /\ Close(b).state = "closed" /\ Close(b).generation = b.generation + 1
<1> DEFINE g == b.generation + 1
<1>1. g \in Nat
  BY BreakerFields
<1>2. [[b EXCEPT !.state = "closed"] EXCEPT !.generation = g] \in Breaker
  BY <1>1 DEF Breaker
<1>3. Close(b) \in Breaker
  BY <1>1, <1>2 DEF Breaker, Close
<1> QED BY <1>3 DEF Breaker, Close

LEMMA ProbeEffect ==
  ASSUME NEW b \in Breaker
  PROVE  LET h == EnterHalfOpen(b)
         IN /\ h \in Breaker /\ h.state = "half-open" /\ h.generation = b.generation + 1
            /\ h.probesRemaining = HalfOpenProbes /\ h.probesInFlight = 0
<1> DEFINE g == b.generation + 1
<1>1. g \in Nat /\ HalfOpenProbes \in Nat
  BY BreakerFields, ResilienceConstants
<1>2. [[b EXCEPT !.state = "half-open"] EXCEPT !.generation = g] \in Breaker
  BY <1>1 DEF Breaker
<1>3. EnterHalfOpen(b) \in Breaker
  BY <1>1, <1>2 DEF Breaker, EnterHalfOpen
<1> QED BY <1>3 DEF Breaker, EnterHalfOpen

LEMMA FreeSlotEffect ==
  ASSUME NEW b \in Breaker
  PROVE  LET f == FreeSlot(b)
         IN /\ f \in Breaker /\ f.state = b.state /\ f.generation = b.generation
            /\ f.probesRemaining = b.probesRemaining /\ f.openedAt = b.openedAt
            /\ f.probesInFlight = IF b.probesInFlight = 0 THEN 0 ELSE b.probesInFlight - 1
<1> DEFINE k == IF b.probesInFlight = 0 THEN 0 ELSE b.probesInFlight - 1
<1>1. k \in Nat
  BY BreakerFields
<1> QED BY <1>1 DEF Breaker, FreeSlot

LEMMA FailedEffect ==
  ASSUME NEW b \in Breaker
  PROVE  LET f == [b EXCEPT !.failures = @ + 1]
         IN /\ f \in Breaker /\ f.state = b.state /\ f.generation = b.generation
            /\ f.openedAt = b.openedAt
<1> DEFINE k == b.failures + 1
<1>1. k \in Nat
  BY BreakerFields
<1> QED BY <1>1 DEF Breaker

LEMMA AnnounceEffect ==
  ASSUME NEW b \in Breaker, NEW outcome, now \in Nat
  PROVE  LET n == Announce(b, outcome)
         IN /\ n \in Breaker /\ n.state = b.state /\ n.generation = b.generation
            /\ n.probesRemaining = b.probesRemaining /\ n.probesInFlight = b.probesInFlight
            /\ n.openedAt = b.openedAt
<1> DEFINE k == Maximum(b.cooldownUntil, now + RetryAfter)
<1>1. k \in Nat
  BY BreakerFields, ResilienceConstants DEF Maximum
<1> HIDE DEF k
<1>2. LET n == [b EXCEPT !.cooldownUntil = k]
      IN /\ n \in Breaker /\ n.state = b.state /\ n.generation = b.generation
         /\ n.probesRemaining = b.probesRemaining /\ n.probesInFlight = b.probesInFlight
         /\ n.openedAt = b.openedAt
  BY <1>1 DEF Breaker
<1> QED BY <1>2 DEF Announce, k

(* What settling an outcome may make of breaker b, here a: only an         *)
(* admission of the current generation moves it, a probe frees its slot,   *)
(* and a half-open breaker is left by its last answer or by a failure.     *)
Settled(b, origin, outcome, a) ==
    /\ a \in Breaker
    /\ \/ a.generation = b.generation /\ a.state = b.state /\ a.openedAt = b.openedAt
       \/ /\ a.generation = b.generation + 1
          /\ a.state = "closed" \/ (a.state = "open" /\ a.openedAt = now)
    /\ origin.generation # b.generation =>
          /\ a.generation = b.generation
          /\ a.probesRemaining = b.probesRemaining /\ a.probesInFlight = b.probesInFlight
    /\ b.state = "half-open" /\ origin.generation = b.generation =>
          \/ /\ a.generation = b.generation
             /\ a.probesInFlight = IF b.probesInFlight = 0 THEN 0 ELSE b.probesInFlight - 1
             /\ outcome = "answer" => /\ b.probesRemaining > 1
                                      /\ a.probesRemaining = b.probesRemaining - 1
             /\ outcome # "answer" => a.probesRemaining = b.probesRemaining
          \/ a.state = "closed" /\ outcome = "answer" /\ b.probesRemaining <= 1
          \/ a.state = "open"

LEMMA SettleEffect ==
  ASSUME NEW b \in Breaker, NEW origin \in Admission, NEW outcome, now \in Nat
  PROVE  Settled(b, origin, outcome, Settle(b, origin, outcome))
<1> SUFFICES ASSUME NEW a, a = Settle(b, origin, outcome) PROVE Settled(b, origin, outcome, a)
  OBVIOUS
<1> USE DEF Settled
<1> DEFINE n == Announce(b, outcome)
           f == [n EXCEPT !.failures = @ + 1]
<1> b.generation \in Nat /\ b.probesRemaining \in Nat /\ b.probesInFlight \in Nat
    /\ b.state \in {"closed", "open", "half-open"}
  BY BreakerFields
<1>1. /\ n \in Breaker /\ n.state = b.state /\ n.generation = b.generation
      /\ n.probesRemaining = b.probesRemaining /\ n.probesInFlight = b.probesInFlight
      /\ n.openedAt = b.openedAt
  BY AnnounceEffect
<1>2. CASE origin.generation # b.generation
  <2>1. a = n \/ a = b
    BY <1>2 DEF Settle
  <2> HIDE DEF n
  <2> QED BY <1>1, <1>2, <2>1
<1>3. CASE origin.generation = b.generation /\ outcome = "answer"
  <2>1. a = RecordSuccess(b)
    BY <1>3 DEF Settle
  <2>2. CASE b.state # "half-open"
    <3>1. a = [b EXCEPT !.failures = 0]
      BY <2>1, <2>2 DEF RecordSuccess
    <3>2. a \in Breaker /\ a.state = b.state /\ a.generation = b.generation
          /\ a.openedAt = b.openedAt
      BY <3>1 DEF Breaker
    <3> QED BY <1>3, <2>2, <3>2
  <2>3. CASE b.state = "half-open" /\ b.probesRemaining <= 1
    <3>1. a = Close(b)
      BY <2>1, <2>3 DEF RecordSuccess
    <3> QED BY <1>3, <2>3, <3>1, CloseEffect
  <2>4. CASE b.state = "half-open" /\ b.probesRemaining > 1
    <3> DEFINE free == FreeSlot(b)
               k == free.probesRemaining - 1
    <3>1. a = [free EXCEPT !.probesRemaining = k]
      BY <2>1, <2>4 DEF RecordSuccess
    <3>2. /\ free \in Breaker /\ free.state = b.state /\ free.generation = b.generation
          /\ free.probesRemaining = b.probesRemaining /\ free.openedAt = b.openedAt
          /\ free.probesInFlight = IF b.probesInFlight = 0 THEN 0 ELSE b.probesInFlight - 1
      BY FreeSlotEffect
    <3>3. k \in Nat
      BY <2>4, <3>2
    <3> HIDE DEF free
    <3>4. /\ a \in Breaker /\ a.state = free.state /\ a.generation = free.generation
          /\ a.probesRemaining = k /\ a.probesInFlight = free.probesInFlight
          /\ a.openedAt = free.openedAt
      BY <3>1, <3>2, <3>3 DEF Breaker
    <3> QED BY <1>3, <2>4, <3>2, <3>4
  <2> QED BY <2>2, <2>3, <2>4
<1>4. CASE origin.generation = b.generation /\ outcome # "answer" /\ outcome \in NonProviderFaults
  <2>1. a = IF b.state = "half-open" THEN FreeSlot(b) ELSE b
    BY <1>4 DEF Settle, RecordNonProviderFault
  <2> QED BY <1>4, <2>1, FreeSlotEffect
<1>5. CASE origin.generation = b.generation /\ outcome # "answer" /\ outcome \notin NonProviderFaults
  <2>1. a = RecordFailure(n)
    BY <1>5 DEF Settle
  <2>2. f \in Breaker /\ f.state = b.state /\ f.generation = b.generation
        /\ f.openedAt = b.openedAt
    BY <1>1, FailedEffect
  <2>3. \/ b.state = "half-open" /\ a = Open(n)
        \/ b.state # "half-open" /\ (a = Open(f) \/ a = f)
    BY <1>1, <2>1 DEF RecordFailure
  <2>4. /\ Open(n) \in Breaker /\ Open(n).state = "open" /\ Open(n).generation = b.generation + 1
        /\ Open(f) \in Breaker /\ Open(f).state = "open" /\ Open(f).generation = b.generation + 1
        /\ Open(n).openedAt = now /\ Open(f).openedAt = now
    BY <1>1, <2>2, OpenEffect
  <2> HIDE DEF n, f
  <2> QED BY <1>5, <2>2, <2>3, <2>4
<1> QED BY <1>2, <1>3, <1>4, <1>5

(* A call that has ended, for each way to end.                             *)
LEMMA EndedTyped ==
  ASSUME NEW result \in {"answered", "failed", "budget", "circuit-open", "cancelled"}
  PROVE  /\ Ended(result) \in Call /\ Ended(result).pc = "ended"
         /\ Ended(result).result = result /\ Ended(result).admission = None
<1>1. Idle \in Call
  <2>1. FALSE \in BOOLEAN
    BY Zenon
  <2> QED BY <2>1 DEF Idle, Call
<1>2. Idle.admission = None
  BY DEF Idle
<1> QED BY <1>1, <1>2 DEF Ended, Call

(* The probes of the current generation are finitely many.                 *)
LEMMA ProbingFinite == IsFiniteSet(Probing) /\ Cardinality(Probing) \in Nat
<1>1. Probing \in SUBSET Calls /\ IsFiniteSet(Calls)
  BY ResilienceConstants DEF Probing
<1>2. IsFiniteSet(Probing)
  BY <1>1, FS_Subset
<1> QED BY <1>2, FS_CardinalityType

(* Settling the admission of a call that goes on as r keeps the invariant. *)
LEMMA SettleIInv ==
  ASSUME IInv, NEW c \in Calls, NEW outcome, NEW r \in Call,
         call[c].pc = "calling", SettleAdmission(c, outcome),
         call' = [call EXCEPT ![c] = r], now' = now,
         r.admission = None, r.pc \in {"ended", "backoff"}, r.result # "circuit-open",
         r.pc = "backoff" => r.result = "none"
  PROVE  IInv'
<1> DEFINE origin == call[c].admission
           probe == origin.halfOpen /\ origin.generation = breaker.generation
<1>1. /\ breaker \in Breaker /\ breaker' = Settle(breaker, origin, outcome)
      /\ origin # None /\ origin \in Admission /\ now \in Nat /\ proof \in Nat
      /\ call \in [Calls -> Call]
      /\ proof' = IF probe /\ outcome = "answer" THEN proof + 1 ELSE proof
  BY DEF IInv, TypeOK, AdmissionsHeld, SettleAdmission, Call
<1>2. Settled(breaker, origin, outcome, breaker')
  BY <1>1, SettleEffect
<1>3. /\ origin.generation <= breaker.generation
      /\ origin.generation = breaker.generation
            => (origin.halfOpen <=> breaker.state = "half-open")
      /\ origin.generation \in Nat
  BY <1>1 DEF IInv, AdmissionsDated, Admission
<1>4. /\ breaker.generation \in Nat /\ breaker.probesRemaining \in Nat
      /\ breaker.probesInFlight \in Nat /\ HalfOpenProbes \in Nat
  BY <1>1, BreakerFields, ResilienceConstants
<1>5. call'[c] = r /\ \A d \in Calls \ {c} : call'[d] = call[d]
  BY <1>1
<1>6. Waiting' = Waiting
  BY <1>5 DEF Waiting
<1>7. TypeOK'
  <2>1. breaker' \in Breaker
    BY <1>2 DEF Settled
  <2>2. call' \in [Calls -> Call]
    BY <1>1
  <2>3. notified' \subseteq Waiting'
    BY <1>6 DEF IInv, TypeOK, SettleAdmission
  <2>4. proof' \in Nat /\ now' \in 0 .. MaxTime
    BY <1>1 DEF IInv, TypeOK
  <2> QED BY <2>1, <2>2, <2>3, <2>4 DEF TypeOK
<1>8. AdmissionsHeld'
  BY <1>5 DEF IInv, AdmissionsHeld
<1>9. AdmissionsDated'
  <2> SUFFICES ASSUME NEW d \in Calls, call'[d].admission # None
      PROVE  /\ call'[d].admission.generation <= breaker'.generation
             /\ call'[d].admission.generation = breaker'.generation
                   => (call'[d].admission.halfOpen <=> breaker'.state = "half-open")
    BY DEF AdmissionsDated
  <2>1. d # c /\ call'[d] = call[d]
    BY <1>5
  <2>2. call[d].admission \in Admission /\ call[d].admission.generation \in Nat
    BY <1>1, <2>1 DEF Call, Admission
  <2>3. /\ call[d].admission.generation <= breaker.generation
        /\ call[d].admission.generation = breaker.generation
              => (call[d].admission.halfOpen <=> breaker.state = "half-open")
    BY <2>1 DEF IInv, AdmissionsDated
  <2>4. \/ breaker'.generation = breaker.generation /\ breaker'.state = breaker.state
        \/ breaker'.generation = breaker.generation + 1
    BY <1>2 DEF Settled
  <2> QED BY <1>4, <2>1, <2>2, <2>3, <2>4
<1>10. breaker'.state = "half-open" =>
          /\ breaker.state = "half-open" /\ breaker'.generation = breaker.generation
          /\ origin.generation # breaker.generation =>
                /\ breaker'.probesRemaining = breaker.probesRemaining
                /\ breaker'.probesInFlight = breaker.probesInFlight
          /\ origin.generation = breaker.generation =>
                /\ breaker'.probesInFlight = IF breaker.probesInFlight = 0
                                             THEN 0 ELSE breaker.probesInFlight - 1
                /\ outcome = "answer" =>
                      /\ breaker.probesRemaining > 1
                      /\ breaker'.probesRemaining = breaker.probesRemaining - 1
                /\ outcome # "answer" => breaker'.probesRemaining = breaker.probesRemaining
  BY <1>2, <1>4 DEF Settled
<1>11. ProofCounted'
  BY <1>1, <1>3, <1>4, <1>10 DEF IInv, ProofCounted
<1>12. ProbeSlotsOwned'
  <2> SUFFICES ASSUME breaker'.state = "half-open"
      PROVE  /\ breaker'.probesInFlight = Cardinality(Probing')
             /\ breaker'.probesInFlight <= HalfOpenProbes
    BY DEF ProbeSlotsOwned
  <2>1. breaker.probesInFlight = Cardinality(Probing) /\ breaker.probesInFlight <= HalfOpenProbes
    BY <1>10 DEF IInv, ProbeSlotsOwned
  <2>2. Probing' = Probing \ {c}
    BY <1>5, <1>10 DEF Probing
  <2>3. c \in Probing <=> origin.generation = breaker.generation
    BY <1>1, <1>3, <1>10 DEF Probing
  <2>4. CASE origin.generation = breaker.generation
    <3>1. Cardinality(Probing') = Cardinality(Probing) - 1
      BY <2>2, <2>3, <2>4, ProbingFinite, FS_RemoveElement
    <3>2. Cardinality(Probing) # 0
      BY <2>3, <2>4, ProbingFinite, FS_EmptySet
    <3> QED BY <1>4, <1>10, <2>1, <2>4, <3>1, <3>2
  <2>5. CASE origin.generation # breaker.generation
    <3>1. Probing' = Probing
      BY <2>2, <2>3, <2>5
    <3> QED BY <1>10, <2>1, <2>5, <3>1
  <2> QED BY <2>4, <2>5
<1>13. NoLostWakeup'
  <2>1. CASE AdmissionState(breaker') = AdmissionState(breaker)
    <3>1. /\ breaker'.state = breaker.state
          /\ breaker'.probesInFlight = breaker.probesInFlight
      BY <2>1 DEF AdmissionState
    <3>2. notified' = notified
      BY <1>1, <2>1 DEF SettleAdmission
    <3>3. \A d \in Waiting' : call'[d].reason = call[d].reason
      BY <1>5, <1>6 DEF Waiting
    <3> QED BY <1>6, <3>1, <3>2, <3>3 DEF IInv, NoLostWakeup
  <2>2. CASE AdmissionState(breaker') # AdmissionState(breaker)
    <3>1. Waiting \subseteq notified'
      BY <1>1, <2>2 DEF SettleAdmission
    <3> QED BY <1>6, <3>1 DEF NoLostWakeup
  <2> QED BY <2>1, <2>2
<1>14. WindowedRecovers' /\ WindowedIsHeld' /\ Undecided'
  BY <1>5 DEF IInv, WindowedRecovers, WindowedIsHeld, Undecided
<1>15. OpenDated'
  <2>1. now # None
    BY <1>1, ResilienceConstants
  <2> QED BY <1>2, <2>1 DEF IInv, OpenDated, Settled
<1> QED BY <1>7, <1>8, <1>9, <1>11, <1>12, <1>13, <1>14, <1>15 DEF IInv

(* What asking for admission may do for a call whose record is m: nothing  *)
(* to the breaker but to end the call or make it wait, for a slot only if  *)
(* none is free; or it is let through, by a breaker that may just have     *)
(* become half-open.                                                       *)
LEMMA AdvanceEffect ==
  ASSUME TypeOK, NEW c \in Calls, NEW m \in Call, m.admission = None, m.result = "none",
         Advance(c, m)
  PROVE  /\ notified' = notified \ {c}
         /\ \E r \in Call :
               /\ call' = [call EXCEPT ![c] = r]
               /\ r.result = "circuit-open" => BlockedWait(m.recovering) = NoWait /\ ~Allowed
               /\ r.pc # "ended" => r.result = "none"
               /\ r.pc = "waiting" => r.recovering = m.recovering
               /\ \/ /\ breaker' = breaker /\ proof' = proof
                     /\ r.admission = None /\ r.pc \in {"waiting", "ended"}
                     /\ r.pc = "waiting" /\ r.reason = "probe-saturated" =>
                           breaker.state = "half-open" /\ breaker.probesInFlight >= HalfOpenProbes
                  \/ /\ Allowed /\ r.pc = "calling"
                     /\ r.admission = [generation |-> Allowing.generation,
                                       halfOpen |-> Allowing.state = "half-open"]
                     /\ breaker' = IF Allowing.state = "half-open"
                                   THEN [Allowing EXCEPT !.probesInFlight = @ + 1] ELSE Allowing
                     /\ proof' = IF Allowing.generation = breaker.generation THEN proof ELSE 0
<1> DEFINE blocked == BlockedWait(m.recovering)
           remaining == m.until - now
           fits == blocked.delay < remaining \/ blocked.reason = "probe-saturated"
<1>1. notified' = notified \ {c}
  BY DEF Advance
<1>2. CASE /\ call' = [call EXCEPT ![c] = Ended("budget")]
           /\ UNCHANGED <<breaker, proof>>
  BY <1>1, <1>2, EndedTyped
<1>3. CASE /\ m.until > now /\ blocked # NoWait /\ fits
           /\ call' = [call EXCEPT ![c] = [m EXCEPT
                          !.pc = "waiting", !.reason = blocked.reason,
                          !.wake = now + Minimum(blocked.delay, remaining)]]
           /\ UNCHANGED <<breaker, proof>>
  <2> DEFINE w == now + Minimum(blocked.delay, remaining)
             r == [m EXCEPT !.pc = "waiting", !.reason = blocked.reason, !.wake = w]
  <2>1. /\ blocked.reason \in {"none", "provider-cooldown", "circuit-cooldown", "probe-saturated"}
        /\ blocked.delay \in Nat
        /\ blocked.reason = "probe-saturated" =>
              breaker.state = "half-open" /\ breaker.probesInFlight >= HalfOpenProbes
    <3>1. /\ now \in Nat /\ breaker.cooldownUntil \in Nat /\ breaker.openedAt \in Nat \cup {None}
          /\ Cooldown \in Nat /\ MaxTime \in Nat
      BY BreakerFields, ResilienceConstants DEF TypeOK
    <3>2. ASSUME ~Elapsed, breaker.openedAt # None PROVE CircuitLeft \in Nat
      BY <3>1, <3>2 DEF CircuitLeft, Elapsed
    <3> QED BY <3>1, <3>2 DEF BlockedWait, NoWait, Forever
  <2>2. w \in Nat
    <3>1. now \in Nat /\ m.until \in Nat
      BY DEF TypeOK, Call
    <3> HIDE DEF blocked
    <3> QED BY <1>3, <2>1, <3>1 DEF Minimum
  <2> HIDE DEF w, blocked
  <2>3. /\ r \in Call /\ r.pc = "waiting" /\ r.reason = blocked.reason /\ r.admission = None
        /\ r.result = m.result /\ r.recovering = m.recovering
    BY <2>1, <2>2 DEF Call
  <2> QED BY <1>1, <1>3, <2>1, <2>3 DEF w, blocked
<1>4. CASE /\ blocked = NoWait /\ ~Allowed
           /\ call' = [call EXCEPT ![c] = Ended("circuit-open")]
           /\ UNCHANGED <<breaker, proof>>
  BY <1>1, <1>4, EndedTyped
<1>5. CASE /\ blocked = NoWait /\ Allowed
           /\ breaker' = IF Allowing.state = "half-open"
                         THEN [Allowing EXCEPT !.probesInFlight = @ + 1] ELSE Allowing
           /\ call' = [call EXCEPT ![c] = [Idle EXCEPT
                          !.pc = "calling", !.start = m.start, !.attempt = m.attempt,
                          !.admission = [generation |-> Allowing.generation,
                                         halfOpen |-> Allowing.state = "half-open"]]]
           /\ proof' = IF Allowing.generation = breaker.generation THEN proof ELSE 0
  <2> DEFINE a == [generation |-> Allowing.generation, halfOpen |-> Allowing.state = "half-open"]
             r == [Idle EXCEPT !.pc = "calling", !.start = m.start, !.attempt = m.attempt,
                               !.admission = a]
  <2>1. a \in Admission
    <3>1. Allowing \in Breaker
      BY ProbeEffect DEF Allowing, TypeOK
    <3>2. Allowing.generation \in Nat
      BY <3>1, BreakerFields
    <3>3. (Allowing.state = "half-open") \in BOOLEAN
      BY Zenon
    <3> QED BY <3>2, <3>3 DEF Admission
  <2>2. m.start \in Nat /\ m.attempt \in Nat
    BY DEF Call
  <2> HIDE DEF a
  <2>3. r \in Call /\ r.pc = "calling" /\ r.admission = a /\ r.result = "none"
    <3>1. FALSE \in BOOLEAN
      BY Zenon
    <3> QED BY <2>1, <2>2, <3>1 DEF Call, Idle
  <2> QED BY <1>1, <1>5, <2>3 DEF a
<1> QED BY <1>1, <1>2, <1>3, <1>4, <1>5 DEF Advance

(* A recovering call that blockedWait does not hold is let through.        *)
LEMMA RecoveringAllowed ==
  ASSUME TypeOK, OpenDated, NEW recovering, recovering, BlockedWait(recovering) = NoWait
  PROVE  Allowed
<1>1. BlockedWait(recovering).reason = "none"
  <2>1. NoWait.reason = "none"
    BY DEF NoWait
  <2> QED BY <2>1, Zenon
<1>2. /\ ~(breaker.state = "open" /\ ~Elapsed)
      /\ ~(breaker.state = "half-open" /\ breaker.probesInFlight >= HalfOpenProbes)
  BY <1>1 DEF BlockedWait, OpenDated
<1>3. /\ breaker \in Breaker /\ breaker.probesInFlight \in Nat /\ HalfOpenProbes \in Nat \ {0}
      /\ breaker.state \in {"closed", "open", "half-open"}
  BY BreakerFields, ResilienceConstants DEF TypeOK
<1>4. CASE breaker.state = "open"
  BY <1>2, <1>3, <1>4, ProbeEffect DEF Allowed, Allowing
<1>5. CASE breaker.state # "open"
  BY <1>2, <1>3, <1>5 DEF Allowed, Allowing
<1> QED BY <1>4, <1>5

(* The breaker that let a call through, and the call's admission.          *)
LEMMA AdmittingEffect ==
  ASSUME TypeOK, Allowed, NEW a,
         a = IF Allowing.state = "half-open"
             THEN [Allowing EXCEPT !.probesInFlight = @ + 1] ELSE Allowing
  PROVE  /\ a \in Breaker /\ a.generation = Allowing.generation /\ a.state = Allowing.state
         /\ a.state \in {"closed", "half-open"} /\ a.generation \in Nat
         /\ \/ /\ a.generation = breaker.generation /\ a.state = breaker.state
               /\ a.probesRemaining = breaker.probesRemaining
               /\ a.state = "half-open" => /\ breaker.probesInFlight < HalfOpenProbes
                                           /\ a.probesInFlight = breaker.probesInFlight + 1
            \/ /\ breaker.state = "open" /\ a.generation = breaker.generation + 1
               /\ a.state = "half-open" /\ a.probesInFlight = 1
               /\ a.probesRemaining = HalfOpenProbes
<1> DEFINE k == Allowing.probesInFlight + 1
<1>1. /\ Allowing \in Breaker
      /\ \/ Allowing = breaker
         \/ /\ breaker.state = "open" /\ Allowing.state = "half-open"
            /\ Allowing.generation = breaker.generation + 1
            /\ Allowing.probesRemaining = HalfOpenProbes /\ Allowing.probesInFlight = 0
  BY ProbeEffect DEF Allowing, TypeOK
<1>2. k \in Nat /\ Allowing.generation \in Nat
  BY <1>1, BreakerFields
<1> HIDE DEF k
<1>3. CASE Allowing.state = "half-open"
  <2>1. a = [Allowing EXCEPT !.probesInFlight = k]
    BY <1>3 DEF k
  <2>2. /\ a \in Breaker /\ a.state = Allowing.state /\ a.generation = Allowing.generation
        /\ a.probesRemaining = Allowing.probesRemaining /\ a.probesInFlight = k
    BY <1>1, <1>2, <2>1 DEF Breaker
  <2>3. Allowing.probesInFlight < HalfOpenProbes
    BY <1>3 DEF Allowed
  <2> QED BY <1>1, <1>2, <1>3, <2>2, <2>3 DEF k
<1>4. CASE Allowing.state # "half-open"
  BY <1>1, <1>2, <1>4 DEF Allowed
<1> QED BY <1>3, <1>4

(* Asking for admission keeps the invariant, granted or not.               *)
LEMMA AdvanceIInv ==
  ASSUME IInv, NEW c \in Calls, NEW m \in Call, m.admission = None, call[c].admission = None,
         m.result = "none", c \in Windowed => m.recovering,
         Advance(c, m), now' = now
  PROVE  IInv'
<1>1. /\ TypeOK /\ breaker \in Breaker /\ call \in [Calls -> Call]
      /\ proof \in Nat /\ notified \subseteq Waiting
      /\ breaker.generation \in Nat /\ breaker.probesInFlight \in Nat
      /\ HalfOpenProbes \in Nat \ {0}
  BY BreakerFields, ResilienceConstants DEF IInv, TypeOK
<1>2. /\ notified' = notified \ {c}
      /\ \E r \in Call :
               /\ call' = [call EXCEPT ![c] = r]
               /\ r.result = "circuit-open" => BlockedWait(m.recovering) = NoWait /\ ~Allowed
               /\ r.pc # "ended" => r.result = "none"
               /\ r.pc = "waiting" => r.recovering = m.recovering
               /\ \/ /\ breaker' = breaker /\ proof' = proof
                     /\ r.admission = None /\ r.pc \in {"waiting", "ended"}
                     /\ r.pc = "waiting" /\ r.reason = "probe-saturated" =>
                           breaker.state = "half-open" /\ breaker.probesInFlight >= HalfOpenProbes
                  \/ /\ Allowed /\ r.pc = "calling"
                     /\ r.admission = [generation |-> Allowing.generation,
                                       halfOpen |-> Allowing.state = "half-open"]
                     /\ breaker' = IF Allowing.state = "half-open"
                                   THEN [Allowing EXCEPT !.probesInFlight = @ + 1] ELSE Allowing
                     /\ proof' = IF Allowing.generation = breaker.generation THEN proof ELSE 0
  BY <1>1, AdvanceEffect
<1>3. PICK r \in Call :
               /\ call' = [call EXCEPT ![c] = r]
               /\ r.result = "circuit-open" => BlockedWait(m.recovering) = NoWait /\ ~Allowed
               /\ r.pc # "ended" => r.result = "none"
               /\ r.pc = "waiting" => r.recovering = m.recovering
               /\ \/ /\ breaker' = breaker /\ proof' = proof
                     /\ r.admission = None /\ r.pc \in {"waiting", "ended"}
                     /\ r.pc = "waiting" /\ r.reason = "probe-saturated" =>
                           breaker.state = "half-open" /\ breaker.probesInFlight >= HalfOpenProbes
                  \/ /\ Allowed /\ r.pc = "calling"
                     /\ r.admission = [generation |-> Allowing.generation,
                                       halfOpen |-> Allowing.state = "half-open"]
                     /\ breaker' = IF Allowing.state = "half-open"
                                   THEN [Allowing EXCEPT !.probesInFlight = @ + 1] ELSE Allowing
                     /\ proof' = IF Allowing.generation = breaker.generation THEN proof ELSE 0
  BY <1>2
<1>4. call'[c] = r /\ \A d \in Calls \ {c} : call'[d] = call[d]
  BY <1>1, <1>3
<1>5. WindowedRecovers' /\ WindowedIsHeld' /\ Undecided'
  <2>1. c \in Windowed => r.result # "circuit-open"
    BY <1>1, <1>3, RecoveringAllowed DEF IInv
  <2> QED BY <1>3, <1>4, <2>1 DEF IInv, WindowedRecovers, WindowedIsHeld, Undecided
<1>6. call' \in [Calls -> Call] /\ notified' \subseteq Waiting' /\ now' \in 0 .. MaxTime
  BY <1>1, <1>2, <1>3, <1>4 DEF Waiting, IInv, TypeOK
<1>7. CASE /\ breaker' = breaker /\ proof' = proof
           /\ r.admission = None /\ r.pc \in {"waiting", "ended"}
           /\ r.pc = "waiting" /\ r.reason = "probe-saturated" =>
                 breaker.state = "half-open" /\ breaker.probesInFlight >= HalfOpenProbes
  <2>1. TypeOK' /\ OpenDated'
    BY <1>1, <1>6, <1>7 DEF TypeOK, IInv, OpenDated
  <2>2. AdmissionsHeld' /\ AdmissionsDated' /\ ProofCounted'
    BY <1>4, <1>7 DEF IInv, AdmissionsHeld, AdmissionsDated, ProofCounted
  <2>3. Probing' = Probing
    BY <1>4, <1>7 DEF Probing
  <2>4. ProbeSlotsOwned'
    BY <1>7, <2>3 DEF IInv, ProbeSlotsOwned
  <2>5. NoLostWakeup'
    BY <1>2, <1>4, <1>7 DEF IInv, NoLostWakeup, Waiting
  <2> QED BY <1>5, <2>1, <2>2, <2>4, <2>5 DEF IInv
<1>8. CASE /\ Allowed /\ r.pc = "calling"
           /\ r.admission = [generation |-> Allowing.generation,
                             halfOpen |-> Allowing.state = "half-open"]
           /\ breaker' = IF Allowing.state = "half-open"
                         THEN [Allowing EXCEPT !.probesInFlight = @ + 1] ELSE Allowing
           /\ proof' = IF Allowing.generation = breaker.generation THEN proof ELSE 0
  <2>1. /\ breaker' \in Breaker /\ breaker'.generation = Allowing.generation
        /\ breaker'.state = Allowing.state
        /\ breaker'.state \in {"closed", "half-open"} /\ breaker'.generation \in Nat
        /\ \/ /\ breaker'.generation = breaker.generation /\ breaker'.state = breaker.state
              /\ breaker'.probesRemaining = breaker.probesRemaining
              /\ breaker'.state = "half-open" =>
                    /\ breaker.probesInFlight < HalfOpenProbes
                    /\ breaker'.probesInFlight = breaker.probesInFlight + 1
           \/ /\ breaker.state = "open" /\ breaker'.generation = breaker.generation + 1
              /\ breaker'.state = "half-open" /\ breaker'.probesInFlight = 1
              /\ breaker'.probesRemaining = HalfOpenProbes
    BY <1>1, <1>8, AdmittingEffect
  <2>2. /\ r.admission.generation = breaker'.generation
        /\ r.admission.halfOpen <=> breaker'.state = "half-open"
    <3> DEFINE probing == Allowing.state = "half-open"
    <3>1. r.admission.generation = Allowing.generation /\ r.admission.halfOpen = probing
      <4>1. r.admission = [generation |-> Allowing.generation, halfOpen |-> probing]
        BY <1>8
      <4> HIDE DEF probing
      <4> QED BY <4>1
    <3>2. probing <=> breaker'.state = "half-open"
      BY <2>1
    <3>3. r.admission.halfOpen <=> probing
      BY <3>1, Zenon
    <3> QED BY <2>1, <3>1, <3>2, <3>3, Zenon
  <2>3. r.admission # None
    <3>1. (Allowing.state = "half-open") \in BOOLEAN
      BY Zenon
    <3>2. Allowing.generation \in Nat
      BY <2>1
    <3>3. r.admission \in [generation : Nat, halfOpen : BOOLEAN]
      BY <1>8, <3>1, <3>2
    <3> QED BY <3>3, ResilienceConstants
  <2>4. TypeOK' /\ OpenDated' /\ AdmissionsHeld'
    BY <1>1, <1>4, <1>6, <1>8, <2>1, <2>3 DEF TypeOK, IInv, OpenDated, AdmissionsHeld
  <2>5. \A d \in Calls \ {c} : call[d].admission # None =>
           /\ call[d].admission.generation \in Nat
           /\ call[d].admission.generation <= breaker.generation
           /\ call[d].admission.generation = breaker.generation
                 => (call[d].admission.halfOpen <=> breaker.state = "half-open")
    BY <1>1 DEF IInv, AdmissionsDated, Call, Admission
  <2>6. AdmissionsDated'
    <3> SUFFICES ASSUME NEW d \in Calls, call'[d].admission # None
        PROVE  /\ call'[d].admission.generation <= breaker'.generation
               /\ call'[d].admission.generation = breaker'.generation
                     => (call'[d].admission.halfOpen <=> breaker'.state = "half-open")
      BY DEF AdmissionsDated
    <3>1. CASE d = c
      BY <1>4, <2>1, <2>2, <3>1
    <3>2. CASE d # c
      BY <1>1, <1>4, <2>1, <2>5, <3>2
    <3> QED BY <3>1, <3>2
  <2>7. CASE breaker'.generation = breaker.generation
    <3>1. ProofCounted'
      BY <1>1, <1>8, <2>1, <2>7 DEF IInv, ProofCounted
    <3>2. ProbeSlotsOwned'
      <4> SUFFICES ASSUME breaker'.state = "half-open"
          PROVE  /\ breaker'.probesInFlight = Cardinality(Probing')
                 /\ breaker'.probesInFlight <= HalfOpenProbes
        BY DEF ProbeSlotsOwned
      <4>1. Probing' = Probing \cup {c} /\ c \notin Probing
        BY <1>4, <2>2, <2>3, <2>7 DEF Probing
      <4>2. Cardinality(Probing') = Cardinality(Probing) + 1
        BY <4>1, ProbingFinite, FS_AddElement
      <4> QED BY <1>1, <2>1, <2>7, <4>2 DEF IInv, ProbeSlotsOwned
    <3>3. NoLostWakeup'
      BY <1>1, <1>2, <1>4, <1>8, <2>1, <2>7 DEF IInv, NoLostWakeup, Waiting
    <3> QED BY <1>5, <2>4, <2>6, <3>1, <3>2, <3>3 DEF IInv
  <2>8. CASE breaker'.generation # breaker.generation
    <3>1. /\ breaker.state = "open" /\ breaker'.generation = breaker.generation + 1
          /\ breaker'.state = "half-open" /\ breaker'.probesInFlight = 1
          /\ breaker'.probesRemaining = HalfOpenProbes /\ proof' = 0
      BY <1>8, <2>1, <2>8
    <3>2. ProofCounted'
      BY <1>1, <3>1 DEF ProofCounted
    <3>3. ProbeSlotsOwned'
      <4>1. Probing' = {c}
        BY <1>1, <1>4, <2>2, <2>3, <2>5, <3>1 DEF Probing
      <4>2. Cardinality({c}) = 1
        BY FS_Singleton
      <4> QED BY <1>1, <3>1, <4>1, <4>2 DEF ProbeSlotsOwned
    <3>4. NoLostWakeup'
      BY <1>1, <1>2, <1>4, <1>8, <3>1 DEF IInv, NoLostWakeup, Waiting
    <3> QED BY <1>5, <2>4, <2>6, <3>2, <3>3, <3>4 DEF IInv
  <2> QED BY <2>7, <2>8
<1> QED BY <1>3, <1>7, <1>8

(* The same for an attempt, whose admission gets its deadline and its      *)
(* leave to wait here.                                                     *)
LEMMA AttemptIInv ==
  ASSUME IInv, NEW c \in Calls, NEW m \in Call, m.admission = None, call[c].admission = None,
         m.result = "none", m.start + CallBudget(c) > now,
         Attempt(c, m), now' = now
  PROVE  IInv'
<1> DEFINE left == m.start + CallBudget(c) - now
           windowLeft == IF m.start + Window > now THEN m.start + Window - now ELSE 1
           admissionBudget == IF c \in Windowed THEN Maximum(1, Minimum(left, windowLeft)) ELSE left
           until == now + admissionBudget
           recovering == breaker.cooldownUntil > now \/ c \in Windowed \/ m.named
           asking == [m EXCEPT !.until = until, !.recovering = recovering]
<1>1. until \in Nat
  BY ResilienceConstants DEF IInv, TypeOK, Call, CallBudget, Maximum, Minimum
<1>2. recovering \in BOOLEAN /\ (c \in Windowed => recovering = TRUE)
  BY Zenon
<1>3. Advance(c, asking)
  BY DEF Attempt
<1> HIDE DEF until, recovering
<1>4. /\ asking \in Call /\ asking.admission = None /\ asking.result = m.result
      /\ asking.recovering = recovering
  BY <1>1, <1>2 DEF Call
<1>5. c \in Windowed => asking.recovering
  BY <1>2, <1>4, Zenon
<1> HIDE DEF asking
<1> QED BY <1>3, <1>4, <1>5, AdvanceIInv

(* The fresh gateway satisfies the inductive invariant.                    *)
LEMMA InitIInv == Init => IInv
<1> SUFFICES ASSUME Init PROVE IInv
  OBVIOUS
<1>1. Idle \in Call /\ Idle.admission = None /\ Idle.pc = "idle" /\ Idle.result = "none"
  <2>1. FALSE \in BOOLEAN
    BY Zenon
  <2> QED BY <2>1 DEF Idle, Call
<1>2. \A c \in Calls : call[c] = Idle
  BY DEF Init
<1>3. TypeOK
  <2>1. call \in [Calls -> Call]
    BY <1>1 DEF Init
  <2>2. breaker \in Breaker /\ now \in 0 .. MaxTime
    BY ResilienceConstants DEF Init, Breaker
  <2> QED BY <2>1, <2>2 DEF Init, TypeOK
<1>4. breaker.state = "closed"
  BY DEF Init
<1>5. AdmissionsHeld /\ AdmissionsDated /\ Undecided
  BY <1>1, <1>2 DEF AdmissionsHeld, AdmissionsDated, Undecided
<1>6. NoLostWakeup /\ WindowedRecovers /\ WindowedIsHeld
  BY <1>1, <1>2, ResilienceConstants DEF NoLostWakeup, WindowedRecovers, WindowedIsHeld, Waiting
<1> QED BY <1>3, <1>4, <1>5, <1>6 DEF IInv, ProofCounted, ProbeSlotsOwned, OpenDated

(* A failed attempt settles its admission and ends its call or backs off.  *)
LEMMA FailsShape ==
  ASSUME TypeOK, Undecided, NEW c \in Calls, NEW outcome, Fails(c, outcome)
  PROVE  /\ call[c].pc = "calling" /\ SettleAdmission(c, outcome) /\ now' = now
         /\ \E r \in Call : /\ call' = [call EXCEPT ![c] = r]
                            /\ r.admission = None /\ r.pc \in {"ended", "backoff"}
                            /\ r.result # "circuit-open"
                            /\ r.pc = "backoff" => r.result = "none"
<1> DEFINE decision == Decision(c, outcome)
           wake == now + decision.delay
           named == outcome = "overload"
           r == [call[c] EXCEPT !.pc = "backoff", !.admission = None, !.wake = wake,
                                !.named = named]
<1>1. call[c].pc = "calling" /\ SettleAdmission(c, outcome) /\ now' = now
  BY DEF Fails
<1>2. decision.stop \in {"failed", "budget", "none"} /\ decision.delay \in Nat
  BY ResilienceConstants DEF Decision
<1>3. CASE decision.stop # "none"
  <2>1. decision.stop \in {"failed", "budget"} /\ call' = [call EXCEPT ![c] = Ended(decision.stop)]
    BY <1>2, <1>3 DEF Fails, EndCall
  <2> QED BY <1>1, <2>1, EndedTyped
<1>4. CASE decision.stop = "none"
  <2>1. call' = [call EXCEPT ![c] = r]
    BY <1>4 DEF Fails
  <2>2. wake \in Nat
    BY <1>2 DEF TypeOK
  <2>3. named \in BOOLEAN
    BY Zenon
  <2> HIDE DEF wake, named
  <2>4. r \in Call /\ r.admission = None /\ r.pc = "backoff" /\ r.result = "none"
    BY <1>1, <2>2, <2>3 DEF TypeOK, Call, Undecided
  <2> QED BY <1>1, <2>1, <2>4
<1> QED BY <1>3, <1>4

(* Ending a call that holds no admission keeps the invariant.              *)
LEMMA EndIInv ==
  ASSUME IInv, NEW c \in Calls, NEW result \in {"budget", "cancelled"}, call[c].admission = None,
         call' = [call EXCEPT ![c] = Ended(result)],
         notified' \subseteq notified, notified \ {c} \subseteq notified',
         c \notin notified' \/ call[c].pc # "waiting", UNCHANGED <<now, breaker, proof>>
  PROVE  IInv'
<1>1. /\ Ended(result) \in Call /\ Ended(result).pc = "ended"
      /\ Ended(result).result = result /\ Ended(result).admission = None
  BY EndedTyped
<1>2. /\ call \in [Calls -> Call] /\ call'[c] = Ended(result)
      /\ \A d \in Calls \ {c} : call'[d] = call[d]
  BY DEF IInv, TypeOK
<1>3. Waiting' = Waiting \ {c}
  BY <1>1, <1>2 DEF Waiting
<1>4. TypeOK'
  <2>1. notified' \subseteq Waiting'
    BY <1>3 DEF IInv, TypeOK, Waiting
  <2>2. call' \in [Calls -> Call]
    BY <1>1, <1>2
  <2> QED BY <2>1, <2>2 DEF IInv, TypeOK
<1>5. Probing' = Probing
  BY <1>1, <1>2 DEF Probing
<1>6. ProbeSlotsOwned' /\ ProofCounted' /\ OpenDated'
  BY <1>5 DEF IInv, ProbeSlotsOwned, ProofCounted, OpenDated
<1>7. AdmissionsHeld' /\ AdmissionsDated' /\ Undecided'
  BY <1>1, <1>2 DEF IInv, AdmissionsHeld, AdmissionsDated, Undecided
<1>8. NoLostWakeup' /\ WindowedRecovers' /\ WindowedIsHeld'
  BY <1>1, <1>2, <1>3 DEF IInv, NoLostWakeup, WindowedRecovers, WindowedIsHeld, Waiting
<1> QED BY <1>4, <1>6, <1>7, <1>8 DEF IInv

(* Every step of the gateway keeps the inductive invariant.                *)
LEMMA StepIInv == IInv /\ [Next]_vars => IInv'
<1> SUFFICES ASSUME IInv, [Next]_vars PROVE IInv'
  OBVIOUS
<1>1. CASE UNCHANGED <<breaker, call, notified, proof>> /\ now' \in 0 .. MaxTime
  BY <1>1 DEF IInv, TypeOK, AdmissionsHeld, AdmissionsDated, ProofCounted, ProbeSlotsOwned,
              NoLostWakeup, OpenDated, Undecided, WindowedRecovers, WindowedIsHeld, Waiting, Probing
<1>2. CASE UNCHANGED vars \/ Tick
  BY <1>1, <1>2, ResilienceConstants DEF vars, Tick, IInv, TypeOK
<1>3. ASSUME NEW c \in Calls, call[c].pc # "calling", call[c].pc # "ended"
      PROVE  call[c] \in Call /\ call[c].admission = None /\ call[c].result = "none"
  BY <1>3 DEF IInv, TypeOK, AdmissionsHeld, Undecided
<1>4. ASSUME NEW c \in Calls, Start(c) PROVE IInv'
  <2> DEFINE m == [call[c] EXCEPT !.start = now]
  <2>1. call[c].pc = "idle" /\ Attempt(c, m) /\ now' = now /\ now \in Nat
    BY <1>4 DEF Start, IInv, TypeOK
  <2>2. call[c] \in Call /\ call[c].admission = None /\ call[c].result = "none"
    BY <1>3, <2>1
  <2>3. m \in Call /\ m.admission = None /\ m.result = "none" /\ m.start = now
    BY <2>1, <2>2 DEF Call
  <2>4. now + CallBudget(c) > now
    BY <2>1, ResilienceConstants DEF CallBudget
  <2> HIDE DEF m
  <2> QED BY <2>1, <2>2, <2>3, <2>4, AttemptIInv
<1>5. ASSUME NEW c \in Calls, Wake(c) PROVE IInv'
  <2>1. call[c].pc = "waiting" /\ Advance(c, call[c]) /\ now' = now
    BY <1>5 DEF Wake
  <2>2. call[c] \in Call /\ call[c].admission = None /\ call[c].result = "none"
    BY <1>3, <2>1
  <2>3. c \in Windowed => call[c].recovering
    BY <2>1 DEF IInv, WindowedRecovers
  <2> QED BY <2>1, <2>2, <2>3, AdvanceIInv
<1>6. ASSUME NEW c \in Calls, Answered(c) PROVE IInv'
  BY <1>6, EndedTyped, SettleIInv DEF Answered, EndCall
<1>7. ASSUME NEW c \in Calls, NEW outcome, Fails(c, outcome) PROVE IInv'
  <2>1. TypeOK /\ Undecided
    BY DEF IInv
  <2>2. /\ call[c].pc = "calling" /\ SettleAdmission(c, outcome) /\ now' = now
        /\ \E r \in Call : /\ call' = [call EXCEPT ![c] = r]
                           /\ r.admission = None /\ r.pc \in {"ended", "backoff"}
                           /\ r.result # "circuit-open"
                           /\ r.pc = "backoff" => r.result = "none"
    BY <1>7, <2>1, FailsShape
  <2>3. PICK r \in Call : /\ call' = [call EXCEPT ![c] = r]
                          /\ r.admission = None /\ r.pc \in {"ended", "backoff"}
                          /\ r.result # "circuit-open"
                          /\ r.pc = "backoff" => r.result = "none"
    BY <2>2
  <2> QED BY <2>2, <2>3, SettleIInv
<1>8. ASSUME NEW c \in Calls, Retry(c) PROVE IInv'
  <2>1. call[c].pc = "backoff" /\ now' = now
    BY <1>8 DEF Retry
  <2>2. call[c] \in Call /\ call[c].admission = None /\ call[c].result = "none"
    BY <1>3, <2>1
  <2>3. CASE now >= call[c].start + CallBudget(c)
    BY <1>8, <2>1, <2>2, <2>3, EndIInv DEF Retry, EndCall
  <2>4. CASE ~(now >= call[c].start + CallBudget(c))
    <3> DEFINE m == [call[c] EXCEPT !.attempt = @ + 1]
               k == call[c].attempt + 1
    <3>1. Attempt(c, m)
      BY <1>8, <2>4 DEF Retry
    <3>2. k \in Nat
      BY <2>2 DEF Call
    <3>3. /\ m \in Call /\ m.admission = None /\ m.result = "none"
          /\ m.start = call[c].start
      BY <2>2, <3>2 DEF Call
    <3>4. m.start + CallBudget(c) > now
      BY <2>2, <2>4, <3>3, ResilienceConstants DEF CallBudget, Call, IInv, TypeOK
    <3> HIDE DEF m
    <3> QED BY <2>1, <2>2, <3>1, <3>3, <3>4, AttemptIInv
  <2> QED BY <2>3, <2>4
<1>9. ASSUME NEW c \in Calls, Cancel(c) PROVE IInv'
  <2>1. CASE call[c].pc = "calling"
    BY <1>9, <2>1, EndedTyped, SettleIInv DEF Cancel, EndCall
  <2>2. CASE call[c].pc \in {"waiting", "backoff"}
    <3>1. call[c].admission = None
      BY <1>3, <2>2
    <3> QED BY <1>9, <2>2, <3>1, EndIInv DEF Cancel, EndCall
  <2> QED BY <1>9, <2>1, <2>2 DEF Cancel
<1> QED BY <1>2, <1>4, <1>5, <1>6, <1>7, <1>8, <1>9
        DEF Next, TimesOut, ProviderFails, ModelFails, DispatchFails

(* resilience.ts and the buffered attempt of gateway.ts: the inductive     *)
(* invariant holds in every reachable state.                               *)
THEOREM InductiveInvariant == Spec => []IInv
<1> QED BY InitIInv, StepIInv, PTL DEF Spec

(* Every field of the breaker and of the calls keeps its type.             *)
THEOREM TypeCorrect == Spec => []TypeOK
<1>1. IInv => TypeOK
  BY DEF IInv
<1> QED BY <1>1, InductiveInvariant, PTL

(* The slots a half-open breaker counts are those its probes hold          *)
(* (settleAdmission, admitProbeOrReject, recordNonProviderFault).          *)
THEOREM ProbeSlotsOwnedTheorem == Spec => []ProbeSlotsOwned
<1>1. IInv => ProbeSlotsOwned
  BY DEF IInv
<1> QED BY <1>1, InductiveInvariant, PTL

(* No call sleeps for a probe slot that is free (waitForChange).           *)
THEOREM NoLostWakeupTheorem == Spec => []NoLostWakeup
<1>1. IInv => NoLostWakeup
  BY DEF IInv
<1> QED BY <1>1, InductiveInvariant, PTL

(* blockedWait holds a call of the outage window whenever assertAllowed    *)
(* would refuse it.                                                        *)
THEOREM WindowedIsHeldTheorem == Spec => []WindowedIsHeld
<1>1. IInv => WindowedIsHeld
  BY DEF IInv
<1> QED BY <1>1, InductiveInvariant, PTL

(* Settling decides a half-open breaker only for one of its own probes.    *)
LEMMA SettleDecides ==
  ASSUME IInv, NEW c \in Calls, NEW outcome, SettleAdmission(c, outcome),
         call[c].pc = "calling", call'[c].admission = None,
         breaker.state = "half-open", breaker'.state # "half-open"
  PROVE  \/ breaker'.state = "closed" /\ proof' >= HalfOpenProbes
         \/ breaker'.state = "open" /\ \E d \in Probing : call'[d].admission = None
<1> DEFINE origin == call[c].admission
           probe == origin.halfOpen /\ origin.generation = breaker.generation
<1>1. /\ breaker \in Breaker /\ breaker' = Settle(breaker, origin, outcome)
      /\ origin # None /\ origin \in Admission /\ now \in Nat /\ proof \in Nat
      /\ proof' = IF probe /\ outcome = "answer" THEN proof + 1 ELSE proof
  BY DEF IInv, TypeOK, AdmissionsHeld, SettleAdmission, Call
<1>2. Settled(breaker, origin, outcome, breaker')
  BY <1>1, SettleEffect
<1>3. breaker.generation \in Nat /\ breaker.probesRemaining \in Nat /\ HalfOpenProbes \in Nat
  BY <1>1, BreakerFields, ResilienceConstants
<1>4. origin.generation = breaker.generation
  BY <1>2, <1>3 DEF Settled
<1>5. c \in Probing /\ origin.halfOpen
  BY <1>1, <1>4 DEF IInv, AdmissionsDated, Probing
<1>6. \/ breaker'.state = "closed" /\ outcome = "answer" /\ breaker.probesRemaining <= 1
      \/ breaker'.state = "open"
  BY <1>2, <1>3, <1>4 DEF Settled
<1>7. breaker.probesRemaining > 0 /\ proof + breaker.probesRemaining = HalfOpenProbes
  BY DEF IInv, ProofCounted
<1>8. CASE breaker'.state = "closed"
  BY <1>1, <1>3, <1>4, <1>5, <1>6, <1>7, <1>8
<1>9. CASE breaker'.state = "open"
  BY <1>5, <1>9
<1> QED BY <1>6, <1>8, <1>9

(* A half-open generation ends by its own probes alone (createAdmission:   *)
(* "circuit state and probe ownership stay generation-bound").             *)
THEOREM ProbesDecideTheorem == Spec => ProbesDecide
<1>1. ASSUME IInv, [Next]_vars, breaker.state = "half-open", breaker'.state # "half-open"
      PROVE  \/ breaker'.state = "closed" /\ proof' >= HalfOpenProbes
             \/ breaker'.state = "open" /\ \E c \in Probing : call'[c].admission = None
  <2> USE <1>1
  <2>1. CASE UNCHANGED vars \/ Tick
    BY <2>1 DEF vars, Tick
  <2>2. ASSUME NEW c \in Calls, NEW m, Advance(c, m) PROVE FALSE
    <3>1. breaker' = breaker \/ breaker'.state = Allowing.state
      <4>1. breaker \in Breaker
        BY DEF IInv, TypeOK
      <4>2. Allowing = breaker
        BY DEF Allowing
      <4> DEFINE k == breaker.probesInFlight + 1
      <4>3. k \in Nat
        BY <4>1, BreakerFields
      <4>4. [breaker EXCEPT !.probesInFlight = k].state = breaker.state
        BY <4>1 DEF Breaker
      <4> QED BY <2>2, <4>2, <4>4 DEF Advance
    <3> QED BY <3>1 DEF Allowing
  <2>3. ASSUME NEW c \in Calls, NEW m, Attempt(c, m) PROVE FALSE
    BY <2>2, <2>3 DEF Attempt
  <2>4. ASSUME NEW c \in Calls, Start(c) \/ Wake(c) \/ Retry(c) PROVE FALSE
    BY <2>2, <2>3, <2>4 DEF Start, Wake, Retry
  <2>5. ASSUME NEW c \in Calls, NEW outcome, Fails(c, outcome)
        PROVE  call[c].pc = "calling" /\ SettleAdmission(c, outcome) /\ call'[c].admission = None
    <3>1. TypeOK /\ Undecided /\ call \in [Calls -> Call]
      BY DEF IInv, TypeOK
    <3>2. /\ call[c].pc = "calling" /\ SettleAdmission(c, outcome) /\ now' = now
          /\ \E r \in Call : /\ call' = [call EXCEPT ![c] = r]
                             /\ r.admission = None /\ r.pc \in {"ended", "backoff"}
                             /\ r.result # "circuit-open"
                             /\ r.pc = "backoff" => r.result = "none"
      BY <2>5, <3>1, FailsShape
    <3> QED BY <3>1, <3>2
  <2>6. ASSUME NEW c \in Calls, Answered(c)
        PROVE  /\ call[c].pc = "calling" /\ SettleAdmission(c, "answer")
               /\ call'[c].admission = None
    BY <2>6, EndedTyped DEF Answered, EndCall, IInv, TypeOK
  <2>7. ASSUME NEW c \in Calls, Cancel(c)
        PROVE  /\ call[c].pc = "calling" /\ SettleAdmission(c, "cancelled")
               /\ call'[c].admission = None
    BY <2>7, EndedTyped DEF Cancel, EndCall, IInv, TypeOK
  <2> QED BY <2>1, <2>4, <2>5, <2>6, <2>7, SettleDecides
          DEF Next, TimesOut, ProviderFails, ModelFails, DispatchFails
<1> QED BY <1>1, InductiveInvariant, PTL DEF Spec, ProbesDecide
=============================================================================
