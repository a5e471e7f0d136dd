------------------------ MODULE MutationJournalProofs ------------------------
(***************************************************************************)
(* For every set of invocations, whatever they ask for: the journal never  *)
(* contradicts the provider, no action takes effect twice, and one effect  *)
(* at most is unresolved.                                                  *)
(***************************************************************************)
EXTENDS MutationJournal, FiniteSetTheorems, TLAPS

(* A caller that is at work has its record.                                *)
CallerRecorded(i) == caller[i] # "idle" => rec[i] # None

(* No effect without a dispatched record behind it.                        *)
EffectRecorded(i) == effect[i] # "none" => rec[i] # None /\ rec[i].phase # "prepared"

(* A recorded success was applied, a recorded refusal is none.             *)
RecordTrue(i) ==
    rec[i] # None =>
        /\ rec[i].answer = "ok" => effect[i] = "applied"
        /\ rec[i].outcome \in {"succeeded", "succeeded-unconfirmed"} => effect[i] = "applied"
        /\ rec[i].outcome \in Refusals => effect[i] \in {"none", "refused"}

(* A Jira call that waits for its answer is the only writer of its record. *)
JiraAwaits(i) ==
    caller[i] = "sent" /\ SourceOf[i] = "jira" =>
        rec[i].phase = "dispatched" /\ rec[i].answer = None

(* Jira's document with a definitive status speaks of a refused request.   *)
DocumentRefuses(i) ==
    caller[i] = "document" /\ rec[i].answer = "definitive" => effect[i] = "refused"

(* Only a refused record is retired.                                       *)
RetiredRefused(i) == rec[i] # None /\ rec[i].retired => rec[i].outcome \in Refusals

Sound(i) ==
    /\ CallerRecorded(i) /\ EffectRecorded(i) /\ RecordTrue(i)
    /\ JiraAwaits(i) /\ DocumentRefuses(i) /\ RetiredRefused(i)

(* No two records that are not retired are for the same action.            *)
OneLiveRecord ==
    \A i, j \in Recorded :
        ActionOf[i] = ActionOf[j] /\ ~rec[i].retired /\ ~rec[j].retired => i = j

IInv ==
    /\ TypeOK
    /\ \A i \in Invocations : Sound(i)
    /\ OneLiveRecord
    /\ OneUnresolvedEffect

Rows == {r \in Records : WellFormed(r)}
-----------------------------------------------------------------------------
(* What the store writes into a row is a well-formed row again.            *)
LEMMA RowTypes ==
    /\ None \notin Rows
    /\ Prepared \in Rows
    /\ \A r \in Rows :
          /\ [r EXCEPT !.retired = TRUE] \in Rows
          /\ r.phase = "prepared" => [r EXCEPT !.phase = "dispatched"] \in Rows
          /\ \A o \in Outcomes : Settled(r, o) \in Rows
          /\ \A a \in Answers : Acknowledged(r, a) \in Rows
          /\ RetainUnconfirmed(r) \in Rows
<1>1. None \notin Records \cup Outcomes \cup Answers
  BY JournalConstants
<1>2. Prepared \in Rows
  BY <1>1 DEF Rows, Records, WellFormed, Prepared, Phases, Answers, Outcomes
<1>3. ASSUME NEW r \in Rows
      PROVE  /\ [r EXCEPT !.retired = TRUE] \in Rows
             /\ r.phase = "prepared" => [r EXCEPT !.phase = "dispatched"] \in Rows
  BY <1>1 DEF Rows, Records, WellFormed, Phases, Answers, Outcomes
<1>4. ASSUME NEW r \in Rows, NEW o \in Outcomes
      PROVE  Settled(r, o) \in Rows
  BY <1>1 DEF Rows, Records, WellFormed, Phases, Answers, Outcomes, Settled
<1>5. ASSUME NEW r \in Rows, NEW a \in Answers
      PROVE  Acknowledged(r, a) \in Rows
  BY <1>1 DEF Rows, Records, WellFormed, Phases, Answers, Outcomes, Acknowledged
<1>6. ASSUME NEW r \in Rows
      PROVE  RetainUnconfirmed(r) \in Rows
  BY <1>4 DEF RetainUnconfirmed, Outcomes
<1>7. None \notin Rows
  BY <1>1 DEF Rows
<1>8. QED BY <1>2, <1>3, <1>4, <1>5, <1>6, <1>7

(* A settled row has nothing left to settle.                               *)
LEMMA SettlesOnce ==
    ASSUME NEW i \in Invocations, rec[i] \in Rows, NEW o \in Settlement(i)
    PROVE  rec[i].phase # "settled" /\ o \in Outcomes
  BY DEF Settlement, Rows, Records, Phases, Outcomes, Refusals, AllowedOutcomes

(* What a reader is told follows from the row and the effect.              *)
LEMMA SoundIsTruthful == TypeOK /\ (\A i \in Invocations : Sound(i)) => TruthfulOutcome
<1> SUFFICES ASSUME TypeOK, NEW i \in Recorded, Sound(i)
             PROVE  /\ ObservedOutcome(rec[i]) \in {"succeeded", "succeeded-unconfirmed"} =>
                           effect[i] = "applied"
                    /\ ObservedOutcome(rec[i]) \in Refusals => effect[i] \in {"none", "refused"}
  BY DEF TruthfulOutcome, Recorded
<1>1. i \in Invocations /\ rec[i] # None /\ rec[i] \in Rows /\ effect[i] \in Effects
  BY DEF TypeOK, Recorded, Rows
<1>2. rec[i].phase \in Phases
  BY <1>1 DEF Rows, Records
<1>3. CASE rec[i].phase = "settled"
  BY <1>1, <1>3 DEF ObservedOutcome, Sound, RecordTrue
<1>4. CASE rec[i].phase = "prepared"
  BY <1>1, <1>4 DEF ObservedOutcome, Sound, EffectRecorded, Effects
<1>5. CASE rec[i].phase = "dispatched"
  BY <1>1, <1>5 DEF ObservedOutcome, Refusals
<1>6. CASE rec[i].phase = "acknowledged"
  BY <1>1, <1>6 DEF ObservedOutcome, Refusals, Sound, RecordTrue, Rows, WellFormed
<1>7. QED BY <1>2, <1>3, <1>4, <1>5, <1>6 DEF Phases
-----------------------------------------------------------------------------
(* A step that adds no row, retires none and sends nothing keeps the facts *)
(* about pairs of invocations.                                             *)
LEMMA Frame ==
    ASSUME IInv, TypeOK', \A k \in Invocations : Sound(k)',
           \A k \in Invocations : rec'[k] # None =>
               rec[k] # None /\ rec'[k].retired = rec[k].retired,
           \A k \in Invocations : effect'[k] = "wire" => effect[k] = "wire"
    PROVE  IInv'
<1>1. OneLiveRecord'
  BY DEF IInv, OneLiveRecord, Recorded
<1>2. OneUnresolvedEffect'
  BY DEF IInv, OneUnresolvedEffect
<1>3. QED BY <1>1, <1>2 DEF IInv

(* What a step leaves alone stays sound.                                   *)
LEMMA Untouched ==
    ASSUME NEW k \in Invocations, Sound(k),
           rec'[k] = rec[k], caller'[k] = caller[k], effect'[k] = effect[k]
    PROVE  Sound(k)'
  BY DEF Sound, CallerRecorded, EffectRecorded, RecordTrue, JiraAwaits, DocumentRefuses,
         RetiredRefused

(* The invariant's facts about one invocation, ready to use.               *)
LEMMA Row ==
    ASSUME IInv, NEW i \in Invocations
    PROVE  /\ rec[i] \in Rows \cup {None} /\ caller[i] \in CallerSteps /\ effect[i] \in Effects
           /\ Sound(i)
           /\ caller[i] # "idle" => rec[i] \in Rows
  BY DEF IInv, TypeOK, Rows, Sound, CallerRecorded

LEMMA PrepareStep ==
    ASSUME IInv, NEW i \in Invocations, Prepare(i)
    PROVE  IInv'
<1>1. ASSUME NEW k \in Invocations
      PROVE  /\ Retired(i)[k] \in Rows \cup {None}
             /\ Retired(i)[k] = None <=> rec[k] = None
  <2>1. CASE k \in Prior(i)
    BY <2>1, Row, RowTypes DEF Retired, Prior, Recorded
  <2>2. CASE k \notin Prior(i)
    BY <2>2, Row DEF Retired
  <2>3. QED BY <2>1, <2>2
<1>2. TypeOK'
  <2>1. current' \in BOOLEAN /\ effect' \in [Invocations -> Effects]
    BY DEF Prepare, IInv, TypeOK
  <2>2. caller' \in [Invocations -> CallerSteps]
    BY DEF Prepare, IInv, TypeOK, CallerSteps
  <2>3. Retired(i) \in [Invocations -> Rows \cup {None}]
    BY <1>1 DEF Retired
  <2>4. rec' \in [Invocations -> Rows \cup {None}]
    BY <2>3, RowTypes DEF Prepare
  <2>5. QED BY <2>1, <2>2, <2>4 DEF TypeOK, Rows
<1>3. ASSUME NEW k \in Invocations, k \in Prior(i)
      PROVE  rec[k].phase = "settled" /\ rec[k].outcome \in Refusals /\ k # i
  BY <1>3 DEF Prepare, RetryableAttachment
<1>4. ASSUME NEW k \in Invocations, rec'[k] = Retired(i)[k], caller'[k] = caller[k],
             effect'[k] = effect[k]
      PROVE  Sound(k)'
  <2>1. CASE k \in Prior(i)
    <3>1. rec'[k] = [rec[k] EXCEPT !.retired = TRUE] /\ rec[k] \in Rows
      BY <1>4, <2>1, Row DEF Retired, Prior, Recorded
    <3>2. /\ rec'[k].phase = rec[k].phase /\ rec'[k].outcome = rec[k].outcome
          /\ rec'[k].answer = rec[k].answer
      BY <3>1 DEF Rows, Records
    <3> rec'[k] # None /\ rec[k] # None
      BY <3>1, RowTypes
    <3>3. Sound(k)
      BY Row
    <3>4. QED
      BY <1>3, <1>4, <2>1, <3>2, <3>3 DEF Sound, CallerRecorded, EffectRecorded, RecordTrue,
         JiraAwaits, DocumentRefuses, RetiredRefused
  <2>2. CASE k \notin Prior(i)
    BY <1>4, <2>2, Row, Untouched DEF Retired
  <2>3. QED BY <2>1, <2>2
<1>5. effect' = effect
  BY DEF Prepare
<1>6. CASE rec' = Retired(i) /\ caller' = caller
  <2>1. \A k \in Invocations : Sound(k)'
    BY <1>4, <1>5, <1>6
  <2>2. OneLiveRecord'
    <3>1. ASSUME NEW k \in Invocations, rec'[k] # None, ~rec'[k].retired
          PROVE  rec[k] # None /\ ~rec[k].retired
      <4>1. k \notin Prior(i)
        <5>1. SUFFICES ASSUME k \in Prior(i) PROVE FALSE
          OBVIOUS
        <5>2. rec'[k] = [rec[k] EXCEPT !.retired = TRUE] /\ rec[k] \in Rows
          BY <1>6, <5>1, Row DEF Retired, Prior, Recorded
        <5>3. QED BY <3>1, <5>2 DEF Rows, Records
      <4>2. QED BY <1>6, <3>1, <4>1 DEF Retired
    <3>2. QED BY <3>1 DEF OneLiveRecord, Recorded, IInv
  <2>3. OneUnresolvedEffect'
    BY <1>5 DEF OneUnresolvedEffect, IInv
  <2>4. QED BY <1>2, <2>1, <2>2, <2>3 DEF IInv
<1>7. CASE /\ rec[i] = None
           /\ rec' = [Retired(i) EXCEPT ![i] = Prepared]
           /\ caller' = [caller EXCEPT ![i] = "ready"]
  <2>1. rec'[i] = Prepared /\ \A k \in Invocations \ {i} : rec'[k] = Retired(i)[k]
    BY <1>7 DEF Retired
  <2>2. caller'[i] = "ready" /\ \A k \in Invocations \ {i} : caller'[k] = caller[k]
    BY <1>7 DEF IInv, TypeOK
  <2>3. Sound(i)'
    <3>1. effect'[i] = "none"
      BY <1>5, <1>7, Row DEF Sound, EffectRecorded
    <3>2. /\ rec'[i].phase = "prepared" /\ rec'[i].answer = None
          /\ rec'[i].outcome = None /\ ~rec'[i].retired
      BY <2>1 DEF Prepared
    <3> rec'[i] # None
      BY <2>1, RowTypes
    <3>3. None \notin Outcomes \cup Answers
      BY JournalConstants
    <3>4. QED
      BY <2>2, <3>1, <3>2, <3>3 DEF Sound, CallerRecorded, EffectRecorded, RecordTrue,
         JiraAwaits, DocumentRefuses, RetiredRefused, Refusals, Outcomes, Answers
  <2>4. \A k \in Invocations : Sound(k)'
    BY <1>4, <1>5, <2>1, <2>2, <2>3
  <2>5. OneLiveRecord'
    <3>1. ASSUME NEW k \in Invocations, rec'[k] # None, ~rec'[k].retired, k # i
          PROVE  rec[k] # None /\ ~rec[k].retired /\ k \notin Prior(i)
      <4>1. k \notin Prior(i)
        <5>1. SUFFICES ASSUME k \in Prior(i) PROVE FALSE
          OBVIOUS
        <5>2. rec'[k] = [rec[k] EXCEPT !.retired = TRUE] /\ rec[k] \in Rows
          BY <2>1, <3>1, <5>1, Row DEF Retired, Prior, Recorded
        <5>3. QED BY <3>1, <5>2 DEF Rows, Records
      <4>2. QED BY <2>1, <3>1, <4>1 DEF Retired
    <3>2. ASSUME NEW k \in Invocations, rec'[k] # None, ~rec'[k].retired, k # i
          PROVE  ActionOf[k] # ActionOf[i]
      BY <3>1, <3>2 DEF Prior, Recorded
    <3>3. QED BY <3>1, <3>2 DEF OneLiveRecord, Recorded, IInv
  <2>6. OneUnresolvedEffect'
    BY <1>5 DEF OneUnresolvedEffect, IInv
  <2>7. QED BY <1>2, <2>4, <2>5, <2>6 DEF IInv
<1>8. QED BY <1>6, <1>7 DEF Prepare

(* beginDispatch: the barrier answers for every effect that is still open. *)
LEMMA BeginDispatchStep ==
    ASSUME IInv, NEW i \in Invocations, BeginDispatch(i)
    PROVE  IInv'
<1>1. rec[i] \in Rows /\ rec[i].phase = "prepared"
  BY Row DEF BeginDispatch
<1>2. /\ rec' = [rec EXCEPT ![i] = [rec[i] EXCEPT !.phase = "dispatched"]]
      /\ caller' = [caller EXCEPT ![i] = "sent"]
      /\ effect' = [effect EXCEPT ![i] = "wire"]
      /\ current' = current
  BY DEF BeginDispatch
<1>3. TypeOK'
  <2>1. rec' \in [Invocations -> Rows \cup {None}]
    BY <1>1, <1>2, RowTypes DEF IInv, TypeOK, Rows
  <2>2. QED BY <1>2, <2>1 DEF IInv, TypeOK, CallerSteps, Effects, Rows
<1>4. /\ rec'[i] = [rec[i] EXCEPT !.phase = "dispatched"]
      /\ caller'[i] = "sent" /\ effect'[i] = "wire"
      /\ \A k \in Invocations \ {i} :
            rec'[k] = rec[k] /\ caller'[k] = caller[k] /\ effect'[k] = effect[k]
  BY <1>2 DEF IInv, TypeOK
<1>5. /\ rec'[i].phase = "dispatched" /\ rec'[i].answer = None
      /\ rec'[i].outcome = None /\ rec'[i].retired = rec[i].retired
  BY <1>1, <1>4 DEF Rows, Records, WellFormed
<1>6. rec'[i] # None /\ rec[i] # None
  BY <1>1, <1>4, RowTypes
<1>7. Sound(i)'
  <2>1. None \notin Outcomes \cup Answers
    BY JournalConstants
  <2>2. ~rec[i].retired
    BY <1>1, <1>6, <2>1, Row DEF Sound, RetiredRefused, Rows, WellFormed, Refusals, Outcomes
  <2>3. QED
    BY <1>4, <1>5, <1>6, <2>1, <2>2 DEF Sound, CallerRecorded, EffectRecorded, RecordTrue,
       JiraAwaits, DocumentRefuses, RetiredRefused, Refusals, Outcomes, Answers
<1>8. \A k \in Invocations : Sound(k)'
  BY <1>4, <1>7, Row, Untouched
<1>9. OneLiveRecord'
  <2>1. \A k \in Invocations : rec'[k] # None =>
            rec[k] # None /\ rec'[k].retired = rec[k].retired
    BY <1>4, <1>5, <1>6
  <2>2. QED BY <2>1 DEF IInv, OneLiveRecord, Recorded
<1>10. OneUnresolvedEffect'
  <2>1. ASSUME NEW k \in Invocations, effect[k] = "wire"
        PROVE  FALSE
    <3>1. rec[k] \in Rows /\ rec[k] # None /\ Sound(k)
      BY <2>1, Row, RowTypes DEF Sound, EffectRecorded
    <3>2. rec[k].phase # "prepared"
      BY <2>1, <3>1 DEF Sound, EffectRecorded
    <3>3. rec[k].phase # "acknowledged"
      BY <2>1, <3>1 DEF Sound, RecordTrue, Rows, WellFormed
    <3>4. rec[k].phase = "settled" => rec[k].outcome = "unknown"
      BY <2>1, <3>1 DEF Sound, RecordTrue, Rows, WellFormed, Records, Outcomes, Refusals
    <3>5. rec[k].phase = "dispatched" \/ rec[k].outcome \in Uncertain
      BY <3>1, <3>2, <3>3, <3>4 DEF Rows, Records, Phases, Uncertain
    <3>6. TurnBarrier(i)
      BY <3>1, <3>5 DEF TurnBarrier, Recorded
    <3>7. QED BY <3>6 DEF BeginDispatch
  <2>2. QED BY <1>4, <2>1 DEF OneUnresolvedEffect
<1>11. QED BY <1>3, <1>8, <1>9, <1>10 DEF IInv

(* A caller's move that leaves the rows and the wire alone.                *)
LEMMA CallerStep ==
    ASSUME IInv, NEW i \in Invocations,
           EndUndispatched(i) \/ AbandonPrepared(i) \/ NoAnswer(i) \/ EndCall(i)
    PROVE  IInv'
<1>1. /\ UNCHANGED <<rec, effect, current>>
      /\ caller[i] # "idle"
      /\ \E c \in {"idle", "finishing"} : caller' = [caller EXCEPT ![i] = c]
  BY DEF EndUndispatched, AbandonPrepared, NoAnswer, EndCall
<1>2. /\ caller'[i] \in {"idle", "finishing"}
      /\ \A k \in Invocations \ {i} : caller'[k] = caller[k]
  BY <1>1 DEF IInv, TypeOK
<1>3. Sound(i)'
  BY <1>1, <1>2, Row DEF Sound, CallerRecorded, EffectRecorded, RecordTrue, JiraAwaits,
     DocumentRefuses, RetiredRefused
<1>4. \A k \in Invocations : Sound(k)'
  BY <1>1, <1>2, <1>3, Row, Untouched
<1>5. TypeOK'
  BY <1>1 DEF IInv, TypeOK, CallerSteps
<1>6. QED BY <1>1, <1>4, <1>5, Frame

LEMMA AnswerStep ==
    ASSUME IInv, NEW i \in Invocations, Answer(i)
    PROVE  IInv'
<1>1. PICK a \in Answers :
        /\ rec' = [rec EXCEPT ![i] = Acknowledged(rec[i], a)]
        /\ a = "ok" => effect[i] = "applied"
        /\ \/ caller' = [caller EXCEPT ![i] = "finishing"]
           \/ /\ caller' = [caller EXCEPT ![i] = "document"]
              /\ SourceOf[i] = "jira"
              /\ a = "definitive" => effect[i] = "refused"
  BY DEF Answer, Answers
<1>2. UNCHANGED <<effect, current>> /\ caller[i] = "sent" /\ rec[i] \in Rows
  BY Row DEF Answer
<1>3. /\ rec'[i] = Acknowledged(rec[i], a)
      /\ \/ caller'[i] = "finishing"
         \/ /\ caller'[i] = "document" /\ SourceOf[i] = "jira"
            /\ a = "definitive" => effect[i] = "refused"
      /\ \A k \in Invocations \ {i} : rec'[k] = rec[k] /\ caller'[k] = caller[k]
  BY <1>1 DEF IInv, TypeOK
<1>4. TypeOK'
  <2>1. rec' \in [Invocations -> Rows \cup {None}]
    BY <1>1, <1>2, RowTypes DEF IInv, TypeOK, Rows
  <2>2. caller' \in [Invocations -> CallerSteps]
    BY <1>1 DEF IInv, TypeOK, CallerSteps
  <2>3. QED BY <1>2, <2>1, <2>2 DEF IInv, TypeOK, Rows
<1>5. rec'[i] # None /\ rec[i] # None
  BY <1>2, <1>3, RowTypes
<1>6. /\ rec'[i].retired = rec[i].retired /\ rec'[i].outcome = rec[i].outcome
      /\ rec[i].phase # "prepared" => rec'[i].phase # "prepared"
      /\ rec'[i].answer \in {rec[i].answer, a}
      /\ rec[i].phase = "dispatched" /\ rec[i].answer = None => rec'[i].answer = a
  BY <1>2, <1>3 DEF Acknowledged, Rows, Records
<1>7. Sound(i)'
  BY <1>1, <1>2, <1>3, <1>5, <1>6, Row DEF Sound, CallerRecorded, EffectRecorded, RecordTrue,
     JiraAwaits, DocumentRefuses, RetiredRefused
<1>8. \A k \in Invocations : Sound(k)'
  BY <1>2, <1>3, <1>7, Row, Untouched
<1>9. \A k \in Invocations : rec'[k] # None =>
          rec[k] # None /\ rec'[k].retired = rec[k].retired
  BY <1>3, <1>5, <1>6
<1>10. QED BY <1>2, <1>4, <1>8, <1>9, Frame
-----------------------------------------------------------------------------
(* Settling a row with an outcome the effect bears out.                    *)
LEMMA SettledSound ==
    ASSUME IInv, NEW k \in Invocations, NEW o \in Outcomes,
           rec[k] \in Rows, rec[k].phase # "settled", rec'[k] = Settled(rec[k], o),
           effect'[k] = effect[k],
           caller'[k] \in {caller[k], "idle"},
           SourceOf[k] = "jira" => caller'[k] = "idle",
           o \in {"succeeded", "succeeded-unconfirmed"} => effect[k] = "applied",
           o \in Refusals => effect[k] \in {"none", "refused"}
    PROVE  Sound(k)' /\ rec'[k].retired = rec[k].retired
<1>1. /\ rec'[k].phase = "settled" /\ rec'[k].outcome = o
      /\ rec'[k].answer = rec[k].answer /\ rec'[k].retired = rec[k].retired
  BY DEF Settled, Rows, Records
<1>2. rec'[k] # None /\ rec[k] # None
  BY RowTypes
<1>3. ~rec[k].retired
  <2>1. rec[k].outcome = None
    BY DEF Rows, WellFormed
  <2>2. None \notin Refusals
    BY JournalConstants DEF Refusals, Outcomes
  <2>3. QED BY <1>2, <2>1, <2>2, Row DEF Sound, RetiredRefused
<1>4. QED
  BY <1>1, <1>2, <1>3, Row DEF Sound, CallerRecorded, EffectRecorded, RecordTrue, JiraAwaits,
     DocumentRefuses, RetiredRefused

(* retainUnconfirmed claims a success only for an acknowledged row.        *)
LEMMA RetainedSound ==
    ASSUME IInv, NEW k \in Invocations, SourceOf[k] = "native",
           rec[k] \in Rows, rec[k].phase # "settled", rec'[k] = RetainUnconfirmed(rec[k]),
           effect'[k] = effect[k], caller'[k] = caller[k]
    PROVE  Sound(k)' /\ rec'[k].retired = rec[k].retired
<1> DEFINE o == IF rec[k].answer = "ok" THEN "succeeded-unconfirmed" ELSE "unknown"
<1>1. o \in Outcomes /\ rec'[k] = Settled(rec[k], o)
  BY DEF Outcomes, RetainUnconfirmed
<1>2. rec[k] # None
  BY RowTypes
<1>3. o \in {"succeeded", "succeeded-unconfirmed"} => effect[k] = "applied"
  BY <1>2, Row DEF Sound, RecordTrue
<1>4. o \notin Refusals
  BY DEF Refusals
<1> HIDE DEF o
<1>5. QED BY <1>1, <1>3, <1>4, SettledSound

LEMMA SettleStep ==
    ASSUME IInv, NEW i \in Invocations, Settle(i)
    PROVE  IInv'
<1>1. PICK o \in Settlement(i) :
        /\ o \in AllowedOutcomes(rec[i], i, caller[i] = "document")
        /\ rec' = [rec EXCEPT ![i] = Settled(rec[i], o)]
  BY DEF Settle
<1>2. /\ caller[i] # "idle" /\ caller' = [caller EXCEPT ![i] = "idle"]
      /\ UNCHANGED <<effect, current>>
  BY DEF Settle
<1>3. rec[i] \in Rows /\ rec[i] # None
  BY <1>2, Row, RowTypes
<1>4. rec[i].phase # "settled" /\ o \in Outcomes
  BY <1>3, SettlesOnce
<1>5. TypeOK'
  <2>1. rec' \in [Invocations -> Rows \cup {None}]
    BY <1>1, <1>3, <1>4, RowTypes DEF IInv, TypeOK, Rows
  <2>2. QED BY <1>2, <2>1 DEF IInv, TypeOK, CallerSteps, Rows
<1>6. /\ rec'[i] = Settled(rec[i], o) /\ caller'[i] = "idle"
      /\ \A k \in Invocations \ {i} : rec'[k] = rec[k] /\ caller'[k] = caller[k]
  BY <1>1, <1>2 DEF IInv, TypeOK
<1>7. o \in {"succeeded", "succeeded-unconfirmed"} => effect[i] = "applied"
  BY <1>1, <1>3, Row DEF AllowedOutcomes, Refusals, Sound, RecordTrue
<1>8. o \in Refusals => effect[i] \in {"none", "refused"}
  BY <1>1, <1>3, Row DEF AllowedOutcomes, DefinitiveRejectionStatus, Refusals, Sound,
     EffectRecorded, DocumentRefuses
<1>9. Sound(i)' /\ rec'[i].retired = rec[i].retired
  BY <1>2, <1>3, <1>4, <1>6, <1>7, <1>8, SettledSound
<1>10. \A k \in Invocations : Sound(k)'
  BY <1>2, <1>6, <1>9, Row, Untouched
<1>11. \A k \in Invocations : rec'[k] # None =>
           rec[k] # None /\ rec'[k].retired = rec[k].retired
  BY <1>3, <1>6, <1>9
<1>12. QED BY <1>2, <1>5, <1>10, <1>11, Frame

LEMMA ReleaseTwinStep ==
    ASSUME IInv, NEW i \in Invocations, ReleaseTwin(i)
    PROVE  IInv'
<1> DEFINE new == IF rec[i].phase = "prepared" THEN Settled(rec[i], "not-dispatched")
                  ELSE RetainUnconfirmed(rec[i])
<1>1. /\ SourceOf[i] = "native" /\ caller[i] # "idle" /\ rec[i].phase # "settled"
      /\ rec' = [rec EXCEPT ![i] = new]
      /\ UNCHANGED <<caller, effect, current>>
  BY DEF ReleaseTwin
<1>2. rec[i] \in Rows /\ rec[i] # None
  BY <1>1, Row, RowTypes
<1>3. new \in Rows
  BY <1>2, RowTypes DEF Outcomes
<1>4. rec'[i] = new /\ \A k \in Invocations \ {i} : rec'[k] = rec[k]
  BY <1>1 DEF IInv, TypeOK
<1>5. TypeOK'
  <2>1. rec' \in [Invocations -> Rows \cup {None}]
    BY <1>1, <1>3 DEF IInv, TypeOK, Rows
  <2>2. QED BY <1>1, <2>1 DEF IInv, TypeOK, Rows
<1>6. Sound(i)' /\ rec'[i].retired = rec[i].retired
  <2>1. CASE rec[i].phase = "prepared"
    <3>1. effect[i] = "none"
      BY <2>1, Row DEF Sound, EffectRecorded
    <3>2. QED BY <1>1, <1>2, <1>4, <2>1, <3>1, SettledSound DEF Outcomes
  <2>2. CASE rec[i].phase # "prepared"
    BY <1>1, <1>2, <1>4, <2>2, RetainedSound
  <2>3. QED BY <2>1, <2>2
<1>7. \A k \in Invocations : Sound(k)'
  BY <1>1, <1>4, <1>6, Row, Untouched
<1>8. \A k \in Invocations : rec'[k] # None =>
          rec[k] # None /\ rec'[k].retired = rec[k].retired
  BY <1>2, <1>4, <1>6
<1>9. QED BY <1>1, <1>5, <1>7, <1>8, Frame

LEMMA ObserveCompletionStep ==
    ASSUME IInv, NEW c, NEW success \in BOOLEAN, ObserveCompletion(c, success)
    PROVE  IInv'
<1> DEFINE open == {i \in UnsettledNative : CallOf[i] = c}
           confirmed == /\ success
                        /\ \A i \in open : rec[i].phase = "acknowledged"
                        /\ \A i \in UncertainNative : CallOf[i] # c
<1>0. PICK done \in SUBSET open :
          rec' = [i \in Invocations |-> IF i \notin done THEN rec[i]
                                        ELSE IF confirmed THEN Settled(rec[i], "succeeded")
                                        ELSE RetainUnconfirmed(rec[i])]
  BY DEF ObserveCompletion
<1>1. UNCHANGED <<caller, effect, current>>
  BY DEF ObserveCompletion
<1>2. ASSUME NEW k \in Invocations
      PROVE  \/ k \notin done /\ rec'[k] = rec[k]
             \/ /\ k \in done
                /\ \/ rec[k].phase = "acknowledged" /\ rec'[k] = Settled(rec[k], "succeeded")
                   \/ rec'[k] = RetainUnconfirmed(rec[k])
  BY <1>0
<1>3. ASSUME NEW k \in Invocations, k \in done
      PROVE  SourceOf[k] = "native" /\ rec[k] \in Rows /\ rec[k].phase # "settled"
  BY <1>0, <1>3, Row DEF UnsettledNative, Recorded
<1>4. ASSUME NEW k \in Invocations
      PROVE  /\ Sound(k)'
             /\ rec'[k] \in Rows \cup {None}
             /\ rec'[k] # None => rec[k] # None /\ rec'[k].retired = rec[k].retired
  <2>1. CASE k \notin done
    BY <1>1, <1>2, <2>1, Row, Untouched
  <2>2. CASE k \in done /\ rec'[k] = RetainUnconfirmed(rec[k])
    BY <1>1, <1>3, <2>2, RetainedSound, RowTypes
  <2>3. CASE /\ k \in done /\ rec[k].phase = "acknowledged"
             /\ rec'[k] = Settled(rec[k], "succeeded")
    <3>1. effect[k] = "applied"
      BY <1>3, <2>3, Row, RowTypes DEF Sound, RecordTrue, Rows, WellFormed
    <3>2. "succeeded" \in Outcomes \ Refusals
      BY DEF Outcomes, Refusals
    <3>3. Sound(k)' /\ rec'[k].retired = rec[k].retired
      BY <1>1, <1>3, <2>3, <3>1, <3>2, SettledSound
    <3>4. QED BY <1>3, <2>3, <3>2, <3>3, RowTypes
  <2>4. QED BY <1>2, <2>1, <2>2, <2>3
<1>5. TypeOK'
  <2>1. rec' \in [Invocations -> Rows \cup {None}]
    BY <1>0, <1>4
  <2>2. QED BY <1>1, <2>1 DEF IInv, TypeOK, Rows
<1>6. QED BY <1>1, <1>4, <1>5, Frame

LEMMA SettleUnconfirmedStep ==
    ASSUME IInv, SettleUnconfirmed
    PROVE  IInv'
<1>0. PICK done \in SUBSET UnsettledNative :
          rec' = [i \in Invocations |-> IF i \in done THEN RetainUnconfirmed(rec[i]) ELSE rec[i]]
  BY DEF SettleUnconfirmed
<1>1. UNCHANGED <<caller, effect, current>>
  BY DEF SettleUnconfirmed
<1>2. ASSUME NEW k \in Invocations
      PROVE  /\ Sound(k)'
             /\ rec'[k] \in Rows \cup {None}
             /\ rec'[k] # None => rec[k] # None /\ rec'[k].retired = rec[k].retired
  <2>1. CASE k \notin done
    <3>1. rec'[k] = rec[k]
      BY <1>0, <2>1
    <3>2. QED BY <1>1, <3>1, Row, Untouched
  <2>2. CASE k \in done
    <3>1. /\ SourceOf[k] = "native" /\ rec[k] \in Rows /\ rec[k].phase # "settled"
          /\ rec'[k] = RetainUnconfirmed(rec[k])
      BY <1>0, <2>2, Row DEF UnsettledNative, Recorded
    <3>2. QED BY <1>1, <3>1, RetainedSound, RowTypes
  <2>3. QED BY <2>1, <2>2
<1>3. TypeOK'
  <2>1. rec' \in [Invocations -> Rows \cup {None}]
    BY <1>0, <1>2
  <2>2. QED BY <1>1, <2>1 DEF IInv, TypeOK, Rows
<1>4. QED BY <1>1, <1>2, <1>3, Frame

(* The provider decides, the turn ends, the process dies.                  *)
LEMMA EnvironmentStep ==
    ASSUME IInv, (\E i \in Invocations : Provider(i)) \/ EndTurn \/ Crash
    PROVE  IInv'
<1>1. CASE \E i \in Invocations : Provider(i)
  <2>1. PICK i \in Invocations : Provider(i)
    BY <1>1
  <2>2. /\ UNCHANGED <<rec, caller, current>> /\ effect[i] = "wire"
        /\ effect'[i] \in {"applied", "refused"} /\ effect' \in [Invocations -> Effects]
        /\ \A k \in Invocations \ {i} : effect'[k] = effect[k]
    BY <2>1 DEF Provider, IInv, TypeOK, Effects
  <2>3. Sound(i)'
    BY <2>2, Row DEF Sound, CallerRecorded, EffectRecorded, RecordTrue, JiraAwaits,
       DocumentRefuses, RetiredRefused
  <2>4. \A k \in Invocations : Sound(k)'
    BY <2>2, <2>3, Row, Untouched
  <2>5. TypeOK'
    BY <2>2 DEF IInv, TypeOK
  <2>6. QED BY <2>2, <2>4, <2>5, Frame
<1>2. CASE EndTurn
  <2>1. UNCHANGED <<rec, caller, effect>> /\ current' = FALSE
    BY <1>2 DEF EndTurn
  <2>2. \A k \in Invocations : Sound(k)'
    BY <2>1, Row, Untouched
  <2>3. TypeOK'
    BY <2>1 DEF IInv, TypeOK
  <2>4. QED BY <2>1, <2>2, <2>3, Frame
<1>3. CASE Crash
  <2>1. UNCHANGED <<rec, effect, current>> /\ caller' = [k \in Invocations |-> "idle"]
    BY <1>3 DEF Crash
  <2>2. ASSUME NEW k \in Invocations PROVE Sound(k)'
    BY <2>1, Row DEF Sound, CallerRecorded, EffectRecorded, RecordTrue, JiraAwaits,
       DocumentRefuses, RetiredRefused
  <2>3. TypeOK'
    BY <2>1 DEF IInv, TypeOK, CallerSteps
  <2>4. QED BY <2>1, <2>2, <2>3, Frame
<1>4. QED BY <1>1, <1>2, <1>3
-----------------------------------------------------------------------------
(* The inductive invariant holds in every reachable state of the journal,  *)
(* its callers and the provider.                                           *)
THEOREM JournalInductive == Spec => []IInv
<1>1. Init => IInv
  <2> SUFFICES ASSUME Init PROVE IInv
    OBVIOUS
  <2>1. TypeOK
    BY DEF Init, TypeOK, CallerSteps, Effects
  <2>2. ASSUME NEW k \in Invocations PROVE Sound(k)
    BY DEF Init, Sound, CallerRecorded, EffectRecorded, RecordTrue, JiraAwaits,
       DocumentRefuses, RetiredRefused
  <2>3. OneLiveRecord /\ OneUnresolvedEffect
    BY DEF Init, OneLiveRecord, Recorded, OneUnresolvedEffect
  <2>4. QED BY <2>1, <2>2, <2>3 DEF IInv
<1>2. IInv /\ [Next]_vars => IInv'
  <2> SUFFICES ASSUME IInv, [Next]_vars PROVE IInv'
    OBVIOUS
  <2>1. ASSUME NEW i \in Invocations, Prepare(i) PROVE IInv'
    BY <2>1, PrepareStep
  <2>2. ASSUME NEW i \in Invocations, BeginDispatch(i) PROVE IInv'
    BY <2>2, BeginDispatchStep
  <2>3. ASSUME NEW i \in Invocations,
               EndUndispatched(i) \/ AbandonPrepared(i) \/ NoAnswer(i) \/ EndCall(i)
        PROVE  IInv'
    BY <2>3, CallerStep
  <2>4. ASSUME NEW i \in Invocations, Answer(i) PROVE IInv'
    BY <2>4, AnswerStep
  <2>5. ASSUME NEW i \in Invocations, Settle(i) PROVE IInv'
    BY <2>5, SettleStep
  <2>6. ASSUME NEW i \in Invocations, ReleaseTwin(i) PROVE IInv'
    BY <2>6, ReleaseTwinStep
  <2>7. ASSUME NEW c \in NativeCalls, NEW success \in BOOLEAN, ObserveCompletion(c, success)
        PROVE  IInv'
    BY <2>7, ObserveCompletionStep
  <2>8. ASSUME SettleUnconfirmed PROVE IInv'
    BY <2>8, SettleUnconfirmedStep
  <2>9. ASSUME (\E i \in Invocations : Provider(i)) \/ EndTurn \/ Crash PROVE IInv'
    BY <2>9, EnvironmentStep
  <2>10. CASE UNCHANGED vars
    <3>1. rec' = rec /\ caller' = caller /\ effect' = effect /\ current' = current
      BY <2>10 DEF vars
    <3>2. \A k \in Invocations : Sound(k)'
      BY <3>1, Row, Untouched
    <3>3. TypeOK'
      BY <3>1 DEF IInv, TypeOK
    <3>4. QED BY <3>1, <3>2, <3>3, Frame
  <2>11. QED
    BY <2>1, <2>2, <2>3, <2>4, <2>5, <2>6, <2>7, <2>8, <2>9, <2>10 DEF Next
<1>3. QED BY <1>1, <1>2, PTL DEF Spec

(* Every row of the journal satisfies the table's constraints at all       *)
(* times: no transaction of the store can be refused by SQLite for them.   *)
THEOREM JournalTypeCorrect == Spec => []TypeOK
<1>1. IInv => TypeOK
  BY DEF IInv
<1>2. QED BY <1>1, JournalInductive, PTL

(* What the journal reports of a write is true of the provider, through    *)
(* lost answers, crashes and late completions.                             *)
THEOREM Truthful == Spec => []TruthfulOutcome
<1>1. IInv => TruthfulOutcome
  BY SoundIsTruthful DEF IInv
<1>2. QED BY <1>1, JournalInductive, PTL

(* No action of a turn takes effect twice: at most one of its records was  *)
(* not retired, and a retired one had no effect.                           *)
THEOREM AtMostOnce == Spec => []NoDoubleEffect
<1>1. IInv => NoDoubleEffect
  <2> SUFFICES ASSUME IInv PROVE NoDoubleEffect
    OBVIOUS
  <2>1. ASSUME NEW i \in Invocations, effect[i] = "applied"
        PROVE  i \in Recorded /\ ~rec[i].retired
    BY <2>1, Row DEF Sound, EffectRecorded, RecordTrue, RetiredRefused, Recorded
  <2>2. QED BY <2>1 DEF NoDoubleEffect, OneLiveRecord, IInv
<1>2. QED BY <1>1, JournalInductive, PTL

(* A turn never sends a write while the fate of another is open.           *)
THEOREM OneOpenEffect == Spec => []OneUnresolvedEffect
<1>1. IInv => OneUnresolvedEffect
  BY DEF IInv
<1>2. QED BY <1>1, JournalInductive, PTL
-----------------------------------------------------------------------------
(* The per-turn bound: besides prepare, a transaction only writes rows that *)
(* are not settled yet, so only prepare adds to what a turn holds.         *)

(* A row that is written was there and was not a refusal.                  *)
WritesOpenRows ==
    \A k \in Invocations :
        rec'[k] = rec[k] \/ (rec[k] # None /\ rec[k].outcome \notin Refusals)

LEMMA OpenRow ==
    ASSUME NEW r \in Rows, r.phase # "settled"
    PROVE  r # None /\ r.outcome \notin Refusals
<1>1. r.outcome = None /\ r # None
  BY RowTypes DEF Rows, WellFormed
<1>2. None \notin Refusals
  BY JournalConstants DEF Refusals, Outcomes
<1>3. QED BY <1>1, <1>2

LEMMA OnlyOpenRows ==
    ASSUME IInv, Next, ~\E i \in Invocations : Prepare(i)
    PROVE  WritesOpenRows
<1>1. rec \in [Invocations -> Rows \cup {None}]
  BY DEF IInv, TypeOK, Rows
<1>2. ASSUME NEW i \in Invocations, BeginDispatch(i) PROVE WritesOpenRows
  <2>1. rec[i] \in Rows /\ rec[i].phase # "settled"
    BY <1>2, Row DEF BeginDispatch
  <2>2. QED BY <1>1, <1>2, <2>1, OpenRow DEF WritesOpenRows, BeginDispatch
<1>3. ASSUME NEW i \in Invocations, Answer(i) PROVE WritesOpenRows
  <2>1. rec[i] \in Rows
    BY <1>3, Row DEF Answer
  <2>2. PICK answer \in Answers : rec' = [rec EXCEPT ![i] = Acknowledged(@, answer)]
    BY <1>3 DEF Answer, Answers
  <2>3. Acknowledged(rec[i], answer) = rec[i] \/ rec[i].phase # "settled"
    BY DEF Acknowledged
  <2>4. QED BY <1>1, <2>1, <2>2, <2>3, OpenRow DEF WritesOpenRows
<1>4. ASSUME NEW i \in Invocations, Settle(i) PROVE WritesOpenRows
  <2>1. rec[i] \in Rows
    BY <1>4, Row DEF Settle
  <2>2. PICK o \in Settlement(i) : rec' = [rec EXCEPT ![i] = Settled(@, o)]
    BY <1>4 DEF Settle
  <2>3. rec[i].phase # "settled"
    BY <2>1, SettlesOnce
  <2>4. QED BY <1>1, <2>1, <2>2, <2>3, OpenRow DEF WritesOpenRows
<1>5. ASSUME NEW i \in Invocations, ReleaseTwin(i) PROVE WritesOpenRows
  <2>1. rec[i] \in Rows /\ rec[i].phase # "settled"
    BY <1>5, Row DEF ReleaseTwin
  <2>2. QED BY <1>1, <1>5, <2>1, OpenRow DEF WritesOpenRows, ReleaseTwin
<1>6. ASSUME NEW c, NEW success, ObserveCompletion(c, success) PROVE WritesOpenRows
  <2>1. \A k \in UnsettledNative : rec[k] \in Rows /\ rec[k].phase # "settled"
    BY <1>1 DEF UnsettledNative, Recorded
  <2>2. \A k \in Invocations : k \notin UnsettledNative => rec'[k] = rec[k]
    BY <1>6 DEF ObserveCompletion
  <2>3. QED BY <2>1, <2>2, OpenRow DEF WritesOpenRows
<1>7. ASSUME SettleUnconfirmed PROVE WritesOpenRows
  <2>1. \A k \in UnsettledNative : rec[k] \in Rows /\ rec[k].phase # "settled"
    BY <1>1 DEF UnsettledNative, Recorded
  <2>2. \A k \in Invocations : k \notin UnsettledNative => rec'[k] = rec[k]
    BY <1>7 DEF SettleUnconfirmed
  <2>3. QED BY <2>1, <2>2, OpenRow DEF WritesOpenRows
<1>8. CASE UNCHANGED rec
  BY <1>8 DEF WritesOpenRows
<1>9. QED
  BY <1>2, <1>3, <1>4, <1>5, <1>6, <1>7, <1>8
  DEF Next, EndUndispatched, AbandonPrepared, NoAnswer, EndCall, Provider, EndTurn, Crash

(* prepare adds itself at most, and not when the turn is full.             *)
LEMMA PrepareHolds ==
    ASSUME IInv, NEW i \in Invocations, Prepare(i)
    PROVE  /\ HeldSingleWrites' \subseteq HeldSingleWrites \cup {i}
           /\ \/ HeldSingleWrites' \subseteq HeldSingleWrites
              \/ ~(Cardinality(HeldSingleWrites) >= MaxHeld)
<1>1. rec \in [Invocations -> Rows \cup {None}]
  BY DEF IInv, TypeOK, Rows
<1>2. \A k \in Invocations : k \in Prior(i) => rec[k] \in Rows
  BY <1>1 DEF Prior, Recorded
<1>3. \A k \in Invocations : /\ (Retired(i)[k] = None) <=> (rec[k] = None)
                             /\ rec[k] # None => Retired(i)[k].outcome = rec[k].outcome
  <2>1. \A k \in Invocations : k \in Prior(i) =>
            [rec[k] EXCEPT !.retired = TRUE] \in Rows
            /\ [rec[k] EXCEPT !.retired = TRUE].outcome = rec[k].outcome
    BY <1>2, RowTypes DEF Rows, Records
  <2>2. QED BY <1>2, <2>1, RowTypes DEF Retired
<1>4. /\ DOMAIN Retired(i) = Invocations
      /\ rec' = Retired(i) \/ (~BlockedTurn(i) /\ rec' = [Retired(i) EXCEPT ![i] = Prepared])
  <2>1. DOMAIN Retired(i) = Invocations
    BY DEF Retired
  <2>2. QED BY <2>1 DEF Prepare
<1>5. PICK ret :
        /\ \A k \in Invocations : /\ (ret[k] = None) <=> (rec[k] = None)
                                  /\ rec[k] # None => ret[k].outcome = rec[k].outcome
        /\ DOMAIN ret = Invocations
        /\ rec' = ret \/ (~BlockedTurn(i) /\ rec' = [ret EXCEPT ![i] = Prepared])
  BY <1>3, <1>4
<1>6. ASSUME NEW k \in HeldSingleWrites', rec'[k] = ret[k] PROVE k \in HeldSingleWrites
  <2>1. /\ k \in Invocations /\ rec'[k] # None
        /\ k \notin BatchItems /\ rec'[k].outcome \notin Refusals
    BY DEF HeldSingleWrites, Recorded
  <2>2. rec[k] # None /\ ret[k].outcome = rec[k].outcome
    <3>1. ret[k] # None
      BY <1>6, <2>1
    <3>2. rec[k] # None
      BY <1>5, <2>1, <3>1
    <3>3. QED BY <1>5, <2>1, <3>2
  <2>3. rec'[k].outcome = rec[k].outcome
    BY <1>6, <2>2
  <2>4. QED BY <2>1, <2>2, <2>3 DEF HeldSingleWrites, Recorded
<1>7. CASE rec' = ret
  BY <1>6, <1>7
<1>8. CASE ~BlockedTurn(i) /\ rec' = [ret EXCEPT ![i] = Prepared]
  <2>1. \A k \in Invocations : k # i => rec'[k] = ret[k]
    BY <1>5, <1>8
  <2>2. HeldSingleWrites' \subseteq Invocations
    BY DEF HeldSingleWrites, Recorded
  <2>3. HeldSingleWrites' \subseteq HeldSingleWrites \cup {i}
    BY <1>6, <2>1, <2>2
  <2>4. CASE i \in BatchItems
    <3>1. i \notin HeldSingleWrites'
      BY <2>4 DEF HeldSingleWrites
    <3>2. QED BY <2>3, <3>1
  <2>5. CASE ~(Cardinality(HeldSingleWrites) >= MaxHeld)
    BY <2>3, <2>5
  <2>6. QED BY <1>8, <2>4, <2>5 DEF BlockedTurn, CapacityReached
<1>9. QED BY <1>5, <1>7, <1>8

(* A turn never holds more single writes that may have reached a provider  *)
(* than MAX_MUTATIONS_PER_TURN (turnBarrier's capacity test in prepare),   *)
(* for any bound and any finite set of invocations.                        *)
THEOREM HeldBounded == Spec => []HeldWithinBound
<1>1. Init => HeldWithinBound
  <2> SUFFICES ASSUME Init PROVE HeldWithinBound
    OBVIOUS
  <2>1. HeldSingleWrites = {}
    BY DEF Init, HeldSingleWrites, Recorded
  <2>2. QED BY <2>1, FS_EmptySet, JournalConstants DEF HeldWithinBound
<1>2. IInv /\ HeldWithinBound /\ [Next]_vars => HeldWithinBound'
  <2> SUFFICES ASSUME IInv, HeldWithinBound, [Next]_vars PROVE HeldWithinBound'
    OBVIOUS
  <2>1. IsFiniteSet(HeldSingleWrites) /\ IsFiniteSet(HeldSingleWrites')
    <3>1. HeldSingleWrites \subseteq Invocations /\ HeldSingleWrites' \subseteq Invocations
      BY DEF HeldSingleWrites, Recorded
    <3>2. QED BY <3>1, FS_Subset, JournalConstants
  <2>2. Cardinality(HeldSingleWrites) \in Nat /\ Cardinality(HeldSingleWrites') \in Nat
    BY <2>1, FS_CardinalityType
  <2>3. ASSUME HeldSingleWrites' \subseteq HeldSingleWrites PROVE HeldWithinBound'
    <3>1. Cardinality(HeldSingleWrites') <= Cardinality(HeldSingleWrites)
      BY <2>1, <2>3, FS_Subset
    <3>2. QED BY <2>2, <3>1, JournalConstants DEF HeldWithinBound
  <2>4. CASE UNCHANGED vars
    BY <2>3, <2>4 DEF vars, HeldSingleWrites, Recorded
  <2>5. ASSUME NEW i \in Invocations, Prepare(i) PROVE HeldWithinBound'
    <3>1. CASE HeldSingleWrites' \subseteq HeldSingleWrites
      BY <2>3, <3>1
    <3>2. CASE ~(Cardinality(HeldSingleWrites) >= MaxHeld)
      <4> DEFINE more == HeldSingleWrites \cup {i}
      <4>1. /\ IsFiniteSet(more)
            /\ Cardinality(more) \in {Cardinality(HeldSingleWrites), Cardinality(HeldSingleWrites) + 1}
        BY <2>1, FS_AddElement
      <4>2. HeldSingleWrites' \subseteq more
        BY <2>5, PrepareHolds
      <4> HIDE DEF more
      <4>3. Cardinality(HeldSingleWrites') <= Cardinality(more)
        BY <4>1, <4>2, FS_Subset
      <4>4. QED BY <2>2, <3>2, <4>1, <4>3, JournalConstants DEF HeldWithinBound
    <3>3. QED BY <2>5, <3>1, <3>2, PrepareHolds
  <2>6. CASE Next /\ ~\E i \in Invocations : Prepare(i)
    <3>1. WritesOpenRows
      BY <2>6, OnlyOpenRows
    <3>2. HeldSingleWrites' \subseteq HeldSingleWrites
      BY <3>1 DEF WritesOpenRows, HeldSingleWrites, Recorded
    <3>3. QED BY <2>3, <3>2
  <2>7. QED BY <2>4, <2>5, <2>6
<1>3. QED BY <1>1, <1>2, JournalInductive, PTL DEF Spec
-----------------------------------------------------------------------------
(* The journal implements GovernedWrite.  Crash, EndTurn and the moves of  *)
(* a caller leave what is told alone; so do a twin's release and the       *)
(* recovery of a run, which only put into the row what was told already.   *)

(* What is told of a row, and what settling it makes of the story.         *)
LEMMA Stories ==
    ASSUME NEW r \in Rows
    PROVE  /\ ObservedOutcome(r) \in Outcomes
           /\ r.phase = "prepared" => ObservedOutcome(r) = "not-dispatched"
           /\ r.phase = "dispatched" => ObservedOutcome(r) = "unknown" /\ r.answer # "ok"
           /\ r.phase = "acknowledged" =>
                  ObservedOutcome(r) = "succeeded-unconfirmed" /\ r.answer = "ok"
           /\ r.phase = "settled" => ObservedOutcome(r) = r.outcome
           /\ r.outcome \in Outcomes => r.phase = "settled"
           /\ r.phase \in Phases
           /\ ObservedOutcome([r EXCEPT !.retired = TRUE]) = ObservedOutcome(r)
<1>1. None \notin Outcomes
  BY JournalConstants
<1>2. /\ r.phase \in Phases /\ r.outcome \in Outcomes \cup {None}
      /\ r.phase = "settled" <=> r.outcome # None
      /\ r.phase = "dispatched" => r.answer # "ok"
      /\ r.phase = "acknowledged" => r.answer = "ok"
  BY DEF Rows, Records, WellFormed
<1>3. /\ [r EXCEPT !.retired = TRUE].phase = r.phase
      /\ [r EXCEPT !.retired = TRUE].outcome = r.outcome
  BY DEF Rows, Records
<1>4. ObservedOutcome([r EXCEPT !.retired = TRUE]) = ObservedOutcome(r)
  BY <1>3 DEF ObservedOutcome
<1>5. QED BY <1>1, <1>2, <1>4 DEF ObservedOutcome, Outcomes, Phases

LEMMA SettledStory ==
    ASSUME NEW r \in Rows, NEW o \in Outcomes
    PROVE  ObservedOutcome(Settled(r, o)) = o
<1>1. Settled(r, o).phase = "settled" /\ Settled(r, o).outcome = o
  BY DEF Settled, Rows, Records
<1>2. QED BY <1>1 DEF ObservedOutcome

(* retainUnconfirmed stores what was told of the row before.               *)
LEMMA RetainedStory ==
    ASSUME NEW r \in Rows, r.phase \in {"dispatched", "acknowledged"}
    PROVE  ObservedOutcome(RetainUnconfirmed(r)) = ObservedOutcome(r)
<1> DEFINE o == IF r.answer = "ok" THEN "succeeded-unconfirmed" ELSE "unknown"
<1>1. o \in Outcomes /\ RetainUnconfirmed(r) = Settled(r, o)
  BY DEF RetainUnconfirmed, Outcomes
<1>2. o = ObservedOutcome(r)
  BY Stories
<1> HIDE DEF o
<1>3. QED BY <1>1, <1>2, SettledStory

(* The story of one write, before and after a step.                        *)
LEMMA Teller ==
    ASSUME IInv, NEW k \in Invocations
    PROVE  /\ (Told[k] = None) <=> (rec[k] = None)
           /\ rec[k] # None => /\ rec[k] \in Rows
                               /\ Told[k] = ObservedOutcome(rec[k])
                               /\ Told[k] \in Outcomes
<1>1. rec[k] \in Rows \cup {None}
  BY Row
<1>2. None \notin Outcomes
  BY JournalConstants
<1>3. QED BY <1>1, <1>2, Stories DEF Told

LEMMA TellerNext ==
    ASSUME NEW k \in Invocations
    PROVE  /\ rec'[k] = rec[k] => Told'[k] = Told[k]
           /\ rec'[k] \in Rows => Told'[k] = ObservedOutcome(rec'[k])
  BY RowTypes DEF Told

(* Told as a function, and what it means that one story changes.           *)
LEMMA OneStory ==
    ASSUME NEW i \in Invocations, \A k \in Invocations \ {i} : Told'[k] = Told[k]
    PROVE  Told' = [Told EXCEPT ![i] = Told'[i]]
  BY DEF Told

LEMMA NoStory ==
    ASSUME \A k \in Invocations : Told'[k] = Told[k], effect' = effect
    PROVE  UNCHANGED <<Told, effect>>
  BY DEF Told

PromisedStep == [Write!Next]_<<Told, effect>>

LEMMA PromisedOne ==
    ASSUME NEW i \in Invocations,
           \/ Write!Register(i) \/ Write!Decline(i) \/ Write!Send(i)
           \/ Write!Land(i) \/ Write!Learn(i) \/ Write!Confirm(i)
    PROVE  PromisedStep
  BY DEF PromisedStep, Write!Next

(* prepare tells of a new write, of an action whose records were refused.  *)
LEMMA PrepareRefines ==
    ASSUME IInv, NEW i \in Invocations, Prepare(i)
    PROVE  PromisedStep
<1>1. effect' = effect
  BY DEF Prepare
<1>2. ASSUME NEW k \in Invocations, rec'[k] = Retired(i)[k] PROVE Told'[k] = Told[k]
  <2>1. CASE k \in Prior(i)
    <3>1. rec[k] \in Rows /\ rec[k] # None
      BY <2>1, Teller DEF Prior, Recorded
    <3>2. rec'[k] = [rec[k] EXCEPT !.retired = TRUE]
      BY <1>2, <2>1 DEF Retired
    <3>3. rec'[k] \in Rows
      BY <3>1, <3>2, RowTypes
    <3>4. QED BY <3>1, <3>2, <3>3, Stories, Teller, TellerNext
  <2>2. CASE k \notin Prior(i)
    BY <1>2, <2>2, TellerNext DEF Retired
  <2>3. QED BY <2>1, <2>2
<1>3. CASE rec' = Retired(i)
  BY <1>1, <1>2, <1>3, NoStory DEF PromisedStep
<1>4. CASE rec[i] = None /\ rec' = [Retired(i) EXCEPT ![i] = Prepared]
  <2>1. rec'[i] = Prepared /\ \A k \in Invocations \ {i} : rec'[k] = Retired(i)[k]
    BY <1>4 DEF Retired
  <2>2. Told[i] = None
    BY <1>4, Teller
  <2>3. Told'[i] = "not-dispatched"
    <3>1. Prepared \in Rows /\ Prepared.phase = "prepared"
      BY RowTypes DEF Prepared
    <3>2. QED BY <2>1, <3>1, Stories, TellerNext
  <2>4. Told' = [Told EXCEPT ![i] = "not-dispatched"]
    BY <1>2, <2>1, <2>3, OneStory
  <2>5. ASSUME NEW j \in Invocations, ActionOf[j] = ActionOf[i], Told[j] # None
        PROVE  Told[j] \in Refusals
    <3>1. rec[j] # None /\ rec[j] \in Rows /\ Told[j] = ObservedOutcome(rec[j])
      BY <2>5, Teller
    <3>2. rec[j].outcome \in Refusals
      <4>1. CASE rec[j].retired
        BY <3>1, <4>1, Row DEF Sound, RetiredRefused
      <4>2. CASE ~rec[j].retired
        BY <2>5, <3>1, <4>2 DEF Prepare, Prior, Recorded, RetryableAttachment
      <4>3. QED BY <4>1, <4>2
    <3>3. QED BY <3>1, <3>2, Stories DEF Refusals, Outcomes
  <2>6. Write!Register(i)
    BY <1>1, <2>2, <2>4, <2>5 DEF Write!Register, Write!Refused, Refusals
  <2>7. QED BY <2>6, PromisedOne
<1>5. QED BY <1>3, <1>4 DEF Prepare

(* beginDispatch sends, with every other fate of the turn known.           *)
LEMMA BeginDispatchRefines ==
    ASSUME IInv, NEW i \in Invocations, BeginDispatch(i)
    PROVE  PromisedStep
<1>1. rec[i] \in Rows /\ rec[i] # None /\ rec[i].phase = "prepared" /\ ~TurnBarrier(i)
  BY Row, RowTypes DEF BeginDispatch
<1>2. /\ rec' = [rec EXCEPT ![i] = [rec[i] EXCEPT !.phase = "dispatched"]]
      /\ effect' = [effect EXCEPT ![i] = "wire"]
  BY DEF BeginDispatch
<1>3. effect[i] = "none" /\ Told[i] = "not-dispatched"
  BY <1>1, Row, Teller, Stories DEF Sound, EffectRecorded
<1>4. Told' = [Told EXCEPT ![i] = "unknown"]
  <2>1. /\ rec'[i] = [rec[i] EXCEPT !.phase = "dispatched"]
        /\ \A k \in Invocations \ {i} : rec'[k] = rec[k]
    BY <1>2 DEF IInv, TypeOK
  <2>2. rec'[i] \in Rows /\ rec'[i].phase = "dispatched"
    <3>1. [rec[i] EXCEPT !.phase = "dispatched"] \in Rows
      BY <1>1, RowTypes
    <3>2. [rec[i] EXCEPT !.phase = "dispatched"].phase = "dispatched"
      BY <1>1 DEF Rows, Records
    <3>3. QED BY <2>1, <3>1, <3>2
  <2>3. Told'[i] = "unknown"
    BY <2>2, Stories, TellerNext
  <2>4. QED BY <2>1, <2>3, OneStory, TellerNext
<1>5. ASSUME NEW j \in Invocations, rec[j] # None
      PROVE  /\ Told[j] # "unknown"
             /\ Told[j] = "succeeded-unconfirmed" => CallOf[i] # None /\ CallOf[j] = CallOf[i]
             /\ effect[j] # "wire"
             /\ ActionOf[j] = ActionOf[i] => effect[j] # "applied"
  <2>1. rec[j] \in Rows /\ Told[j] = ObservedOutcome(rec[j])
    BY <1>5, Teller
  <2>2. /\ rec[j].outcome \notin Uncertain
        /\ rec[j].phase # "dispatched"
        /\ rec[j].phase = "acknowledged" => CallOf[i] # None /\ CallOf[j] = CallOf[i]
    BY <1>1, <1>5 DEF TurnBarrier, Recorded, ObservedWithinNativeCall
  <2>3. Told[j] # "unknown"
    BY <2>1, <2>2, Stories DEF Uncertain, Phases
  <2>4. Told[j] = "succeeded-unconfirmed" => rec[j].phase = "acknowledged"
    BY <2>1, <2>2, Stories DEF Uncertain, Phases
  <2>5. effect[j] # "wire"
    <3>1. /\ rec[j].phase \in Phases
          /\ rec[j].phase = "prepared" => effect[j] = "none"
      BY <1>5, <2>1, Stories, Row DEF Sound, EffectRecorded
    <3>2. rec[j].phase = "acknowledged" => effect[j] = "applied"
      BY <1>5, <2>1, Stories, Row DEF Sound, RecordTrue
    <3>3. rec[j].phase = "settled" => effect[j] # "wire"
      <4>1. rec[j].phase = "settled" => rec[j].outcome \in Outcomes
        BY <2>1, Stories
      <4>2. RecordTrue(j)
        BY Row DEF Sound
      <4>3. QED BY <1>5, <2>2, <4>1, <4>2 DEF RecordTrue, Outcomes, Uncertain, Refusals
    <3>4. QED BY <2>2, <3>1, <3>2, <3>3 DEF Phases
  <2>6. ASSUME ActionOf[j] = ActionOf[i], effect[j] = "applied" PROVE FALSE
    <3>1. ~rec[j].retired
      BY <1>5, <2>6, Row DEF Sound, RecordTrue, RetiredRefused
    <3>2. None \notin Refusals
      BY JournalConstants DEF Refusals, Outcomes
    <3>3. ~rec[i].retired
      BY <1>1, <3>2, Row DEF Sound, RetiredRefused, Rows, WellFormed
    <3>4. i = j
      BY <1>1, <1>5, <2>6, <3>1, <3>3 DEF IInv, OneLiveRecord, Recorded
    <3>5. QED BY <1>3, <2>6, <3>4
  <2>7. QED BY <2>2, <2>3, <2>4, <2>5, <2>6
<1>6. ASSUME NEW j \in Invocations, rec[j] = None
      PROVE  Told[j] = None /\ effect[j] = "none"
  BY <1>6, Teller, Row DEF Sound, EffectRecorded
<1>7. None \notin Outcomes
  BY JournalConstants
<1>8. \A j \in Invocations : effect[j] # "wire" /\ Told[j] # "unknown"
  BY <1>5, <1>6, <1>7 DEF Outcomes
<1>9. \A j \in Invocations :
          Told[j] = "succeeded-unconfirmed" => CallOf[i] # None /\ CallOf[j] = CallOf[i]
  BY <1>5, <1>6, <1>7 DEF Outcomes
<1>10. \A j \in Invocations : ActionOf[j] = ActionOf[i] => effect[j] # "applied"
  BY <1>5, <1>6
<1>11. Write!Send(i)
  BY <1>2, <1>3, <1>4, <1>8, <1>9, <1>10 DEF Write!Send, Write!Unconfirmed, Write!SameCall
<1>12. QED BY <1>11, PromisedOne

(* An answer is learned only as a success; any other one tells no more.    *)
LEMMA AnswerRefines ==
    ASSUME IInv, NEW i \in Invocations, Answer(i)
    PROVE  PromisedStep
<1>1. PICK a \in Answers :
        rec' = [rec EXCEPT ![i] = Acknowledged(rec[i], a)] /\ (a = "ok" => effect[i] = "applied")
  BY DEF Answer, Answers
<1>2. effect' = effect /\ rec[i] \in Rows /\ rec[i] # None
  BY Row, RowTypes DEF Answer
<1>3. /\ rec'[i] = Acknowledged(rec[i], a) /\ rec'[i] \in Rows
      /\ \A k \in Invocations \ {i} : rec'[k] = rec[k]
  BY <1>1, <1>2, RowTypes DEF IInv, TypeOK
<1>4. Told[i] = ObservedOutcome(rec[i]) /\ Told'[i] = ObservedOutcome(rec'[i])
  BY <1>2, <1>3, Teller, TellerNext
<1>5. CASE rec'[i] = rec[i]
  BY <1>2, <1>3, <1>5, NoStory, TellerNext DEF PromisedStep
<1>6. CASE rec'[i] # rec[i]
  <2>1. /\ rec[i].phase = "dispatched"
        /\ rec'[i].phase = IF a = "ok" THEN "acknowledged" ELSE "dispatched"
    BY <1>2, <1>3, <1>6 DEF Acknowledged, Rows, Records
  <2>2. Told[i] = "unknown"
    BY <1>2, <1>4, <2>1, Stories
  <2>3. CASE a = "ok"
    <3>1. Told'[i] = "succeeded-unconfirmed"
      BY <1>3, <1>4, <2>1, <2>3, Stories
    <3>2. Told' = [Told EXCEPT ![i] = "succeeded-unconfirmed"]
      BY <1>3, <3>1, OneStory, TellerNext
    <3>3. Write!Learn(i)
      BY <1>1, <1>2, <2>2, <2>3, <3>2 DEF Write!Learn
    <3>4. QED BY <3>3, PromisedOne
  <2>4. CASE a # "ok"
    <3>1. Told'[i] = "unknown"
      BY <1>3, <1>4, <2>1, <2>4, Stories
    <3>2. QED BY <1>2, <1>3, <2>2, <3>1, NoStory, TellerNext DEF PromisedStep
  <2>5. QED BY <2>3, <2>4
<1>7. QED BY <1>5, <1>6

(* A caller settles with what was told, or with what the provider did.     *)
LEMMA SettleRefines ==
    ASSUME IInv, NEW i \in Invocations, Settle(i)
    PROVE  PromisedStep
<1>1. PICK o \in Settlement(i) :
        /\ o \in AllowedOutcomes(rec[i], i, caller[i] = "document")
        /\ rec' = [rec EXCEPT ![i] = Settled(rec[i], o)]
  BY DEF Settle
<1>2. effect' = effect /\ rec[i] \in Rows /\ rec[i] # None
  BY Row, RowTypes DEF Settle
<1>3. o \in Outcomes /\ rec[i].phase # "settled"
  BY <1>2, SettlesOnce
<1>4. /\ rec'[i] = Settled(rec[i], o) /\ rec'[i] \in Rows
      /\ \A k \in Invocations \ {i} : rec'[k] = rec[k]
  BY <1>1, <1>2, <1>3, RowTypes DEF IInv, TypeOK
<1>5. Told'[i] = o /\ Told[i] = ObservedOutcome(rec[i])
  BY <1>2, <1>3, <1>4, SettledStory, Teller, TellerNext
<1>6. Told' = [Told EXCEPT ![i] = o]
  BY <1>4, <1>5, OneStory, TellerNext
<1>7. CASE o = Told[i]
  BY <1>2, <1>4, <1>5, <1>7, NoStory, TellerNext DEF PromisedStep
<1>8. CASE o # Told[i] /\ rec[i].phase = "prepared"
  <2>1. effect[i] = "none" /\ Told[i] = "not-dispatched"
    BY <1>2, <1>5, <1>8, Row, Stories DEF Sound, EffectRecorded
  <2>2. o = "rejected"
    BY <1>1, <1>8, <2>1 DEF AllowedOutcomes, Refusals
  <2>3. Write!Decline(i)
    BY <1>2, <1>6, <2>1, <2>2 DEF Write!Decline
  <2>4. QED BY <2>3, PromisedOne
<1>9. CASE o # Told[i] /\ rec[i].phase = "dispatched"
  <2>1. Told[i] = "unknown"
    BY <1>2, <1>5, <1>9, Stories
  <2>2. /\ o = "rejected" /\ caller[i] = "document"
        /\ DefinitiveRejectionStatus(rec[i].answer)
    BY <1>1, <1>9, <2>1 DEF Settlement
  <2>3. effect[i] = "refused"
    BY <2>2, Row DEF Sound, DocumentRefuses, DefinitiveRejectionStatus
  <2>4. Write!Learn(i)
    BY <1>2, <1>6, <2>1, <2>2, <2>3 DEF Write!Learn
  <2>5. QED BY <2>4, PromisedOne
<1>10. CASE o # Told[i] /\ rec[i].phase = "acknowledged"
  <2>1. Told[i] = "succeeded-unconfirmed"
    BY <1>2, <1>5, <1>10, Stories
  <2>2. o = "succeeded" /\ SourceOf[i] # "native"
    BY <1>1, <1>10, <2>1 DEF Settlement
  <2>3. CallOf[i] = None
    BY <2>2, JournalConstants
  <2>4. Write!Confirm(i)
    BY <1>2, <1>6, <2>1, <2>2, <2>3 DEF Write!Confirm
  <2>5. QED BY <2>4, PromisedOne
<1>11. QED BY <1>2, <1>3, <1>7, <1>8, <1>9, <1>10, Stories DEF Phases

(* A row that is retained, or never was sent, tells the same afterwards.   *)
LEMMA RetainTells ==
    ASSUME IInv, NEW k \in Invocations, rec[k] # None, rec[k].phase # "settled",
           rec'[k] = IF rec[k].phase = "prepared" THEN Settled(rec[k], "not-dispatched")
                     ELSE RetainUnconfirmed(rec[k])
    PROVE  Told'[k] = Told[k]
<1>1. rec[k] \in Rows /\ Told[k] = ObservedOutcome(rec[k])
  BY Teller
<1>2. "not-dispatched" \in Outcomes
  BY DEF Outcomes
<1>3. rec'[k] \in Rows
  BY <1>1, <1>2, RowTypes
<1>4. Told'[k] = ObservedOutcome(rec'[k])
  BY <1>3, TellerNext
<1>5. CASE rec[k].phase = "prepared"
  <2>1. ObservedOutcome(Settled(rec[k], "not-dispatched")) = "not-dispatched"
    BY <1>1, <1>2, SettledStory
  <2>2. rec'[k] = Settled(rec[k], "not-dispatched")
    BY <1>5
  <2>3. ObservedOutcome(rec[k]) = "not-dispatched"
    BY <1>1, <1>5, Stories
  <2>4. QED BY <1>1, <1>4, <2>1, <2>2, <2>3
<1>6. CASE rec[k].phase # "prepared"
  BY <1>1, <1>4, <1>6, RetainedStory, Stories DEF Phases
<1>7. QED BY <1>5, <1>6

LEMMA ReleaseTwinRefines ==
    ASSUME IInv, NEW i \in Invocations, ReleaseTwin(i)
    PROVE  PromisedStep
<1>1. /\ rec[i] # None /\ rec[i].phase # "settled" /\ effect' = effect
      /\ rec' = [rec EXCEPT ![i] = IF rec[i].phase = "prepared"
                                   THEN Settled(rec[i], "not-dispatched")
                                   ELSE RetainUnconfirmed(rec[i])]
  BY Row, RowTypes DEF ReleaseTwin
<1>2. /\ rec'[i] = IF rec[i].phase = "prepared" THEN Settled(rec[i], "not-dispatched")
                   ELSE RetainUnconfirmed(rec[i])
      /\ \A k \in Invocations \ {i} : rec'[k] = rec[k]
  BY <1>1 DEF IInv, TypeOK
<1>3. Told'[i] = Told[i]
  BY <1>1, <1>2, RetainTells
<1>4. QED BY <1>1, <1>2, <1>3, NoStory, TellerNext DEF PromisedStep

LEMMA SettleUnconfirmedRefines ==
    ASSUME IInv, SettleUnconfirmed
    PROVE  PromisedStep
<1>0. PICK done \in SUBSET UnsettledNative :
          rec' = [i \in Invocations |-> IF i \in done THEN RetainUnconfirmed(rec[i]) ELSE rec[i]]
  BY DEF SettleUnconfirmed
<1>1. ASSUME NEW k \in Invocations PROVE Told'[k] = Told[k]
  <2>1. CASE k \in done
    <3>1. /\ rec[k] # None /\ rec[k].phase \in {"dispatched", "acknowledged"}
          /\ rec'[k] = RetainUnconfirmed(rec[k])
      BY <1>0, <2>1 DEF UnsettledNative, Recorded
    <3>2. QED BY <3>1, RetainTells
  <2>2. CASE k \notin done
    BY <1>0, <2>2, TellerNext
  <2>3. QED BY <2>1, <2>2
<1>2. effect' = effect
  BY DEF SettleUnconfirmed
<1>3. QED BY <1>1, <1>2, NoStory DEF PromisedStep

(* A completion report confirms writes of the call, as far as its loop     *)
(* gets, or tells nothing new.                                             *)
LEMMA ObserveCompletionRefines ==
    ASSUME IInv, NEW c \in NativeCalls, NEW success \in BOOLEAN, ObserveCompletion(c, success)
    PROVE  PromisedStep
<1> DEFINE open == {i \in UnsettledNative : CallOf[i] = c}
           confirmed == /\ success
                        /\ \A i \in open : rec[i].phase = "acknowledged"
                        /\ \A i \in UncertainNative : CallOf[i] # c
<1>0. PICK done \in SUBSET open :
          rec' = [i \in Invocations |-> IF i \notin done THEN rec[i]
                                        ELSE IF confirmed THEN Settled(rec[i], "succeeded")
                                        ELSE RetainUnconfirmed(rec[i])]
  BY DEF ObserveCompletion
<1>1. /\ effect' = effect
      /\ \A k \in Invocations : rec'[k] = IF k \notin done THEN rec[k]
                                          ELSE IF confirmed THEN Settled(rec[k], "succeeded")
                                          ELSE RetainUnconfirmed(rec[k])
  BY <1>0 DEF ObserveCompletion
<1>2. \A k \in open : /\ k \in Invocations /\ rec[k] # None /\ CallOf[k] = c
                      /\ rec[k].phase \in {"dispatched", "acknowledged"}
  BY DEF UnsettledNative, Recorded
<1>3. CASE ~confirmed
  <2>1. ASSUME NEW k \in Invocations PROVE Told'[k] = Told[k]
    <3>1. CASE k \in done
      <4>1. rec'[k] = RetainUnconfirmed(rec[k])
        BY <1>1, <1>3, <3>1
      <4>2. rec[k] # None /\ rec[k].phase \in {"dispatched", "acknowledged"}
        BY <1>0, <1>2, <3>1
      <4> HIDE DEF open, confirmed
      <4>3. QED BY <4>1, <4>2, RetainTells
    <3>2. CASE k \notin done
      BY <1>1, <3>2, TellerNext
    <3>3. QED BY <3>1, <3>2
  <2>2. QED BY <1>1, <2>1, NoStory DEF PromisedStep
<1>4. CASE confirmed
  <2>1. ASSUME NEW k \in Invocations, CallOf[k] = c, Told[k] # None
        PROVE  /\ Told[k] # "unknown"
               /\ Told[k] = "succeeded-unconfirmed" <=> k \in open
    <3>1. rec[k] # None /\ rec[k] \in Rows /\ Told[k] = ObservedOutcome(rec[k])
      BY <2>1, Teller
    <3>2. c # None /\ SourceOf[k] = "native"
      BY <2>1, JournalConstants DEF NativeCalls
    <3>3. rec[k].outcome \notin Uncertain
      BY <1>4, <2>1, <3>1, <3>2 DEF UncertainNative, Recorded
    <3>4. CASE k \in open
      <4>1. rec[k].phase = "acknowledged"
        BY <1>4, <3>4
      <4>2. QED BY <3>1, <3>4, <4>1, Stories
    <3>5. CASE k \notin open
      <4>1. rec[k].phase \in {"prepared", "settled"}
        BY <2>1, <3>1, <3>2, <3>5, Stories DEF UnsettledNative, Recorded, Phases
      <4> HIDE DEF open, confirmed
      <4>2. QED BY <3>1, <3>3, <3>5, <4>1, Stories DEF Uncertain
    <3>6. QED BY <3>4, <3>5
  <2>2. None \notin Outcomes /\ c # None
    BY JournalConstants DEF NativeCalls
  <2>3. ASSUME NEW k \in Invocations
        PROVE  /\ k \in open <=> CallOf[k] = c /\ Told[k] = "succeeded-unconfirmed"
               /\ CallOf[k] = c => Told[k] # "unknown"
    <3>1. k \in open => CallOf[k] = c /\ Told[k] # None
      BY <1>2, Teller
    <3> HIDE DEF open, confirmed
    <3>2. QED BY <2>1, <2>2, <3>1 DEF Outcomes
  <2>4. ASSUME NEW k \in Invocations
        PROVE  Told'[k] = IF k \in done THEN "succeeded" ELSE Told[k]
    <3>1. CASE k \in done
      <4>1. rec'[k] = Settled(rec[k], "succeeded") /\ rec[k] # None
        BY <1>0, <1>1, <1>2, <1>4, <3>1
      <4>2. rec[k] \in Rows /\ "succeeded" \in Outcomes
        BY <4>1, Teller DEF Outcomes
      <4>3. rec'[k] \in Rows
        BY <4>1, <4>2, RowTypes
      <4> HIDE DEF open, confirmed
      <4>4. QED BY <3>1, <4>1, <4>2, <4>3, SettledStory, TellerNext
    <3>2. CASE k \notin done
      BY <1>1, <3>2, TellerNext
    <3>3. QED BY <3>1, <3>2
  <2>5. done \in SUBSET {i \in Write!Unconfirmed : CallOf[i] = c}
    BY <1>0, <1>2, <2>3 DEF Write!Unconfirmed
  <2> HIDE DEF open, confirmed
  <2>6. Told' = [k \in Invocations |-> IF k \in done THEN "succeeded" ELSE Told[k]]
    BY <2>4 DEF Told
  <2>7. Write!ConfirmCall(c)
    BY <1>1, <2>2, <2>3, <2>5, <2>6 DEF Write!ConfirmCall
  <2>8. PICK i \in Invocations : c = CallOf[i]
    BY DEF NativeCalls
  <2>9. QED BY <2>7, <2>8 DEF PromisedStep, Write!Next
<1>5. QED BY <1>3, <1>4

LEMMA JournalRefines ==
    ASSUME IInv, [Next]_vars
    PROVE  PromisedStep
<1>1. ASSUME NEW i \in Invocations, Prepare(i) PROVE PromisedStep
  BY <1>1, PrepareRefines
<1>2. ASSUME NEW i \in Invocations, BeginDispatch(i) PROVE PromisedStep
  BY <1>2, BeginDispatchRefines
<1>3. ASSUME NEW i \in Invocations, Answer(i) PROVE PromisedStep
  BY <1>3, AnswerRefines
<1>4. ASSUME NEW i \in Invocations, Settle(i) PROVE PromisedStep
  BY <1>4, SettleRefines
<1>5. ASSUME NEW i \in Invocations, ReleaseTwin(i) PROVE PromisedStep
  BY <1>5, ReleaseTwinRefines
<1>6. ASSUME NEW c \in NativeCalls, NEW success \in BOOLEAN, ObserveCompletion(c, success)
      PROVE  PromisedStep
  BY <1>6, ObserveCompletionRefines
<1>7. ASSUME SettleUnconfirmed PROVE PromisedStep
  BY <1>7, SettleUnconfirmedRefines
<1>8. ASSUME NEW i \in Invocations, Provider(i) PROVE PromisedStep
  <2>1. UNCHANGED Told
    BY <1>8 DEF Provider, Told
  <2>2. Write!Land(i)
    BY <1>8, <2>1 DEF Provider, Write!Land
  <2>3. QED BY <2>2, PromisedOne
<1>9. ASSUME rec' = rec, effect' = effect PROVE PromisedStep
  BY <1>9, NoStory, TellerNext DEF PromisedStep
<1>10. CASE \/ EndTurn \/ Crash \/ UNCHANGED vars
            \/ \E i \in Invocations :
                  EndUndispatched(i) \/ AbandonPrepared(i) \/ NoAnswer(i) \/ EndCall(i)
  BY <1>9, <1>10 DEF EndTurn, Crash, vars, EndUndispatched, AbandonPrepared, NoAnswer, EndCall
<1>11. QED
  BY <1>1, <1>2, <1>3, <1>4, <1>5, <1>6, <1>7, <1>8, <1>10 DEF Next

(* The store, its three callers, the provider and the crashes between them *)
(* keep the promise of GovernedWrite: what readers are told moves only     *)
(* with the fate of the write, and nothing is sent twice or behind an      *)
(* effect that is not accounted for.                                       *)
THEOREM Refinement == Spec => WritePromise
<1>1. Init => Write!Init
  BY DEF Init, Write!Init, Told
<1>2. IInv /\ [Next]_vars => [Write!Next]_<<Told, effect>>
  BY JournalRefines DEF PromisedStep
<1>3. QED BY <1>1, <1>2, JournalInductive, PTL DEF Spec, WritePromise, Write!Spec
=============================================================================
