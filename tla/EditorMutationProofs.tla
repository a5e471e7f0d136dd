------------------------- MODULE EditorMutationProofs -------------------------
(***************************************************************************)
(* Machine-checked proofs about EditorMutation, for every set of edits,    *)
(* runs, sessions and lease limit: what a run's edits do to the tree, and  *)
(* that the edit port implements GovernedEdit.  Most steps of the system   *)
(* retire a lease or find it gone; Retired says what that leaves behind,   *)
(* and RetireIInv that it keeps the inductive invariant IInv.              *)
(***************************************************************************)
EXTENDS EditorMutation, TLAPS

(* The empty system satisfies the inductive invariant.                     *)
LEMMA InitIInv == Init => IInv
  BY EditConstants DEF Init, IInv, TypeOK, Phases, Runs, LeaseIsOpen, UnsentIsUntouched,
     AnswerIsLast, OutcomeIsTheTree, NobodyWaitsInVain, RevokedRunIsQuiet

(* The record of e, if there was one, is gone: its waiter heard one of     *)
(* outcomes, nobody else anything, and a wait for idle has its verdict if  *)
(* e was the last.                                                         *)
Retired(e, outcomes) ==
    /\ leases' = leases \ {e} /\ waiting' = waiting \ {e}
    /\ settled' \in [Edits -> Outcomes \cup {None}]
    /\ \A d \in Edits : settled'[d] = settled[d]
                        \/ (d = e /\ e \in waiting /\ settled'[d] \in outcomes)
    /\ latest' \in [Runs -> {"unset", "succeeded", "failed"}]
    /\ idle' \in [Runs -> Verdicts \cup {"none", "waiting"}]
    /\ botched' \subseteq Runs /\ misled' \subseteq Runs
    /\ NobodyWaitsInVain'

LEMMA ReleaseRetires ==
  ASSUME TypeOK, NobodyWaitsInVain, NEW e \in leases, NEW outcome \in Outcomes,
         NEW value \in {"unset", "succeeded", "failed"}, NEW failures \in SUBSET Runs,
         Release(RunOf[e], {e}, outcome, value, failures)
  PROVE  Retired(e, {outcome})
<1>1. e \in Edits /\ RunOf[e] \in Runs
  BY DEF TypeOK, Runs
<1>2. /\ leases' = leases \ {e} /\ waiting' = waiting \ {e}
      /\ settled' \in [Edits -> Outcomes \cup {None}]
      /\ \A d \in Edits : settled'[d] = settled[d]
                          \/ (d = e /\ e \in waiting /\ settled'[d] \in {outcome})
      /\ latest' \in [Runs -> {"unset", "succeeded", "failed"}]
      /\ botched' \subseteq Runs
  BY <1>1 DEF Release, TypeOK
<1>3. CASE LeasesOf(RunOf[e]) \subseteq {e} /\ idle[RunOf[e]] = "waiting"
  <2>1. /\ idle' = [idle EXCEPT ![RunOf[e]] = IdleOutcome(value)]
        /\ misled' \subseteq Runs /\ IdleOutcome(value) \in {"idle-failed", "idle-succeeded"}
    BY <1>1, <1>3 DEF Release, Tell, TypeOK, IdleOutcome
  <2>2. idle' \in [Runs -> Verdicts \cup {"none", "waiting"}]
    BY <2>1 DEF TypeOK, Verdicts
  <2>3. NobodyWaitsInVain'
    BY <1>1, <1>2, <2>1 DEF NobodyWaitsInVain, LeasesOf, TypeOK
  <2> QED BY <1>2, <2>1, <2>2, <2>3 DEF Retired
<1>4. CASE ~(LeasesOf(RunOf[e]) \subseteq {e} /\ idle[RunOf[e]] = "waiting")
  <2>1. idle' = idle /\ misled' = misled
    BY <1>4 DEF Release
  <2>2. NobodyWaitsInVain'
    BY <1>1, <1>2, <1>4, <2>1 DEF NobodyWaitsInVain, LeasesOf, TypeOK
  <2> QED BY <1>2, <2>1, <2>2 DEF Retired, TypeOK
<1> QED BY <1>3, <1>4

LEMMA KeepRetires ==
  ASSUME TypeOK, NobodyWaitsInVain, NEW e \in Edits, e \notin leases, KeepLeases
  PROVE  Retired(e, {})
  BY DEF KeepLeases, Retired, TypeOK, NobodyWaitsInVain, LeasesOf

LEMMA RetiredWeakens ==
  ASSUME NEW e, NEW S, NEW T, S \subseteq T, Retired(e, S)
  PROVE  Retired(e, T)
<1>1. \A x : x \in S => x \in T
  OBVIOUS
<1> QED BY <1>1 DEF Retired

(* The four ways a record goes other than by a commit that succeeds.       *)
LEMMA OperationsRetire ==
  ASSUME TypeOK, NobodyWaitsInVain, NEW e \in Edits,
         \/ \E completion \in {"rejected", "failed"} : CompleteUnclaimed(e, completion)
         \/ Discard(e) \/ CancelUnclaimed(e)
         \/ \E verdict \in CommitVerdicts :
               Commit(e, verdict) /\ (verdict # "applied" \/ e \notin leases)
  PROVE  Retired(e, Outcomes \ {"succeeded"})
<1>1. /\ RunOf[e] \in Runs /\ latest[RunOf[e]] \in {"unset", "succeeded", "failed"}
      /\ botched \in SUBSET Runs /\ botched \cup {RunOf[e]} \in SUBSET Runs
  BY DEF TypeOK, Runs
<1>2. CASE e \notin leases
  <2>1. KeepLeases
    BY <1>2 DEF CompleteUnclaimed, Discard, CancelUnclaimed, Commit
  <2>2. Retired(e, {})
    BY <1>2, <2>1, KeepRetires
  <2> QED BY <2>2, RetiredWeakens
<1>3. CASE e \in leases
  <2>1. PICK outcome \in Outcomes \ {"succeeded"}, value \in {"unset", "succeeded", "failed"},
             failures \in SUBSET Runs : Release(RunOf[e], {e}, outcome, value, failures)
    BY <1>1, <1>3 DEF CompleteUnclaimed, Discard, CancelUnclaimed, Commit, CommitVerdicts, Outcomes
  <2>2. outcome \in Outcomes /\ {outcome} \subseteq Outcomes \ {"succeeded"}
    BY <2>1
  <2>3. Retired(e, {outcome})
    BY <1>3, <2>1, <2>2, ReleaseRetires
  <2> QED BY <2>2, <2>3, RetiredWeakens
<1> QED BY <1>2, <1>3

(* Retiring a record without a commit keeps the invariant, when the queue  *)
(* at most shrinks and the call of the edit is at most answered.           *)
LEMMA RetireIInv ==
  ASSUME IInv, NEW e \in Edits, Retired(e, Outcomes \ {"succeeded"}),
         tree' = tree, runVars' = runVars, aborted' \subseteq Edits,
         queue' \subseteq queue, requests' = requests, replies' = replies,
         \/ phase' = phase /\ answer' = answer
         \/ phase[e] # "new" /\ \E a \in {"completed", "refused"} : Answered(e, a)
  PROVE  IInv'
<1>1. /\ phase' \in [Edits -> Phases] /\ answer' \in [Edits -> {"completed", "refused", None}]
      /\ \A d \in Edits : phase'[d] = phase[d] \/ (d = e /\ phase'[d] = "done")
      /\ AnswerIsLast'
  BY EditConstants DEF IInv, TypeOK, Phases, AnswerIsLast, Answered
<1>2. TypeOK'
  BY <1>1 DEF IInv, TypeOK, Retired, runVars
<1>3. \A d \in leases' : d \in leases /\ d # e
  BY DEF Retired
<1>4. LeaseIsOpen'
  <2> SUFFICES ASSUME NEW d \in leases'
               PROVE  phase'[d] \in {"binding", "sent", "awaiting"} /\ d \notin tree
                      /\ settled'[d] = None
    BY DEF LeaseIsOpen
  <2>1. d \in leases /\ d # e /\ d \in Edits
    BY <1>3 DEF IInv, TypeOK
  <2>2. phase'[d] = phase[d] /\ settled'[d] = settled[d]
    BY <1>1, <2>1 DEF Retired
  <2> QED BY <2>1, <2>2 DEF IInv, LeaseIsOpen
<1>5. UnsentIsUntouched'
  <2> SUFFICES ASSUME NEW d \in Edits, phase'[d] \in {"new", "binding"}
               PROVE  d \notin tree \cup waiting' \cup requests \cup queue' /\ settled'[d] = None
    BY DEF UnsentIsUntouched
  <2>1. phase[d] = phase'[d]
    BY <1>1
  <2>2. d \notin tree \cup waiting \cup requests \cup queue /\ settled[d] = None
    BY <2>1 DEF IInv, UnsentIsUntouched
  <2> QED BY <2>2 DEF Retired
<1>6. OutcomeIsTheTree'
  <2> SUFFICES ASSUME NEW d \in Edits, settled'[d] # None
               PROVE  d \notin leases' /\ (settled'[d] = "succeeded" <=> d \in tree)
    BY DEF OutcomeIsTheTree
  <2>1. CASE settled'[d] = settled[d]
    BY <1>3, <2>1 DEF IInv, OutcomeIsTheTree
  <2>2. CASE d = e /\ e \in waiting /\ settled'[d] \in Outcomes \ {"succeeded"}
    BY <1>3, <2>2 DEF IInv, LeaseIsOpen, NobodyWaitsInVain
  <2> QED BY <2>1, <2>2 DEF Retired
<1>7. RevokedRunIsQuiet'
  BY <1>3 DEF IInv, RevokedRunIsQuiet, LeasesOf, QueueOf, runVars
<1> QED BY <1>1, <1>2, <1>4, <1>5, <1>6, <1>7 DEF IInv, Retired

(* A commit that succeeds: the edit is in the tree, and its waiter, if it  *)
(* has one, hears so.                                                      *)
LEMMA AppliedIInv ==
  ASSUME IInv, NEW e \in Edits, ReviewApproves(e, "applied"), e \in leases
  PROVE  IInv'
<1>1. Release(RunOf[e], {e}, "succeeded", "succeeded", botched) /\ tree' = tree \cup {e}
  BY DEF ReviewApproves, Commit
<1>2. Retired(e, {"succeeded"})
  BY <1>1, ReleaseRetires DEF IInv, TypeOK, Outcomes
<1>3. /\ UNCHANGED <<portVars, runVars, requests, replies>>
      /\ queue' = queue \ {e} /\ e \in queue
  BY DEF ReviewApproves
<1>4. \A d \in Edits : settled'[d] = settled[d] \/ (d = e /\ settled'[d] = "succeeded")
  BY <1>2 DEF Retired
<1>5. TypeOK'
  BY <1>1, <1>2, <1>3 DEF IInv, TypeOK, Retired, portVars, runVars
<1>6. LeaseIsOpen' /\ RevokedRunIsQuiet'
  BY <1>1, <1>2, <1>3, <1>4
     DEF IInv, TypeOK, LeaseIsOpen, RevokedRunIsQuiet, Retired, portVars, runVars, LeasesOf, QueueOf
<1>7. UnsentIsUntouched' /\ AnswerIsLast'
  BY <1>1, <1>2, <1>3, <1>4
     DEF IInv, UnsentIsUntouched, AnswerIsLast, Retired, portVars
<1>8. OutcomeIsTheTree'
  <2> SUFFICES ASSUME NEW d \in Edits, settled'[d] # None
               PROVE  d \notin leases' /\ (settled'[d] = "succeeded" <=> d \in tree')
    BY DEF OutcomeIsTheTree
  <2>1. CASE d = e
    BY <1>1, <1>2, <1>4, <2>1 DEF IInv, LeaseIsOpen, Retired
  <2>2. CASE d # e
    BY <1>1, <1>2, <1>4, <2>2 DEF IInv, OutcomeIsTheTree, Retired
  <2> QED BY <2>1, <2>2
<1> QED BY <1>2, <1>5, <1>6, <1>7, <1>8 DEF IInv, Retired

(* An edit without review: registered, committed and settled in one turn.  *)
LEMMA ServerEditIInv ==
  ASSUME IInv, NEW e \in Edits, NEW verdict \in CommitVerdicts \cup {"denied"},
         ServerEdit(e, verdict)
  PROVE  IInv'
<1> DEFINE outcome == IF verdict = "applied" THEN "succeeded" ELSE "failed"
<1>1. /\ outcome \in {"succeeded", "failed"} /\ RunOf[e] \in Runs /\ phase[e] = "new"
      /\ phase' = [phase EXCEPT ![e] = "awaiting"]
      /\ settled' = [settled EXCEPT ![e] = outcome]
      /\ tree' = IF outcome = "succeeded" THEN tree \cup {e} ELSE tree
      /\ botched' = IF verdict = "write-failed" THEN botched \cup {RunOf[e]} ELSE botched
      /\ UNCHANGED <<answer, aborted, leases, waiting, idle, runVars, routeVars, misled>>
  BY DEF ServerEdit, Runs
<1>2. e \notin leases \cup tree \cup waiting \cup queue
  BY <1>1 DEF IInv, LeaseIsOpen, UnsentIsUntouched
<1>3. latest' = [latest EXCEPT ![RunOf[e]] = IF verdict = "denied" THEN @ ELSE outcome]
  BY <1>1 DEF ServerEdit, IInv, TypeOK
<1> HIDE DEF outcome
<1>4. TypeOK'
  BY <1>1, <1>3 DEF IInv, TypeOK, Phases, Outcomes, runVars, routeVars
<1>5. LeaseIsOpen' /\ UnsentIsUntouched' /\ AnswerIsLast'
  BY <1>1, <1>2
     DEF IInv, TypeOK, LeaseIsOpen, UnsentIsUntouched, AnswerIsLast, routeVars
<1>6. OutcomeIsTheTree'
  BY <1>1, <1>2 DEF IInv, TypeOK, OutcomeIsTheTree
<1>7. NobodyWaitsInVain' /\ RevokedRunIsQuiet'
  BY <1>1
     DEF IInv, NobodyWaitsInVain, RevokedRunIsQuiet, LeasesOf, QueueOf, runVars, routeVars
<1> QED BY <1>4, <1>5, <1>6, <1>7 DEF IInv

(* The end of a run: all its leases go, with the waits on them.            *)
LEMMA EndRunIInv ==
  ASSUME IInv, NEW r \in Runs, NEW value \in {"unset", "succeeded", "failed"}, EndRun(r, value),
         disposed' \subseteq Runs, queue' \subseteq queue,
         \/ revoked' = revoked
         \/ revoked' = revoked \cup {r} /\ queue' = queue \ QueueOf(r)
  PROVE  IInv'
<1>1. /\ leases' = leases \ LeasesOf(r) /\ waiting' = waiting \ LeasesOf(r)
      /\ stopped' = stopped \cup {r} /\ aborted' \subseteq Edits
      /\ latest' \in [Runs -> {"unset", "succeeded", "failed"}]
      /\ UNCHANGED <<phase, answer, requests, replies, tree, botched, misled>>
  BY DEF EndRun, IInv, TypeOK, InTool
<1>2. /\ settled' \in [Edits -> Outcomes \cup {None}]
      /\ \A d \in Edits : settled'[d] = settled[d]
                          \/ (d \in (leases \cap waiting) \ leases' /\ settled'[d] = "cancelled")
  BY DEF EndRun, IInv, TypeOK, Outcomes, LeasesOf
<1>3. /\ idle' \in [Runs -> Verdicts \cup {"none", "waiting"}] /\ idle'[r] # "waiting"
      /\ \A q \in Runs : q # r => idle'[q] = idle[q]
  BY DEF EndRun, IInv, TypeOK, Verdicts
<1>4. TypeOK'
  BY <1>1, <1>2, <1>3 DEF IInv, TypeOK
<1>5. LeaseIsOpen' /\ UnsentIsUntouched' /\ AnswerIsLast'
  <2>1. LeaseIsOpen'
    BY <1>1, <1>2 DEF IInv, TypeOK, LeaseIsOpen
  <2>2. UnsentIsUntouched' /\ AnswerIsLast'
    BY <1>1, <1>2 DEF IInv, UnsentIsUntouched, AnswerIsLast
  <2> QED BY <2>1, <2>2
<1>6. OutcomeIsTheTree'
  BY <1>1, <1>2 DEF IInv, OutcomeIsTheTree, LeaseIsOpen
<1>7. NobodyWaitsInVain'
  BY <1>1, <1>3 DEF IInv, NobodyWaitsInVain, LeasesOf
<1>8. RevokedRunIsQuiet'
  BY <1>1 DEF IInv, RevokedRunIsQuiet, LeasesOf, QueueOf
<1> QED BY <1>4, <1>5, <1>6, <1>7, <1>8 DEF IInv

(* The steps of the edit port.                                             *)
LEMMA PortIInv ==
  ASSUME IInv, NEW e \in Edits,
         \/ PrepareRefused(e) \/ Prepare(e) \/ BindRefused(e) \/ Dispatch(e)
         \/ ReplyQueued(e) \/ ReplyRefused(e) \/ ClientFails(e) \/ Complete(e) \/ Abort(e)
  PROVE  IInv'
<1>0. TypeOK /\ NobodyWaitsInVain /\ RunOf[e] \in Runs
  BY DEF IInv, Runs
<1>1. CASE PrepareRefused(e)
  <2>1. /\ phase[e] = "new" /\ Answered(e, "refused")
        /\ UNCHANGED <<leases, waiting, settled, latest, idle, runVars, routeVars, tree,
                       botched, misled>>
    BY <1>1 DEF PrepareRefused
  <2>2. e \notin leases
    BY <2>1 DEF IInv, LeaseIsOpen
  <2>3. TypeOK' /\ AnswerIsLast'
    BY <2>1, EditConstants
       DEF IInv, TypeOK, AnswerIsLast, Answered, Phases, runVars, routeVars
  <2>4. LeaseIsOpen' /\ UnsentIsUntouched'
    BY <2>1, <2>2 DEF IInv, TypeOK, LeaseIsOpen, UnsentIsUntouched, Answered, routeVars
  <2>5. OutcomeIsTheTree' /\ NobodyWaitsInVain' /\ RevokedRunIsQuiet'
    BY <2>1 DEF IInv, OutcomeIsTheTree, NobodyWaitsInVain, RevokedRunIsQuiet, LeasesOf,
                QueueOf, runVars, routeVars
  <2> QED BY <2>3, <2>4, <2>5 DEF IInv
<1>2. CASE Prepare(e)
  <2>1. /\ phase[e] = "new" /\ RunOf[e] \notin revoked
        /\ leases' = leases \cup {e} /\ phase' = [phase EXCEPT ![e] = "binding"]
        /\ UNCHANGED <<answer, aborted, waiting, settled, latest, idle, runVars, routeVars,
                       tree, botched, misled>>
    BY <1>2 DEF Prepare, Registrable
  <2>2. e \notin tree /\ settled[e] = None
    BY <2>1 DEF IInv, UnsentIsUntouched
  <2>3. TypeOK' /\ LeaseIsOpen'
    BY <2>1, <2>2 DEF IInv, TypeOK, LeaseIsOpen, Phases, runVars, routeVars
  <2>4. UnsentIsUntouched' /\ AnswerIsLast' /\ OutcomeIsTheTree'
    BY <2>1, <2>2
       DEF IInv, TypeOK, UnsentIsUntouched, AnswerIsLast, OutcomeIsTheTree, routeVars
  <2>5. NobodyWaitsInVain' /\ RevokedRunIsQuiet'
    BY <2>1 DEF IInv, NobodyWaitsInVain, RevokedRunIsQuiet, LeasesOf, QueueOf, runVars, routeVars
  <2> QED BY <2>3, <2>4, <2>5 DEF IInv
<1>3. CASE BindRefused(e) \/ ReplyRefused(e) \/ ClientFails(e)
  <2>1. /\ Discard(e) /\ Answered(e, "refused") /\ phase[e] # "new"
        /\ UNCHANGED <<runVars, routeVars, tree>>
    BY <1>3 DEF BindRefused, ReplyRefused, ClientFails
  <2>2. Retired(e, Outcomes \ {"succeeded"})
    BY <1>0, <2>1, OperationsRetire
  <2>3. aborted' \subseteq Edits
    BY <1>0, <2>1 DEF Answered, TypeOK
  <2> QED BY <2>1, <2>2, <2>3, RetireIInv DEF routeVars
<1>4. CASE Dispatch(e)
  <2>1. /\ phase[e] = "binding" /\ phase' = [phase EXCEPT ![e] = "sent"]
        /\ requests' = requests \cup {e} /\ waiting' \subseteq waiting \cup {e}
        /\ waiting' \subseteq leases
        /\ settled' = settled \/ (settled' = [settled EXCEPT ![e] = "failed"] /\ e \notin leases)
        /\ UNCHANGED <<answer, aborted, leases, latest, idle, runVars, replies, queue,
                       tree, botched, misled>>
    BY <1>0, <1>4 DEF Dispatch, NobodyWaitsInVain
  <2>2. e \notin tree
    BY <2>1 DEF IInv, UnsentIsUntouched
  <2>3. TypeOK' /\ LeaseIsOpen'
    BY <2>1 DEF IInv, TypeOK, LeaseIsOpen, Phases, Outcomes, runVars
  <2>4. UnsentIsUntouched' /\ AnswerIsLast'
    BY <2>1 DEF IInv, TypeOK, UnsentIsUntouched, AnswerIsLast
  <2>5. OutcomeIsTheTree'
    BY <2>1, <2>2 DEF IInv, TypeOK, OutcomeIsTheTree
  <2>6. NobodyWaitsInVain' /\ RevokedRunIsQuiet'
    BY <2>1 DEF IInv, NobodyWaitsInVain, RevokedRunIsQuiet, LeasesOf, QueueOf, runVars
  <2> QED BY <2>3, <2>4, <2>5, <2>6 DEF IInv
<1>5. CASE ReplyQueued(e)
  <2>1. /\ phase[e] = "sent" /\ phase' = [phase EXCEPT ![e] = "awaiting"] /\ KeepLeases
        /\ UNCHANGED <<answer, aborted, runVars, routeVars, tree>>
    BY <1>5 DEF ReplyQueued
  <2>2. TypeOK' /\ LeaseIsOpen'
    BY <2>1 DEF IInv, TypeOK, LeaseIsOpen, KeepLeases, Phases, runVars, routeVars
  <2>3. UnsentIsUntouched' /\ AnswerIsLast' /\ OutcomeIsTheTree'
    BY <2>1
       DEF IInv, TypeOK, UnsentIsUntouched, AnswerIsLast, OutcomeIsTheTree, KeepLeases, routeVars
  <2>4. NobodyWaitsInVain' /\ RevokedRunIsQuiet'
    BY <2>1 DEF IInv, NobodyWaitsInVain, RevokedRunIsQuiet, LeasesOf, QueueOf, KeepLeases,
                runVars, routeVars
  <2> QED BY <2>2, <2>3, <2>4 DEF IInv
<1>6. CASE Complete(e)
  <2>1. /\ settled[e] # None /\ phase[e] = "awaiting" /\ KeepLeases
        /\ \E a \in {"completed", "refused"} : Answered(e, a)
        /\ UNCHANGED <<runVars, routeVars, tree>>
    BY <1>6 DEF Complete
  <2>2. e \notin leases
    BY <2>1 DEF IInv, LeaseIsOpen
  <2>3. Retired(e, Outcomes \ {"succeeded"})
    BY <1>0, <2>1, <2>2, KeepRetires, RetiredWeakens
  <2>4. aborted' \subseteq Edits
    BY <1>0, <2>1 DEF Answered, TypeOK
  <2> QED BY <2>1, <2>3, <2>4, RetireIInv DEF routeVars
<1>7. CASE Abort(e)
  <2>1. aborted' \subseteq Edits /\ UNCHANGED <<phase, answer, runVars, requests, replies, tree>>
    BY <1>0, <1>7 DEF Abort, TypeOK
  <2>2. CASE e \in waiting
    <3>1. CancelUnclaimed(e) /\ queue' \subseteq queue
      BY <1>7, <2>2 DEF Abort, CancelUnclaimed
    <3>2. Retired(e, Outcomes \ {"succeeded"})
      BY <1>0, <3>1, OperationsRetire
    <3> QED BY <2>1, <3>1, <3>2, RetireIInv
  <2>3. CASE e \notin waiting
    <3>1. KeepLeases /\ UNCHANGED queue
      BY <1>7, <2>3 DEF Abort
    <3>2. TypeOK' /\ LeaseIsOpen' /\ UnsentIsUntouched' /\ AnswerIsLast'
      BY <2>1, <3>1 DEF IInv, TypeOK, LeaseIsOpen, UnsentIsUntouched, AnswerIsLast, KeepLeases,
                        runVars
    <3>3. OutcomeIsTheTree' /\ NobodyWaitsInVain' /\ RevokedRunIsQuiet'
      BY <2>1, <3>1 DEF IInv, OutcomeIsTheTree, NobodyWaitsInVain, RevokedRunIsQuiet, LeasesOf,
                        QueueOf, KeepLeases, runVars
    <3> QED BY <3>2, <3>3 DEF IInv
  <2> QED BY <2>2, <2>3
<1> QED BY <1>1, <1>2, <1>3, <1>4, <1>5, <1>6, <1>7

(* The steps of the route and the queue.                                   *)
LEMMA RouteIInv ==
  ASSUME IInv, NEW e \in Edits,
         \/ Admit(e) \/ ReviewTimeout(e)
         \/ \E verdict \in CommitVerdicts : ReviewApproves(e, verdict)
         \/ \E completion \in {"rejected", "failed"} : ReviewEnds(e, completion)
  PROVE  IInv'
<1>0. TypeOK /\ NobodyWaitsInVain /\ aborted \subseteq Edits
  BY DEF IInv, TypeOK
<1>1. CASE Admit(e)
  <2>1. /\ e \in requests /\ requests' \subseteq requests
        /\ KeepLeases /\ UNCHANGED <<portVars, runVars, tree>>
        /\ replies' \in [Edits -> {"queued", "refused", None}]
        /\ queue' = queue \/ (queue' = queue \cup {e} /\ e \in leases)
    BY <1>0, <1>1 DEF Admit, TypeOK
  <2>2. phase[e] \notin {"new", "binding"}
    BY <2>1 DEF IInv, UnsentIsUntouched
  <2>3. TypeOK' /\ LeaseIsOpen' /\ AnswerIsLast'
    BY <2>1 DEF IInv, TypeOK, LeaseIsOpen, AnswerIsLast, KeepLeases, portVars, runVars
  <2>4. UnsentIsUntouched' /\ OutcomeIsTheTree'
    BY <2>1, <2>2 DEF IInv, UnsentIsUntouched, OutcomeIsTheTree, KeepLeases, portVars
  <2>5. NobodyWaitsInVain' /\ RevokedRunIsQuiet'
    BY <2>1 DEF IInv, NobodyWaitsInVain, RevokedRunIsQuiet, LeasesOf, QueueOf, KeepLeases, runVars
  <2> QED BY <2>3, <2>4, <2>5 DEF IInv
<1>2. CASE ReviewTimeout(e)
  <2>1. /\ queue' \subseteq queue /\ KeepLeases
        /\ UNCHANGED <<portVars, runVars, requests, replies, tree>>
    BY <1>2 DEF ReviewTimeout
  <2>2. TypeOK' /\ LeaseIsOpen' /\ UnsentIsUntouched' /\ AnswerIsLast'
    BY <2>1 DEF IInv, TypeOK, LeaseIsOpen, UnsentIsUntouched, AnswerIsLast, KeepLeases,
                portVars, runVars
  <2>3. OutcomeIsTheTree' /\ NobodyWaitsInVain' /\ RevokedRunIsQuiet'
    BY <2>1 DEF IInv, OutcomeIsTheTree, NobodyWaitsInVain, RevokedRunIsQuiet, LeasesOf, QueueOf,
                KeepLeases, runVars
  <2> QED BY <2>2, <2>3 DEF IInv
<1>3. ASSUME NEW verdict \in CommitVerdicts, ReviewApproves(e, verdict)
      PROVE  IInv'
  <2>1. CASE verdict = "applied" /\ e \in leases
    BY <1>3, <2>1, AppliedIInv
  <2>2. CASE verdict # "applied" \/ e \notin leases
    <3>1. /\ Commit(e, verdict) /\ queue' \subseteq queue
          /\ UNCHANGED <<portVars, runVars, requests, replies>>
      BY <1>3 DEF ReviewApproves
    <3>2. tree' = tree
      BY <2>2, <3>1 DEF Commit
    <3>3. Retired(e, Outcomes \ {"succeeded"})
      BY <1>0, <2>2, <3>1, OperationsRetire
    <3> QED BY <1>0, <3>1, <3>2, <3>3, RetireIInv DEF portVars
  <2> QED BY <2>1, <2>2
<1>4. ASSUME NEW completion \in {"rejected", "failed"}, ReviewEnds(e, completion)
      PROVE  IInv'
  <2>1. /\ CompleteUnclaimed(e, completion) /\ queue' \subseteq queue
        /\ UNCHANGED <<portVars, runVars, requests, replies, tree>>
    BY <1>4 DEF ReviewEnds
  <2>2. Retired(e, Outcomes \ {"succeeded"})
    BY <1>0, <2>1, OperationsRetire
  <2> QED BY <1>0, <2>1, <2>2, RetireIInv DEF portVars
<1> QED BY <1>1, <1>2, <1>3, <1>4

(* The steps of a run: its end, its waits.                                 *)
LEMMA RunIInv ==
  ASSUME IInv, NEW r \in Runs, RevokeRun(r) \/ Dispose(r) \/ WaitForIdle(r) \/ AbortTurn(r)
  PROVE  IInv'
<1>0. latest[r] \in {"unset", "succeeded", "failed"} /\ disposed \subseteq Runs
  BY DEF IInv, TypeOK
<1>1. CASE RevokeRun(r)
  BY <1>0, <1>1, EndRunIInv DEF RevokeRun
<1>2. CASE Dispose(r)
  BY <1>0, <1>2, EndRunIInv DEF Dispose
<1>3. CASE WaitForIdle(r) \/ AbortTurn(r)
  <2>1. /\ UNCHANGED <<portVars, leases, waiting, settled, latest, revoked, disposed, routeVars,
                       tree, botched>>
        /\ stopped' \subseteq Runs /\ misled' \subseteq Runs
    BY <1>3 DEF WaitForIdle, AbortTurn, Tell, IInv, TypeOK, runVars
  <2>2. /\ idle' \in [Runs -> Verdicts \cup {"none", "waiting"}]
        /\ idle'[r] = "waiting" => LeasesOf(r) # {}
        /\ \A q \in Runs : q # r => idle'[q] = idle[q]
    BY <1>0, <1>3 DEF WaitForIdle, AbortTurn, Tell, IInv, TypeOK, Verdicts, IdleOutcome
  <2>3. TypeOK' /\ LeaseIsOpen' /\ UnsentIsUntouched' /\ AnswerIsLast'
    BY <2>1, <2>2 DEF IInv, TypeOK, LeaseIsOpen, UnsentIsUntouched, AnswerIsLast, portVars,
                      routeVars
  <2>4. OutcomeIsTheTree' /\ NobodyWaitsInVain' /\ RevokedRunIsQuiet'
    BY <2>1, <2>2 DEF IInv, OutcomeIsTheTree, NobodyWaitsInVain, RevokedRunIsQuiet, LeasesOf,
                      QueueOf, routeVars
  <2> QED BY <2>3, <2>4 DEF IInv
<1> QED BY <1>1, <1>2, <1>3

LEMMA NextIInv == IInv /\ [Next]_vars => IInv'
<1> SUFFICES ASSUME IInv, [Next]_vars PROVE IInv'
  OBVIOUS
<1>1. CASE UNCHANGED vars
  BY <1>1 DEF vars, IInv, TypeOK, LeaseIsOpen, UnsentIsUntouched, AnswerIsLast, OutcomeIsTheTree,
              NobodyWaitsInVain, RevokedRunIsQuiet, LeasesOf, QueueOf
<1>2. CASE Next
  BY <1>2, PortIInv, RouteIInv, RunIInv, ServerEditIInv DEF Next
<1> QED BY <1>1, <1>2

(* Every reachable state satisfies the inductive invariant: leases, queue, *)
(* waiters and the tree agree, whatever the order of answer, review,       *)
(* abort, revocation and timeout.                                          *)
THEOREM InductiveInvariant == Spec => []IInv
  BY InitIInv, NextIInv, PTL DEF Spec

(* The variables keep their types.                                         *)
THEOREM TypeCorrect == Spec => []TypeOK
<1>1. IInv => TypeOK
  BY DEF IInv
<1> QED BY <1>1, InductiveInvariant, PTL

(* The outcome a waiter hears is that of its own edit, and the truth about *)
(* the tree.                                                               *)
THEOREM OutcomeTheorem == Spec => []OutcomeIsTheTree
<1>1. IInv => OutcomeIsTheTree
  BY DEF IInv
<1> QED BY <1>1, InductiveInvariant, PTL

(* A waiter has the record that will settle it, a wait for idle the lease. *)
THEOREM NobodyWaitsInVainTheorem == Spec => []NobodyWaitsInVain
<1>1. IInv => NobodyWaitsInVain
  BY DEF IInv
<1> QED BY <1>1, InductiveInvariant, PTL

(* A revoked run has neither lease nor queued action.                      *)
THEOREM RevokedRunTheorem == Spec => []RevokedRunIsQuiet
<1>1. IInv => RevokedRunIsQuiet
  BY DEF IInv
<1> QED BY <1>1, InductiveInvariant, PTL

(* An answer of the edit port is one that GovernedEdit allows.             *)
LEMMA AnsweredRefines ==
  ASSUME IInv, NEW e \in Edits, NEW a \in {"completed", "refused"}, Answered(e, a),
         phase[e] # "done", tree' = tree, a = "completed" => e \in tree
  PROVE  Promise!Next
<1>1. answer[e] = None /\ answer' = [answer EXCEPT ![e] = a]
  BY DEF IInv, AnswerIsLast, Answered
<1>2. Promise!Answer(e, a)
  BY <1>1 DEF Promise!Answer
<1> QED BY <1>2 DEF Promise!Next, Promise!Answers

(* A commit is one that GovernedEdit allows: of an edit that is open.      *)
LEMMA AppliedRefines ==
  ASSUME IInv, NEW e \in Edits, phase[e] # "done", e \notin tree, tree' = tree \cup {e},
         answer' = answer
  PROVE  Promise!Next
<1>1. answer[e] = None
  BY DEF IInv, AnswerIsLast
<1>2. Promise!Apply(e)
  BY <1>1 DEF Promise!Apply
<1> QED BY <1>2 DEF Promise!Next

LEMMA StepRefines == IInv /\ [Next]_vars => [Promise!Next]_<<tree, answer>>
<1> SUFFICES ASSUME IInv, [Next]_vars PROVE [Promise!Next]_<<tree, answer>>
  OBVIOUS
<1>1. CASE UNCHANGED vars
  BY <1>1 DEF vars
<1>2. ASSUME NEW e \in Edits,
             PrepareRefused(e) \/ BindRefused(e) \/ ReplyRefused(e) \/ ClientFails(e)
      PROVE  Promise!Next
  BY <1>2, AnsweredRefines DEF PrepareRefused, BindRefused, ReplyRefused, ClientFails
<1>3. ASSUME NEW e \in Edits, Complete(e)
      PROVE  Promise!Next
  <2>1. settled[e] = "succeeded" => e \in tree
    BY <1>3, EditConstants DEF Complete, IInv, OutcomeIsTheTree
  <2> QED BY <1>3, <2>1, AnsweredRefines DEF Complete
<1>4. ASSUME NEW e \in Edits,
             \/ Prepare(e) \/ Dispatch(e) \/ ReplyQueued(e) \/ Abort(e) \/ Admit(e)
             \/ ReviewTimeout(e) \/ \E completion \in {"rejected", "failed"} : ReviewEnds(e, completion)
      PROVE  UNCHANGED <<tree, answer>>
  BY <1>4 DEF Prepare, Dispatch, ReplyQueued, Abort, Admit, ReviewTimeout, ReviewEnds, portVars
<1>5. ASSUME NEW e \in Edits, NEW verdict \in CommitVerdicts \cup {"denied"},
             ServerEdit(e, verdict)
      PROVE  [Promise!Next]_<<tree, answer>>
  <2>1. phase[e] = "new" /\ e \notin tree /\ answer' = answer
    BY <1>5 DEF ServerEdit, IInv, UnsentIsUntouched
  <2>2. tree' = tree \/ tree' = tree \cup {e}
    BY <1>5 DEF ServerEdit
  <2> QED BY <2>1, <2>2, AppliedRefines
<1>6. ASSUME NEW e \in Edits, NEW verdict \in CommitVerdicts, ReviewApproves(e, verdict)
      PROVE  [Promise!Next]_<<tree, answer>>
  <2>1. answer' = answer /\ (tree' = tree \/ (tree' = tree \cup {e} /\ e \in leases))
    BY <1>6 DEF ReviewApproves, Commit, portVars
  <2>2. e \in leases => phase[e] # "done" /\ e \notin tree
    BY DEF IInv, LeaseIsOpen
  <2> QED BY <2>1, <2>2, AppliedRefines
<1>7. ASSUME NEW r \in Runs, RevokeRun(r) \/ Dispose(r) \/ WaitForIdle(r) \/ AbortTurn(r)
      PROVE  UNCHANGED <<tree, answer>>
  BY <1>7 DEF RevokeRun, Dispose, WaitForIdle, AbortTurn, EndRun, portVars
<1> QED BY <1>1, <1>2, <1>3, <1>4, <1>5, <1>6, <1>7 DEF Next

(* The edit port, its leases and its queue implement GovernedEdit: every   *)
(* edit reaches the tree at most once and never after its answer, and      *)
(* "completed" is only said of an edit that did.                           *)
THEOREM Refinement == Spec => PromiseKept
<1>1. Init => Promise!Init
  BY DEF Init, Promise!Init
<1> QED BY <1>1, StepRefines, InductiveInvariant, PTL DEF Spec, PromiseKept, Promise!Spec
=============================================================================
