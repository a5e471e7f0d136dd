--------------------------- MODULE MutationJournal ---------------------------
(***************************************************************************)
(* The durable journal of the external writes of one chat turn             *)
(* (packages/keiko-server/src/store/chatToolMutations.ts with              *)
(* chatToolMutationState.ts) together with its three callers: Jira writes  *)
(* (atlassian/jiraChatMutation.ts), MCP chat writes                        *)
(* (mcp/mcpChatMutation.ts) and native MCP writes of a coding run          *)
(* (coding-runtime/opencodeNativeMcpMutationJournal.ts).                   *)
(*                                                                         *)
(* Every store method is one SQLite transaction, so one step.  A caller is *)
(* cut at its awaits, and between two transactions that a crash can part.  *)
(* The provider at the other end of the wire, and      *)
(* whether it applies a request, is not the program's to know: effect is   *)
(* the truth the journal's outcomes are compared with.                     *)
(*                                                                         *)
(* HTTP statuses and protocol outcomes are reduced to what the rules tell  *)
(* apart: "ok" (2xx, or an MCP success), "definitive" (a 4xx that can be a *)
(* rejection) and "unclear" (408, 409, 429, 5xx, an MCP error).  The       *)
(* further link requests of a Jira write leave its record alone and are    *)
(* part of that write here.                                                *)
(***************************************************************************)
EXTENDS Naturals, FiniteSets

CONSTANTS
    Invocations,    \* invocation ids of the turn
    None,           \* no record, no outcome, no answer, no native call
    ActionOf,       \* ActionOf[i]: digest of the action i asks for
    SourceOf,       \* SourceOf[i]: "jira", "mcp" or "native"
    CallOf,         \* CallOf[i]: the native tool call i belongs to, or None
    Attachments,    \* actions that are Jira attachments
    BatchItems,     \* invocations that are items of an approved draft
    MaxHeld         \* MAX_MUTATIONS_PER_TURN

Phases   == {"prepared", "dispatched", "acknowledged", "settled"}
Outcomes == {"not-dispatched", "rejected", "succeeded", "succeeded-unconfirmed", "unknown"}
Answers  == {"ok", "definitive", "unclear"}
Records  == [phase : Phases, outcome : Outcomes \cup {None}, answer : Answers \cup {None},
             retired : BOOLEAN]

ASSUME JournalConstants ==
    /\ MaxHeld \in Nat
    /\ IsFiniteSet(Invocations)
    /\ SourceOf \in [Invocations -> {"jira", "mcp", "native"}]
    /\ BatchItems \subseteq Invocations
    /\ \A i \in Invocations : SourceOf[i] # "native" <=> CallOf[i] = None
    /\ None \notin Records \cup Outcomes \cup Answers

VARIABLES
    rec,        \* rec[i]: the journal row of i, or None
    caller,     \* caller[i]: where the code executing i stands
    effect,     \* effect[i]: what the provider did with i's request
    current     \* the turn is still the pending one

vars == <<rec, caller, effect, current>>

(* ready: prepared, not sent; sent: awaiting the provider; finishing: the   *)
(* call is over and is to be settled; document: so, with Jira's own error   *)
(* document at hand.                                                        *)
CallerSteps == {"idle", "ready", "sent", "finishing", "document"}

(* none: nothing left the process; wire: sent, fate open; applied, refused. *)
Effects == {"none", "wire", "applied", "refused"}

(* The CHECK constraints of the table: an outcome exactly when settled, an *)
(* answer only after dispatch, a positive one exactly when acknowledged.   *)
WellFormed(r) ==
    /\ r.phase = "settled" <=> r.outcome # None
    /\ r.phase = "prepared" => r.answer = None
    /\ r.phase = "dispatched" => r.answer # "ok"
    /\ r.phase = "acknowledged" => r.answer = "ok"

TypeOK ==
    /\ rec     \in [Invocations -> {r \in Records : WellFormed(r)} \cup {None}]
    /\ caller  \in [Invocations -> CallerSteps]
    /\ effect  \in [Invocations -> Effects]
    /\ current \in BOOLEAN
-----------------------------------------------------------------------------
(* The rules of the store.                                                 *)

Recorded  == {i \in Invocations : rec[i] # None}
Prepared  == [phase |-> "prepared", outcome |-> None, answer |-> None, retired |-> FALSE]
Refusals  == {"not-dispatched", "rejected"}
Uncertain == {"unknown", "succeeded-unconfirmed"}

(* The record the (chat, turn, action) lookup of prepare finds.            *)
Prior(i) == {j \in Recorded : ActionOf[j] = ActionOf[i] /\ ~rec[j].retired}

ObservedWithinNativeCall(j, i) ==
    /\ i # j
    /\ CallOf[i] # None
    /\ CallOf[j] = CallOf[i]
    /\ rec[j].phase = "acknowledged"

\* Mutant: an effect of unknown outcome no longer stops the turn.
InflightBarrierOnly(i) ==
    \E j \in Recorded :
        \/ rec[j].phase = "dispatched"
        \/ rec[j].phase = "acknowledged" /\ ~ObservedWithinNativeCall(j, i)

(* turnBarrier: an effect of unknown outcome, or a write in flight.        *)
TurnBarrier(i) ==
    \E j \in Recorded :
        \/ rec[j].outcome \in Uncertain
        \/ rec[j].phase = "dispatched"
        \/ rec[j].phase = "acknowledged" /\ ~ObservedWithinNativeCall(j, i)

HeldSingleWrites ==
    {j \in Recorded : j \notin BatchItems /\ rec[j].outcome \notin Refusals}

\* Mutant: the bound is tested with > instead of >=.
CapacityOffByOne(i) == i \notin BatchItems /\ Cardinality(HeldSingleWrites) > MaxHeld

CapacityReached(i) == i \notin BatchItems /\ Cardinality(HeldSingleWrites) >= MaxHeld

BlockedTurn(i) == TurnBarrier(i) \/ CapacityReached(i)

\* Mutant: any settled attachment may be asked for again.
RetryWhenSettled(j, i) ==
    /\ ActionOf[j] \in Attachments
    /\ rec[j].phase = "settled"
    /\ j # i

RetryableAttachment(j, i) ==
    /\ ActionOf[j] \in Attachments
    /\ rec[j].phase = "settled" /\ rec[j].outcome \in Refusals
    /\ j # i

\* Mutant: a conflict or a rate limit counts as a rejection too.
AnyErrorStatus(answer) == answer \in {"definitive", "unclear"}

DefinitiveRejectionStatus(answer) == answer = "definitive"

(* allowedOutcomes; document: the caller holds Jira's error document.      *)
AllowedOutcomes(r, i, document) ==
    IF r.phase = "prepared" THEN Refusals
    ELSE IF r.answer = "ok" THEN {"succeeded", "succeeded-unconfirmed"}
    ELSE IF document /\ SourceOf[i] = "jira" /\ DefinitiveRejectionStatus(r.answer)
         THEN {"unknown", "rejected"}
    ELSE {"unknown"}

\* Mutant: the outcome is stored and the phase forgotten.
OutcomeWithoutPhase(r, outcome) == [r EXCEPT !.outcome = outcome]

Settled(r, outcome) == [r EXCEPT !.phase = "settled", !.outcome = outcome]

(* What every reader of the journal is told of a record                    *)
(* (observedChatToolMutationOutcome).                                      *)
ObservedOutcome(r) ==
    IF r.phase = "settled" THEN r.outcome
    ELSE IF r.phase = "prepared" THEN "not-dispatched"
    ELSE IF r.phase = "dispatched" THEN "unknown"
    ELSE "succeeded-unconfirmed"
-----------------------------------------------------------------------------
(* The store's operations as its callers run them.                         *)

Retired(i) ==
    [j \in Invocations |-> IF j \in Prior(i) THEN [rec[j] EXCEPT !.retired = TRUE] ELSE rec[j]]

(* prepare: a prior record of the same action is replayed (nothing         *)
(* changes) unless it is a retryable attachment, which is retired first.   *)
(* A blocked turn is an answer, not an error: the retirement is committed. *)
Prepare(i) ==
    /\ current
    /\ \A j \in Prior(i) : RetryableAttachment(j, i)
    /\ \/ /\ BlockedTurn(i)
          /\ rec' = Retired(i)
          /\ UNCHANGED caller
       \/ /\ ~BlockedTurn(i)
          /\ rec[i] = None
          /\ rec' = [Retired(i) EXCEPT ![i] = Prepared]
          /\ caller' = [caller EXCEPT ![i] = "ready"]
    /\ UNCHANGED <<effect, current>>

(* beginDispatch: the barrier is asked again, the guard claims the         *)
(* approval in the same transaction, and only then the request leaves.     *)
BeginDispatch(i) ==
    /\ caller[i] = "ready"
    /\ rec[i].phase = "prepared"
    /\ current
    /\ ~TurnBarrier(i)
    /\ rec' = [rec EXCEPT ![i].phase = "dispatched"]
    /\ caller' = [caller EXCEPT ![i] = "sent"]
    /\ effect' = [effect EXCEPT ![i] = "wire"]
    /\ UNCHANGED current

(* The call ends before anything was sent: a local refusal, a denied       *)
(* guard, a blocked turn.  Only the MCP chat caller does not get to settle *)
(* when beginDispatch throws for a turn that is over.                      *)
EndUndispatched(i) ==
    /\ caller[i] = "ready"
    /\ SourceOf[i] = "mcp" => current
    /\ caller' = [caller EXCEPT ![i] = "finishing"]
    /\ UNCHANGED <<rec, effect, current>>

AbandonPrepared(i) ==
    /\ caller[i] = "ready" /\ SourceOf[i] = "mcp" /\ ~current
    /\ caller' = [caller EXCEPT ![i] = "idle"]
    /\ UNCHANGED <<rec, effect, current>>

(* acknowledge, acknowledgeMcp: an answer for a record that is no longer   *)
(* dispatched is a conflict and changes nothing.                           *)
Acknowledged(r, answer) ==
    IF r.phase # "dispatched" \/ r.answer # None THEN r
    ELSE [r EXCEPT !.phase = IF answer = "ok" THEN "acknowledged" ELSE "dispatched",
                   !.answer = answer]

(* What can come back.  A success is only reported for an applied request. *)
(* A proxy may replace any answer by an error, and an ambiguous status     *)
(* says nothing, not even with a document; a definitive one with Jira's    *)
(* document comes only with a request that was refused as a whole.  The    *)
(* native caller treats an error as no answer.                             *)
Answer(i) ==
    /\ caller[i] = "sent"
    /\ \/ /\ effect[i] = "applied"
          /\ rec' = [rec EXCEPT ![i] = Acknowledged(@, "ok")]
          /\ caller' = [caller EXCEPT ![i] = "finishing"]
       \/ /\ SourceOf[i] # "native"
          /\ rec' = [rec EXCEPT ![i] = Acknowledged(@, "unclear")]
          /\ caller' = [caller EXCEPT ![i] = "finishing"]
       \/ /\ SourceOf[i] = "jira"
          /\ \E answer \in {"definitive", "unclear"} :
                /\ rec' = [rec EXCEPT ![i] = Acknowledged(@, answer)]
                /\ \/ caller' = [caller EXCEPT ![i] = "finishing"]
                   \/ /\ answer = "definitive" => effect[i] = "refused"
                      /\ caller' = [caller EXCEPT ![i] = "document"]
    /\ UNCHANGED <<effect, current>>

(* Timeout, abort or lost answer.                                          *)
NoAnswer(i) ==
    /\ caller[i] = "sent"
    /\ caller' = [caller EXCEPT ![i] = "finishing"]
    /\ UNCHANGED <<rec, effect, current>>

(* settlement (Jira), dispatch (MCP chat), releaseUndispatched and         *)
(* retainUnconfirmed (native): the outcome the finishing caller asks for.  *)
Settlement(i) ==
    LET r == rec[i] IN
    {outcome \in Outcomes :
        \/ /\ r.phase = "prepared"
           /\ outcome \in Refusals
           /\ SourceOf[i] = "native" => outcome = "not-dispatched"
           /\ SourceOf[i] = "mcp" => outcome = "rejected"
        \/ /\ r.phase = "dispatched"
           /\ outcome = IF caller[i] = "document" /\ DefinitiveRejectionStatus(r.answer)
                        THEN "rejected" ELSE "unknown"
        \/ /\ r.phase = "acknowledged"
           /\ outcome \in {"succeeded", "succeeded-unconfirmed"}
           /\ SourceOf[i] = "native" => outcome = "succeeded-unconfirmed"}

(* settle refuses an outcome the record does not allow.                    *)
Settle(i) ==
    /\ caller[i] \in {"finishing", "document"}
    /\ \E outcome \in Settlement(i) :
          /\ outcome \in AllowedOutcomes(rec[i], i, caller[i] = "document")
          /\ rec' = [rec EXCEPT ![i] = Settled(@, outcome)]
    /\ caller' = [caller EXCEPT ![i] = "idle"]
    /\ UNCHANGED <<effect, current>>

(* Nothing left to settle; or a native call that was acknowledged and      *)
(* leaves the settlement to observeCompletion; or a settle that threw.     *)
EndCall(i) ==
    /\ caller[i] \in {"finishing", "document"}
    /\ caller' = [caller EXCEPT ![i] = "idle"]
    /\ UNCHANGED <<rec, effect, current>>
-----------------------------------------------------------------------------
(* Native calls are settled by what the coding runtime reports of them.    *)

UnsettledNative ==
    {i \in Recorded : SourceOf[i] = "native" /\ rec[i].phase \in {"dispatched", "acknowledged"}}

UncertainNative ==
    {i \in Recorded : SourceOf[i] = "native" /\ rec[i].outcome \in Uncertain}

RetainUnconfirmed(r) ==
    Settled(r, IF r.answer = "ok" THEN "succeeded-unconfirmed" ELSE "unknown")

(* Two identical native calls can hold the permit of one record; the one   *)
(* that does not get to dispatch releases it (releaseUndispatched).        *)
ReleaseTwin(i) ==
    /\ SourceOf[i] = "native" /\ caller[i] # "idle"
    /\ rec[i].phase # "settled"
    /\ rec' = [rec EXCEPT ![i] = IF @.phase = "prepared" THEN Settled(@, "not-dispatched")
                                 ELSE RetainUnconfirmed(@)]
    /\ UNCHANGED <<caller, effect, current>>

(* A completed call is confirmed when all its writes were acknowledged.    *)
(* Each write is settled in a transaction of its own: done are those the   *)
(* loop gets to, in whatever order the rows were read, before it ends, a   *)
(* settle throws or the process dies.                                      *)
ObserveCompletion(c, success) ==
    LET open      == {i \in UnsettledNative : CallOf[i] = c}
        confirmed == /\ success
                     /\ \A i \in open : rec[i].phase = "acknowledged"
                     /\ \A i \in UncertainNative : CallOf[i] # c IN
    /\ \E done \in SUBSET open \ {{}} :
          rec' = [i \in Invocations |->
                     IF i \notin done THEN rec[i]
                     ELSE IF confirmed THEN Settled(rec[i], "succeeded")
                     ELSE RetainUnconfirmed(rec[i])]
    /\ UNCHANGED <<caller, effect, current>>

(* settleUnconfirmed: the run ends with writes unsettled, retained one by  *)
(* one in the same way.                                                    *)
SettleUnconfirmed ==
    /\ \E done \in SUBSET UnsettledNative \ {{}} :
          rec' = [i \in Invocations |->
                     IF i \in done THEN RetainUnconfirmed(rec[i]) ELSE rec[i]]
    /\ UNCHANGED <<caller, effect, current>>
-----------------------------------------------------------------------------
(* The provider, the turn and the process.                                 *)

(* Sooner or later, also after the caller gave up.                         *)
Provider(i) ==
    /\ effect[i] = "wire"
    /\ \E fate \in {"applied", "refused"} : effect' = [effect EXCEPT ![i] = fate]
    /\ UNCHANGED <<rec, caller, current>>

EndTurn ==
    /\ current
    /\ current' = FALSE
    /\ UNCHANGED <<rec, caller, effect>>

(* The journal is durable, the callers are not.                            *)
Crash ==
    /\ caller' = [i \in Invocations |-> "idle"]
    /\ UNCHANGED <<rec, effect, current>>

Init ==
    /\ rec = [i \in Invocations |-> None]
    /\ caller = [i \in Invocations |-> "idle"]
    /\ effect = [i \in Invocations |-> "none"]
    /\ current = TRUE

NativeCalls == {CallOf[i] : i \in Invocations} \ {None}

Next ==
    \/ \E i \in Invocations :
          \/ Prepare(i) \/ BeginDispatch(i) \/ EndUndispatched(i) \/ AbandonPrepared(i)
          \/ Answer(i) \/ NoAnswer(i) \/ Settle(i) \/ EndCall(i)
          \/ Provider(i) \/ ReleaseTwin(i)
    \/ \E c \in NativeCalls, success \in BOOLEAN : ObserveCompletion(c, success)
    \/ SettleUnconfirmed
    \/ EndTurn
    \/ Crash

Spec == Init /\ [][Next]_vars
-----------------------------------------------------------------------------
(* No action takes effect twice in a turn: not by a repeated request, a    *)
(* retried attachment, a crash or a late provider                          *)
(* ("no automatic replay", chatToolMutationState.ts).                      *)
NoDoubleEffect ==
    \A i, j \in Invocations :
        ActionOf[i] = ActionOf[j] /\ effect[i] = "applied" /\ effect[j] = "applied" => i = j

(* What the journal says of a write is never contradicted by the provider: *)
(* a success was applied, a refusal or a write that was not dispatched was *)
(* not, and will not be.                                                   *)
TruthfulOutcome ==
    \A i \in Recorded :
        /\ ObservedOutcome(rec[i]) \in {"succeeded", "succeeded-unconfirmed"} =>
               effect[i] = "applied"
        /\ ObservedOutcome(rec[i]) \in Refusals => effect[i] \in {"none", "refused"}

(* A turn has at most one write whose fate is open, also after timeouts    *)
(* and crashes: nothing is sent behind an effect nobody can account for.   *)
OneUnresolvedEffect ==
    \A i, j \in Invocations : effect[i] = "wire" /\ effect[j] = "wire" => i = j

(* The single writes that may have reached a provider stay within the      *)
(* bound of the turn, however refusals, retries and batches mix.           *)
HeldWithinBound == Cardinality(HeldSingleWrites) <= MaxHeld
-----------------------------------------------------------------------------
(* What a reader is told of each write, and the abstract journal this one  *)
(* implements.                                                             *)
Told == [i \in Invocations |-> IF rec[i] = None THEN None ELSE ObservedOutcome(rec[i])]

Write == INSTANCE GovernedWrite WITH told <- Told, fate <- effect

(* Over lost and late answers, retries, twins, completion reports and      *)
(* crashes, the told outcomes move only as GovernedWrite allows: a write   *)
(* is sent once, with every other fate known, an unknown outcome is        *)
(* resolved only by what the provider did, and writes of a tool call are   *)
(* confirmed only while none of that call is unknown.                      *)
WritePromise == Write!Spec
=============================================================================
