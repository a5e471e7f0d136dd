-------------------------- MODULE InvocationRegistry --------------------------
(***************************************************************************)
(* The registry that hands each governed tool invocation of a coding run   *)
(* to its executor once (coding-runtime/codingToolInvocationRegistry.ts,   *)
(* with the replay filter of codingToolReplayFilter.ts).                   *)
(*                                                                         *)
(* A request is staged, taken by its executor, may serve native reads, and *)
(* is settled, or its life ends, or its run is revoked.  Its identity      *)
(* (run, action id, idempotency key) outlives it as a tombstone, and as a  *)
(* member of the run's replay filter once tombstones must make room.       *)
(*                                                                         *)
(* Every method is synchronous, so one step.  stage, take and the native   *)
(* read methods first call expire(), which is also all a timer does: here  *)
(* they wait for NothingDue, so such a method is Expire followed by it.    *)
(* A payload is its size.  Its digest only words a refusal, and a false    *)
(* positive of the filter is a refusal that changes nothing: both are left *)
(* out, as are requests validStage rejects and the methods that only read. *)
(***************************************************************************)
EXTENDS Naturals, Sequences, FiniteSets, SequencesExt, Totals

CONSTANTS
    Ids,            \* invocation identities
    None,           \* no entry, no tombstone
    RunOf,          \* RunOf[i]: the run of i
    ActionOf,       \* ActionOf[i]: the action id of i within its run
    KeyOf,          \* KeyOf[i]: the idempotency key of i within its run
    Sizes,          \* payload sizes explored
    PacketBytes,    \* what one native read operation adds to its entry
    MaxEntryBytes,  \* CODING_TOOL_INVOCATION_MAX_BYTES_PER_ENTRY
    MaxTotalBytes,  \* CODING_TOOL_INVOCATION_MAX_AGGREGATE_BYTES
    MaxLive,        \* CODING_TOOL_INVOCATION_MAX_LIVE_PER_RUN
    MaxIdentities,  \* MAX_IDENTITIES
    MaxRevoked,     \* MAX_REVOKED_RUNS
    Lives,          \* invocation lives explored
    MaxTime         \* bound: the clock

Runs == {RunOf[i] : i \in Ids}

ASSUME RegistryConstants ==
    /\ Sizes \subseteq 1 .. MaxEntryBytes /\ Lives \subseteq Nat \ {0}
    /\ {MaxEntryBytes, MaxTotalBytes, MaxLive, MaxIdentities, MaxRevoked, PacketBytes, MaxTime}
          \subseteq Nat
    /\ None \notin [expires : Nat, bytes : Nat, native : Nat \cup {None}]
    /\ None \notin [expires : Nat, receipt : BOOLEAN] /\ None \notin Nat

VARIABLES
    now,        \* the clock
    entries,    \* entries[i]: the staged entry of i, or None
    claimed,    \* claimed[i]: the taken entry of i, or None
    tombstones, \* tombstones[i], or None
    actions,    \* identities that own their action id (actionIndex)
    keys,       \* identities that own their idempotency key (idempotencyIndex)
    evicted,    \* identities in their run's replay filter
    revoked,    \* the revoked runs still remembered, oldest first
    totalBytes,
    disposed,
    taken,      \* history: taken[i], how often i was handed out, its run not forgotten
    running,    \* history: identities taken whose abort signal has not fired
    forgotten   \* history: revoked runs dropped from the bounded memory

vars == <<now, entries, claimed, tombstones, actions, keys, evicted, revoked, totalBytes,
          disposed, taken, running, forgotten>>
histories == <<taken, running, forgotten>>

SameAction(i, j) == RunOf[i] = RunOf[j] /\ ActionOf[i] = ActionOf[j]
SameKey(i, j) == RunOf[i] = RunOf[j] /\ KeyOf[i] = KeyOf[j]

IsRevoked(r) == r \in ToSet(revoked)
Due(e) == e # None /\ e.expires <= now
NothingDue == \A i \in Ids : ~Due(entries[i]) /\ ~Due(claimed[i])

(* What an entry holds of the aggregate: its payload and its packets.      *)
Held(e) == IF e = None THEN 0 ELSE e.bytes + (IF e.native = None THEN 0 ELSE e.native)
HeldBy(es, gone) == Total([i \in gone |-> Held(es[i])], gone)

--------------------------------------------------------------------------
(* collision: an index or the filter knows the action id or the key.       *)
Collides(i) ==
    \/ \E j \in actions : SameAction(i, j)
    \/ \E j \in keys : SameKey(i, j)
    \/ \E j \in evicted : SameAction(i, j) \/ SameKey(i, j)

OfRun(es, r) == {i \in Ids : RunOf[i] = r /\ es[i] # None}
RunEntryCount(r) == Cardinality(OfRun(entries, r)) + Cardinality(OfRun(claimed, r))

(* evictSettled: the settled, expired identities of a run at its limit.    *)
Evictable(r) ==
    IF Cardinality({i \in actions : RunOf[i] = r}) < MaxIdentities
    THEN {}
    ELSE {i \in OfRun(tombstones, r) : tombstones[i].expires <= now
                                       /\ entries[i] = None /\ claimed[i] = None}

EvictWithoutFilter(gone) ==
    /\ evicted' = evicted
    /\ tombstones' = [i \in Ids |-> IF i \in gone THEN None ELSE tombstones[i]]
Evict(gone) ==
    /\ evicted' = evicted \cup gone
    /\ tombstones' = [i \in Ids |-> IF i \in gone THEN None ELSE tombstones[i]]

Stage(i, size, life) ==
    LET r == RunOf[i]
        gone == Evictable(r)
        actionsLeft == {j \in actions : ~\E g \in gone : SameAction(j, g)}
        keysLeft == {j \in keys : ~\E g \in gone : SameKey(j, g)}
        hasCapacity == /\ RunEntryCount(r) < MaxLive
                       /\ Cardinality({j \in actionsLeft : RunOf[j] = r}) < MaxIdentities
                       /\ totalBytes + size <= MaxTotalBytes
    IN /\ NothingDue
       /\ ~disposed /\ ~IsRevoked(r)
       /\ ~Collides(i)
       /\ hasCapacity \/ gone # {}
       /\ now + life <= MaxTime
       /\ Evict(gone)
       /\ IF hasCapacity
          THEN /\ entries' = [entries EXCEPT ![i] = [expires |-> now + life, bytes |-> size,
                                                     native |-> None]]
               /\ actions' = actionsLeft \cup {i}
               /\ keys' = keysLeft \cup {i}
               /\ totalBytes' = totalBytes + size
          ELSE /\ actions' = actionsLeft
               /\ keys' = keysLeft
               /\ UNCHANGED <<entries, totalBytes>>
       /\ UNCHANGED <<now, claimed, revoked, disposed, histories>>

(* remember: the first tombstone of an identity stays.                     *)
RememberPayload(es, gone) ==
    [i \in Ids |-> IF i \in gone /\ tombstones[i] = None THEN es[i] ELSE tombstones[i]]
Remember(es, gone) ==
    [i \in Ids |-> IF i \in gone /\ tombstones[i] = None
                   THEN [expires |-> es[i].expires, receipt |-> FALSE] ELSE tombstones[i]]

CountTake(i) ==
    taken' = IF RunOf[i] \in forgotten THEN taken ELSE [taken EXCEPT ![i] = @ + 1]

(* take hands the payload out; its bytes stay accounted until it is        *)
(* dropped.                                                                *)
Take(i) ==
    /\ NothingDue
    /\ ~disposed /\ ~IsRevoked(RunOf[i])
    /\ claimed[i] = None /\ entries[i] # None
    /\ entries' = [entries EXCEPT ![i] = None]
    /\ tombstones' = Remember(entries, {i})
    /\ claimed' = [claimed EXCEPT ![i] = entries[i]]
    /\ CountTake(i)
    /\ running' = running \cup {i}
    /\ UNCHANGED <<now, actions, keys, evicted, revoked, totalBytes, disposed, forgotten>>

AttachNativeRead(i) ==
    /\ NothingDue
    /\ ~disposed
    /\ claimed[i] # None /\ claimed[i].native = None
    /\ claimed' = [claimed EXCEPT ![i].native = 0]
    /\ UNCHANGED <<now, entries, tombstones, actions, keys, evicted, revoked, totalBytes,
                   disposed, histories>>

(* claimNativeReadOperation of an operation not seen before.               *)
ClaimNativeReadOperation(i) ==
    /\ NothingDue
    /\ ~disposed
    /\ claimed[i] # None /\ claimed[i].native # None
    /\ Held(claimed[i]) + PacketBytes <= MaxEntryBytes
    /\ totalBytes + PacketBytes <= MaxTotalBytes
    /\ claimed' = [claimed EXCEPT ![i].native = @ + PacketBytes]
    /\ totalBytes' = totalBytes + PacketBytes
    /\ UNCHANGED <<now, entries, tombstones, actions, keys, evicted, revoked, disposed, histories>>

(* Drop live, of the staged, and held, of the taken entries: their payload *)
(* is wiped, their signal fires, their tombstone is left behind.           *)
Without(es, gone) == [i \in Ids |-> IF i \in gone THEN None ELSE es[i]]
DropPayloadsOnly(live, held) ==
    /\ entries' = Without(entries, live)
    /\ claimed' = Without(claimed, held)
    /\ totalBytes' = totalBytes - HeldBy(entries, live)
                     - Total([i \in held |-> claimed[i].bytes], held)
    /\ running' = running \ held
Drop(live, held) ==
    /\ entries' = Without(entries, live)
    /\ claimed' = Without(claimed, held)
    /\ totalBytes' = totalBytes - HeldBy(entries, live) - HeldBy(claimed, held)
    /\ running' = running \ held

Settle(i, receipt) ==
    /\ claimed[i] # None
    /\ Drop({}, {i})
    /\ tombstones' = LET t == Remember(claimed, {i})
                     IN IF receipt /\ tombstones[i] # None THEN [t EXCEPT ![i].receipt = TRUE] ELSE t
    /\ UNCHANGED <<now, actions, keys, evicted, revoked, disposed, taken, forgotten>>

(* expire, from a timer or at the start of a method.                       *)
ExpireLiveOnly ==
    LET live == {i \in Ids : Due(entries[i])}
    IN /\ ~NothingDue
       /\ Drop(live, {})
       /\ tombstones' = Remember(entries, live)
       /\ UNCHANGED <<now, actions, keys, evicted, revoked, disposed, taken, forgotten>>
Expire ==
    LET live == {i \in Ids : Due(entries[i])}
        held == {i \in Ids : Due(claimed[i])}
    IN /\ ~NothingDue
       /\ Drop(live, held)
       /\ tombstones' = [i \in Ids |-> IF i \in live THEN Remember(entries, live)[i]
                                       ELSE Remember(claimed, held)[i]]
       /\ UNCHANGED <<now, actions, keys, evicted, revoked, disposed, taken, forgotten>>

(* revokeRun: everything of the run goes, its identities too; the bounded  *)
(* memory of revoked runs forgets the oldest.                              *)
RevokeRunStagedOnly(r) ==
    /\ ~IsRevoked(r)
    /\ LET remembered == Append(revoked, r)
       IN IF Len(remembered) > MaxRevoked
          THEN revoked' = Tail(remembered) /\ forgotten' = forgotten \cup {Head(remembered)}
          ELSE revoked' = remembered /\ UNCHANGED forgotten
    /\ Drop(OfRun(entries, r), {})
    /\ tombstones' = [i \in Ids |-> IF RunOf[i] = r THEN None ELSE tombstones[i]]
    /\ actions' = {i \in actions : RunOf[i] # r}
    /\ keys' = {i \in keys : RunOf[i] # r}
    /\ evicted' = {i \in evicted : RunOf[i] # r}
    /\ UNCHANGED <<now, disposed, taken>>
RevokeRun(r) ==
    /\ ~IsRevoked(r)
    /\ LET remembered == Append(revoked, r)
       IN IF Len(remembered) > MaxRevoked
          THEN revoked' = Tail(remembered) /\ forgotten' = forgotten \cup {Head(remembered)}
          ELSE revoked' = remembered /\ UNCHANGED forgotten
    /\ Drop(OfRun(entries, r), OfRun(claimed, r))
    /\ tombstones' = [i \in Ids |-> IF RunOf[i] = r THEN None ELSE tombstones[i]]
    /\ actions' = {i \in actions : RunOf[i] # r}
    /\ keys' = {i \in keys : RunOf[i] # r}
    /\ evicted' = {i \in evicted : RunOf[i] # r}
    /\ UNCHANGED <<now, disposed, taken>>

Dispose ==
    /\ ~disposed
    /\ disposed' = TRUE
    /\ Drop({i \in Ids : entries[i] # None}, {i \in Ids : claimed[i] # None})
    /\ tombstones' = [i \in Ids |-> None]
    /\ actions' = {} /\ keys' = {} /\ evicted' = {}
    /\ UNCHANGED <<now, revoked, taken, forgotten>>

Tick ==
    /\ now < MaxTime
    /\ now' = now + 1
    /\ UNCHANGED <<entries, claimed, tombstones, actions, keys, evicted, revoked, totalBytes,
                   disposed, histories>>

--------------------------------------------------------------------------
Init ==
    /\ now = 0
    /\ entries = [i \in Ids |-> None]
    /\ claimed = [i \in Ids |-> None]
    /\ tombstones = [i \in Ids |-> None]
    /\ actions = {} /\ keys = {} /\ evicted = {}
    /\ revoked = <<>>
    /\ totalBytes = 0
    /\ disposed = FALSE
    /\ taken = [i \in Ids |-> 0]
    /\ running = {} /\ forgotten = {}

Next ==
    \/ \E i \in Ids, size \in Sizes, life \in Lives : Stage(i, size, life)
    \/ \E i \in Ids : Take(i)
    \/ \E i \in Ids : AttachNativeRead(i)
    \/ \E i \in Ids : ClaimNativeReadOperation(i)
    \/ \E i \in Ids, receipt \in BOOLEAN : Settle(i, receipt)
    \/ Expire
    \/ \E r \in Runs : RevokeRun(r)
    \/ Dispose
    \/ Tick

Spec == Init /\ [][Next]_vars

(* The clock moves and a due timer fires; callers promise nothing.         *)
FairSpec == Spec /\ WF_vars(Tick) /\ WF_vars(Expire)

--------------------------------------------------------------------------
Entry == [expires : Nat, bytes : Nat, native : Nat \cup {None}]
Tombstone == [expires : Nat, receipt : BOOLEAN]

(* The shape of the registry: a tombstone keeps nothing of the payload.    *)
TypeOK ==
    /\ now \in Nat
    /\ entries \in [Ids -> Entry \cup {None}] /\ claimed \in [Ids -> Entry \cup {None}]
    /\ tombstones \in [Ids -> Tombstone \cup {None}]
    /\ actions \subseteq Ids /\ keys \subseteq Ids /\ evicted \subseteq Ids
    /\ revoked \in Seq(Runs) /\ forgotten \subseteq Runs
    /\ disposed \in BOOLEAN
    /\ taken \in [Ids -> Nat] /\ running \subseteq Ids

(* An action id or an idempotency key of a run is executed at most once:   *)
(* not again after a settlement, an expiry or an eviction, and not by      *)
(* another request that reuses one of the two.  Only a run revoked so long *)
(* ago that the registry forgot it is not covered.                         *)
ExecutedOnce ==
    \A i, j \in Ids :
        taken[i] > 0 /\ taken[j] > 0 /\ RunOf[i] \notin forgotten
        /\ (SameAction(i, j) \/ SameKey(i, j)) => i = j /\ taken[i] = 1

(* The aggregate counter is what the live and claimed entries hold, packets *)
(* of native reads included, and stays within its limit.                    *)
BytesAccounted ==
    /\ totalBytes = HeldBy(entries, Ids) + HeldBy(claimed, Ids)
    /\ totalBytes <= MaxTotalBytes

(* An executor whose signal has not fired is one the registry can still    *)
(* stop: its entry is claimed, its run not revoked, the registry open.     *)
RunningStoppable ==
    \A i \in running : claimed[i] # None /\ ~disposed /\ ~IsRevoked(RunOf[i])

(* What makes ExecutedOnce and RunningStoppable inductive: the two indexes *)
(* agree and own each action id and key once; what is staged, taken or     *)
(* buried is indexed, and never evicted; a staged identity is new; what    *)
(* was executed is remembered, or its run or the registry refuses          *)
(* everything; and a refused run holds nothing.                            *)
IndexesAgree ==
    /\ actions = keys
    /\ \A i, j \in actions : SameAction(i, j) \/ SameKey(i, j) => i = j
    /\ \A i \in actions, j \in evicted : ~SameAction(i, j) /\ ~SameKey(i, j)
Indexed ==
    \A i \in Ids : entries[i] # None \/ claimed[i] # None \/ tombstones[i] # None => i \in actions
StagedIsNew ==
    \A i \in Ids : /\ entries[i] # None => claimed[i] = None /\ tombstones[i] = None
                   /\ claimed[i] # None => tombstones[i] # None
TakenRemembered ==
    \A i \in Ids : taken[i] > 0 =>
        \/ tombstones[i] # None \/ i \in evicted
        \/ disposed \/ IsRevoked(RunOf[i]) \/ RunOf[i] \in forgotten
RefusedHoldsNothing ==
    \A i \in Ids : disposed \/ IsRevoked(RunOf[i]) => entries[i] = None /\ claimed[i] = None
IInv ==
    /\ TypeOK /\ IndexesAgree /\ Indexed /\ StagedIsNew /\ TakenRemembered
    /\ RefusedHoldsNothing /\ ExecutedOnce /\ RunningStoppable

(* A payload does not outlive its deadline: with no help from its executor *)
(* every staged or taken entry is dropped and its executor signalled.      *)
PayloadReleased ==
    \A i \in Ids : (entries[i] # None \/ claimed[i] # None)
                   ~> (entries[i] = None /\ claimed[i] = None /\ i \notin running)
=============================================================================
