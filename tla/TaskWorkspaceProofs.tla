------------------------- MODULE TaskWorkspaceProofs -------------------------
(***************************************************************************)
(* Proofs about the task workspaces, under the keys the code takes: one    *)
(* inductive invariant, what it says of each row and each flow (IInv) and  *)
(* of flows that meet on a workspace (SInv), and a lemma per action.  A    *)
(* provision runs beside the flows that hold ws: of its workspace, so a    *)
(* flow cannot rely on its row being the one it has read; what it can rely *)
(* on is that the row is not deleted under it, and that a row it has read  *)
(* as parked is not advertised before its section ends.                    *)
(***************************************************************************)
EXTENDS TaskWorkspace, TLAPS

Sections == ProvisionSteps \cup SectionSteps
Probes   == {"probe1", "probe2"}
Owned    == Sections \ (Probes \cup {"classify"})
Snapped  == Sections \ (Probes \cup {"gate", "prune"})
Parked   == {"paused", "abandoned"}

RowSound(r) == r # None /\ Bindable(r) => r.ident # 0

(* A flow knows its workspace, its actor and the row it read as long as it *)
(* needs them, a repair that provisions is pruning or provisioning, and a  *)
(* carried row is as sound as a stored one.                                *)
FlowSound(fl) ==
    /\ fl.pc # "idle" => fl.ws \in Workspaces
    /\ fl.pc \in Owned => fl.actor \in Actors
    /\ fl.pc \in Snapped => fl.snap # None
    /\ fl.nested => fl.pc \in ProvisionSteps \cup {"prune"}
    /\ RowSound(fl.snap)
    /\ fl.pc \in ProvisionSteps /\ fl.snap # None => fl.snap.state \in Completable
    /\ fl.pc \in {"safety", "probed"} \cup Removing => fl.snap.state = "cleanup-pending"

IInv ==
    /\ TypeOK
    /\ \A w \in Workspaces : RowSound(row[w])
    /\ \A f \in Flows : FlowSound(flow[f])

InSection(f) == flow[f].pc \in Sections

(* What ws:, and repo: with prov:, keep apart.                             *)
WorkspaceExclusive ==
    \A f, g \in Flows, w \in Workspaces :
        f # g /\ HoldsWorkspace(f, w) => ~HoldsWorkspace(g, w)

RepositoryExclusive ==
    \A f, g \in Flows :
        f # g /\ flow[f].pc \in ProvisionSteps => flow[g].pc \notin ProvisionSteps

(* Only a holder of ws: deletes a row.                                     *)
RowHeld ==
    \A f \in Flows, w \in Workspaces :
        HoldsWorkspace(f, w) /\ flow[f].pc \notin Probes => row[w] # None

(* A flow that has read a parked row may write it back: until then nobody  *)
(* advertises the workspace, and no pending flip is about to.              *)
Active(r)      == r # None /\ r.state = "active"
ReadParked(fl) == fl.snap # None /\ fl.snap.state \in Parked
FlipPending(w) == \E g \in Flows : flow[g].pc = "flip" /\ flow[g].ws = w

ParkedUnadvertised ==
    \A f \in Flows, w \in Workspaces :
        HoldsWorkspace(f, w) /\ ReadParked(flow[f]) =>
            pointer # w /\ (FlipPending(w) => ~Active(row[w]))

SInv ==
    /\ WorkspaceExclusive /\ RepositoryExclusive
    /\ RowHeld /\ ParkedUnadvertised /\ PointerNeverParked

Inv == IInv /\ SInv

(* What every step does besides keeping the invariant.                     *)
Unlocked(f) ==
    flow[f].nested /\ flow'[f] = Idle =>
        LET r == row'[flow[f].ws] IN
        r # None /\ r.lock # None =>
            ~(r.lock.owner = flow[f].actor /\ r.lock.reason = "repair")

Revived(w) ==
    row[w] = None /\ row'[w] # None =>
        \/ row'[w].state = "provisioning"
        \/ \E f \in Flows : Provisioning(f, w) /\ flow'[f] # flow[f]

MarkKept(f) ==
    Marked(f) /\ flow'[f].pc = flow[f].pc /\ ~Marked(f)' =>
        \E g \in Flows : flow'[g] # flow[g] /\ AcrossKeys(f, g)

GoodStep ==
    /\ Inv'
    /\ \A w \in Workspaces : Revived(w)
    /\ \A f \in Flows : MarkKept(f)
    /\ Crash \/ \A f \in Flows : Unlocked(f)

Holding(fl, w) == fl.ws = w /\ (fl.pc \in SectionSteps \/ fl.nested)
Unmarked(w)    == \A g \in Flows : Marked(g) => flow[g].ws # w

(* How a step of f, which writes r to the row of w and goes on as rec, fits *)
(* what the other flows rely on: the keys, ...                             *)
FitsKeys(f, w, rec) ==
    /\ rec.pc # "idle" => rec.ws = w
    /\ InSection(f) => rec.pc # flow[f].pc
    /\ Holding(rec, w) => HoldsWorkspace(f, w) \/ WorkspaceFree(w)
    /\ rec.pc \in ProvisionSteps => flow[f].pc \in ProvisionSteps \/ RepoFree
    /\ rec.pc = "flip" => WorkspaceFree(w)

(* ... the row, ...                                                        *)
FitsRow(f, w, r, rec) ==
    /\ Holding(rec, w) /\ rec.pc \notin Probes => r # None
    /\ r = None => row[w] = None \/ HoldsWorkspace(f, w)
    /\ row[w] = None /\ r # None => r.state = "provisioning" \/ Provisioning(f, w)
    /\ r # row[w] => HoldsWorkspace(f, w) \/ Provisioning(f, w) \/ Unmarked(w)

(* ... and the pointer.                                                    *)
FitsPointer(f, w, r, rec) ==
    /\ pointer' \in {pointer, w, None}
    /\ pointer' = w => r # None /\ r.state \notin Parked
    /\ pointer' = w => pointer = w \/ (FlipPending(w) /\ Active(row[w]))
    /\ Active(r) => \/ Active(row[w]) \/ HoldsWorkspace(f, w) \/ WorkspaceFree(w)
                    \/ FlipsDone /\ rec.pc # "flip"
    /\ Holding(rec, w) /\ ReadParked(rec) => pointer' # w /\ (FlipPending(w) => ~Active(r))

Fits(f, w, r, rec) == FitsKeys(f, w, rec) /\ FitsRow(f, w, r, rec) /\ FitsPointer(f, w, r, rec)
-----------------------------------------------------------------------------
(* A flow that has ended is well formed and holds nothing.                 *)
LEMMA IdleSound ==
  /\ Idle \in FlowRecords /\ FlowSound(Idle) /\ ~Idle.nested /\ Idle.pc = "idle"
  /\ "idle" \notin Sections /\ \A w : ~Holding(Idle, w)
<1>1. Idle \in FlowRecords
  BY BoundsOK DEF Idle, FlowRecords, Identities
<1>2. FlowSound(Idle)
  BY DEF Idle, FlowSound, RowSound, Owned, Snapped, Probes, Sections, ProvisionSteps, SectionSteps,
         Removing
<1>3. "idle" \notin Sections
  BY DEF Sections, ProvisionSteps, SectionSteps
<1>. QED  BY <1>1, <1>2, <1>3 DEF Idle, Holding, Sections

(* A lock as Lock builds it.                                               *)
LEMMA LockTyped ==
  ASSUME NEW a \in Actors, NEW why \in Reasons
  PROVE  /\ Lock(a, why) \in Locks /\ Lock(a, why) # None
         /\ Lock(a, why).owner = a /\ Lock(a, why).reason = why
<1>1. Lock(a, why) \in Locks
  BY DEF Lock, Locks
<1>. QED  BY <1>1, NoneIsNothing DEF Lock

(* A flow as Flow builds it.                                               *)
LEMMA FlowTyped ==
  ASSUME NEW step \in {"flip"} \cup Sections, NEW w \in Workspaces,
         NEW a \in Actors \cup {None}, NEW r \in Rows \cup {None}
  PROVE  /\ Flow(step, w, a, r) \in FlowRecords
         /\ Flow(step, w, a, r).pc = step /\ Flow(step, w, a, r).ws = w
         /\ Flow(step, w, a, r).actor = a /\ Flow(step, w, a, r).snap = r
         /\ ~Flow(step, w, a, r).nested
<1>1. Idle \in FlowRecords /\ ~Idle.nested
  BY IdleSound
<1>. QED  BY <1>1 DEF Flow, FlowRecords, Sections

(* What the invariant says of one flow.                                    *)
LEMMA FlowKnown ==
  ASSUME Inv, NEW f \in Flows
  PROVE  /\ flow[f] \in FlowRecords /\ FlowSound(flow[f])
         /\ disk \in [Workspaces -> Identities] /\ minted \in [Workspaces -> Identities]
         /\ InSection(f) => flow[f].ws \in Workspaces
         /\ flow[f].pc \in Owned => flow[f].actor \in Actors
         /\ flow[f].pc \in Snapped =>
               InSection(f) /\ flow[f].snap \in Rows /\ RowSound(flow[f].snap)
<1>1. flow[f] \in FlowRecords /\ FlowSound(flow[f])
  BY DEF Inv, IInv, TypeOK
<1>2. flow[f].pc \in Snapped => flow[f].snap \in Rows
  BY <1>1 DEF FlowRecords, FlowSound
<1>3. InSection(f) => flow[f].pc # "idle"
  BY IdleSound DEF InSection
<1>. QED
  BY <1>1, <1>2, <1>3 DEF Inv, IInv, TypeOK, FlowSound, InSection, Snapped

(* A flow in a section works under ws:, or is a plain provision.           *)
LEMMA UnderAKey ==
  ASSUME NEW f \in Flows, InSection(f)
  PROVE  \/ HoldsWorkspace(f, flow[f].ws)
         \/ Provisioning(f, flow[f].ws) /\ flow[f].pc \in ProvisionSteps
BY DEF InSection, Sections, HoldsWorkspace, Provisioning

(* A marked row says what is done to its worktree.                         *)
LEMMA MarkedMeans ==
  ASSUME NEW g \in Flows, Marked(g)
  PROVE  /\ InSection(g) /\ row[flow[g].ws] # None
         /\ \/ row[flow[g].ws].state = "provisioning" /\ flow[g].pc \in ProvisionSteps
            \/ row[flow[g].ws].state = "cleanup-pending" /\ flow[g].pc \in SectionSteps
<1>1. CASE flow[g].pc \in Adding
  BY <1>1 DEF Marked, Adding, InSection, Sections, ProvisionSteps
<1>2. CASE flow[g].pc \in Removing /\ flow[g].pc \notin Adding
  BY <1>2 DEF Marked, Removing, InSection, Sections, SectionSteps
<1>. QED  BY <1>1, <1>2 DEF Marked

(* A flow moves and at most the row of one workspace is written.           *)
LEMMA SectionStep ==
  ASSUME Inv, NEW f \in Flows, NEW w \in Workspaces,
         NEW r \in Rows \cup {None}, NEW rec \in FlowRecords,
         RowSound(r), FlowSound(rec),
         row' = [row EXCEPT ![w] = r], flow' = [flow EXCEPT ![f] = rec],
         disk' \in [Workspaces -> Identities], minted' \in [Workspaces -> Identities],
         pointer' \in Workspaces \cup {None},
         Unlocked(f), Fits(f, w, r, rec)
  PROVE  GoodStep
<1>1. /\ row' \in [Workspaces -> Rows \cup {None}] /\ flow' \in [Flows -> FlowRecords]
      /\ row'[w] = r /\ flow'[f] = rec
      /\ \A v \in Workspaces : v # w => row'[v] = row[v]
      /\ \A g \in Flows : g # f => flow'[g] = flow[g]
  BY DEF Inv, IInv, TypeOK
<1>2. TypeOK'
  BY <1>1 DEF TypeOK
<1>3. IInv'
  BY <1>1, <1>2 DEF Inv, IInv
<1>4. /\ \A g \in Flows : g # f => \A v : HoldsWorkspace(g, v)' <=> HoldsWorkspace(g, v)
      /\ \A v : HoldsWorkspace(f, v)' <=> Holding(rec, v)
      /\ \A v : Holding(rec, v) => v = w
  <2>1. \A v : HoldsWorkspace(f, v)' <=> Holding(rec, v)
    BY <1>1 DEF HoldsWorkspace, Holding
  <2>2. \A g \in Flows : g # f => \A v : HoldsWorkspace(g, v)' <=> HoldsWorkspace(g, v)
    BY <1>1 DEF HoldsWorkspace
  <2>3. rec.pc \in SectionSteps \/ rec.nested => rec.pc # "idle"
    BY IdleSound DEF FlowSound, Sections, SectionSteps
  <2>. QED  BY <2>1, <2>2, <2>3 DEF Holding, Fits, FitsKeys
<1>5. WorkspaceExclusive'
  <2>1. \A g \in Flows : g # f /\ Holding(rec, w) => ~HoldsWorkspace(g, w)
    BY DEF Fits, FitsKeys, WorkspaceFree, Inv, SInv, WorkspaceExclusive
  <2>. QED  BY <1>4, <2>1 DEF Inv, SInv, WorkspaceExclusive
<1>6. RepositoryExclusive'
  BY <1>1 DEF Fits, FitsKeys, RepoFree, Inv, SInv, RepositoryExclusive
<1>7. RowHeld'
  <2>1. ASSUME NEW g \in Flows, g # f, HoldsWorkspace(g, w), flow[g].pc \notin Probes
        PROVE  r # None
    BY <2>1 DEF Fits, FitsRow, Inv, SInv, RowHeld, WorkspaceExclusive
  <2>2. Holding(rec, w) /\ rec.pc \notin Probes => r # None
    BY DEF Fits, FitsRow
  <2>. QED  BY <1>1, <1>4, <2>1, <2>2 DEF Inv, SInv, RowHeld
<1>8. ParkedUnadvertised'
  <2>1. ASSUME NEW v \in Workspaces, FlipPending(v)', rec.pc # "flip" \/ v # w
        PROVE  FlipPending(v)
    <3>1. PICK g \in Flows : flow'[g].pc = "flip" /\ flow'[g].ws = v
      BY <2>1 DEF FlipPending
    <3>2. g # f
      BY <1>1, <2>1, <3>1 DEF Fits, FitsKeys
    <3>. QED  BY <1>1, <3>1, <3>2 DEF FlipPending
  <2>2. ASSUME NEW g \in Flows, g # f, NEW v \in Workspaces, HoldsWorkspace(g, v), ReadParked(flow[g])
        PROVE  pointer' # v /\ (FlipPending(v)' => ~Active(row'[v]))
    <3>1. pointer # v /\ (FlipPending(v) => ~Active(row[v])) /\ v # None
      BY <2>2, NoneIsNothing DEF Inv, SInv, ParkedUnadvertised
    <3>2. CASE v # w
      BY <1>1, <2>1, <3>1, <3>2 DEF Fits, FitsPointer
    <3>3. CASE v = w
      <4>1. ~HoldsWorkspace(f, w) /\ ~WorkspaceFree(w)
        BY <2>2, <3>3 DEF WorkspaceFree, Inv, SInv, WorkspaceExclusive
      <4>2. rec.pc # "flip"
        BY <4>1 DEF Fits, FitsKeys
      <4>3. FlipPending(w)' => FlipPending(w)
        BY <2>1, <4>2
      <4>4. FlipsDone => ~FlipPending(w)
        BY DEF FlipsDone, FlipPending
      <4>5. FlipPending(w)' => ~Active(r)
        BY <3>1, <3>3, <4>1, <4>3, <4>4 DEF Fits, FitsPointer
      <4>. QED  BY <1>1, <3>1, <3>3, <4>5 DEF Fits, FitsPointer
    <3>. QED  BY <3>2, <3>3
  <2>3. ASSUME Holding(rec, w), ReadParked(rec)
        PROVE  pointer' # w /\ (FlipPending(w)' => ~Active(r))
    <3>1. rec.pc # "flip"
      BY <2>3 DEF Holding, FlowSound, SectionSteps, ProvisionSteps
    <3>. QED  BY <2>1, <2>3, <3>1 DEF Fits, FitsPointer
  <2>4. ASSUME NEW g \in Flows, NEW v \in Workspaces, HoldsWorkspace(g, v)', ReadParked(flow'[g])
        PROVE  pointer' # v /\ (FlipPending(v)' => ~Active(row'[v]))
    <3>1. CASE g = f
      BY <1>1, <1>4, <2>3, <2>4, <3>1
    <3>2. CASE g # f
      BY <1>1, <1>4, <2>2, <2>4, <3>2
    <3>. QED  BY <3>1, <3>2
  <2>. QED  BY <2>4 DEF ParkedUnadvertised, ReadParked, Active
<1>9. PointerNeverParked'
  <2>1. pointer # None => row[pointer] # None /\ row[pointer].state \notin Parked
    BY DEF Inv, SInv, PointerNeverParked, Parked
  <2>2. pointer' \in {pointer, w, None} /\ (pointer' = w => r # None /\ r.state \notin Parked)
    BY DEF Fits, FitsPointer
  <2>3. pointer' # None => row'[pointer'] # None /\ row'[pointer'].state \notin Parked
    BY <1>1, <2>1, <2>2
  <2>. QED  BY <2>3 DEF PointerNeverParked, Parked
<1>10. ASSUME NEW v \in Workspaces PROVE Revived(v)
  <2>1. CASE v # w
    BY <1>1, <2>1 DEF Revived
  <2>2. CASE v = w
    <3>1. Provisioning(f, w) => flow'[f] # flow[f]
      BY <1>1 DEF Provisioning, InSection, Sections, Fits, FitsKeys
    <3>. QED  BY <1>1, <2>2, <3>1 DEF Revived, Fits, FitsRow
  <2>. QED  BY <2>1, <2>2
<1>11. ASSUME NEW g \in Flows PROVE MarkKept(g)
  <2>. SUFFICES ASSUME Marked(g), flow'[g].pc = flow[g].pc, ~Marked(g)'
                PROVE  \E h \in Flows : flow'[h] # flow[h] /\ AcrossKeys(g, h)
    BY DEF MarkKept
  <2>1. InSection(g) /\ flow[g].ws \in Workspaces
    BY MarkedMeans, FlowKnown
  <2>2. g # f
    BY <1>1, <2>1 DEF Fits, FitsKeys
  <2>3. flow'[g] = flow[g]
    BY <1>1, <2>2
  <2>4. flow[g].ws = w /\ r # row[w]
    BY <1>1, <2>1, <2>3 DEF Marked
  <2>5. HoldsWorkspace(f, w) \/ Provisioning(f, w)
    BY <2>4 DEF Fits, FitsRow, Unmarked
  <2>6. flow'[f] # flow[f]
    BY <1>1, <2>5 DEF HoldsWorkspace, Provisioning, InSection, Sections, Fits, FitsKeys, Inv, IInv,
                      FlowSound, SectionSteps
  <2>7. HoldsWorkspace(g, w) \/ Provisioning(g, w)
    BY <2>1, <2>4, UnderAKey
  <2>8. ~(HoldsWorkspace(f, w) /\ HoldsWorkspace(g, w)) /\ ~(Provisioning(f, w) /\ Provisioning(g, w))
    BY <2>2 DEF Provisioning, Inv, SInv, WorkspaceExclusive, RepositoryExclusive
  <2>. QED  BY <2>4, <2>5, <2>6, <2>7, <2>8 DEF AcrossKeys
<1>12. \A g \in Flows : g # f => Unlocked(g)
  BY <1>1, IdleSound DEF Unlocked
<1>. QED  BY <1>3, <1>5, <1>6, <1>7, <1>8, <1>9, <1>10, <1>11, <1>12 DEF GoodStep, Inv, SInv

(* The repair lock of actor a is not on the row.                           *)
NotRepairLocked(r, a) ==
    r # None /\ r.lock # None => ~(r.lock.owner = a /\ r.lock.reason = "repair")

(* A flow that has read a parked row works under ws:, and its workspace is *)
(* not advertised.                                                         *)
LEMMA ParkedHolder ==
  ASSUME Inv, NEW f \in Flows, InSection(f), ReadParked(flow[f])
  PROVE  HoldsWorkspace(f, flow[f].ws) /\ pointer # flow[f].ws
<1>1. flow[f].pc \notin ProvisionSteps
  BY FlowKnown DEF FlowSound, ReadParked, Parked, Completable
<1>2. HoldsWorkspace(f, flow[f].ws) /\ flow[f].ws \in Workspaces
  BY <1>1, UnderAKey, FlowKnown
<1>. QED  BY <1>2 DEF Inv, SInv, ParkedUnadvertised

(* A flow ends in its section, and may write the row.                      *)
LEMMA EndsSection ==
  ASSUME Inv, NEW f \in Flows, InSection(f),
         NEW r \in Rows \cup {None}, RowSound(r),
         row' = [row EXCEPT ![flow[f].ws] = r], flow' = [flow EXCEPT ![f] = Idle],
         disk' \in [Workspaces -> Identities], minted' \in [Workspaces -> Identities],
         pointer' \in {pointer, None},
         flow[f].nested => NotRepairLocked(r, flow[f].actor),
         r = None => row[flow[f].ws] = None \/ HoldsWorkspace(f, flow[f].ws),
         flow[f].pc \in Probes => r = row[flow[f].ws],
         Active(r) => Active(row[flow[f].ws]) \/ HoldsWorkspace(f, flow[f].ws) \/ FlipsDone,
         pointer' = flow[f].ws => r # None /\ r.state \notin Parked
  PROVE  GoodStep
<1> DEFINE w == flow[f].ws
<1>1. w \in Workspaces /\ w # None
  BY FlowKnown, NoneIsNothing
<1>2. pointer' \in Workspaces \cup {None} /\ row'[w] = r /\ flow'[f] = Idle
  BY <1>1 DEF Inv, IInv, TypeOK
<1>3. Unlocked(f)
  BY <1>2 DEF Unlocked, NotRepairLocked
<1>4. Idle.pc \notin ProvisionSteps \cup {"flip"} /\ flow[f].pc # "idle"
  BY IdleSound DEF Sections, InSection
<1>5. FitsKeys(f, w, Idle)
  BY <1>4, IdleSound DEF FitsKeys
<1>6. FitsRow(f, w, r, Idle)
  <2>1. HoldsWorkspace(f, w) \/ Provisioning(f, w)
    BY UnderAKey
  <2>2. HoldsWorkspace(f, w) /\ flow[f].pc \notin Probes => row[w] # None
    BY <1>1 DEF Inv, SInv, RowHeld
  <2>. QED  BY <2>1, <2>2, IdleSound DEF FitsRow
<1>7. FitsPointer(f, w, r, Idle)
  BY <1>1, <1>4, IdleSound DEF FitsPointer
<1>. QED  BY <1>1, <1>2, <1>3, <1>5, <1>6, <1>7, IdleSound, SectionStep DEF Fits

(* A flow goes on in its section, and may write the row.                   *)
LEMMA GoesOn ==
  ASSUME Inv, NEW f \in Flows, InSection(f),
         NEW r \in Rows \cup {None}, RowSound(r), NEW rec \in FlowRecords, FlowSound(rec),
         row' = [row EXCEPT ![flow[f].ws] = r], flow' = [flow EXCEPT ![f] = rec],
         disk' \in [Workspaces -> Identities], minted' \in [Workspaces -> Identities],
         pointer' = pointer,
         rec.ws = flow[f].ws, rec.pc \in Sections, rec.pc # flow[f].pc,
         rec.pc \in SectionSteps \/ rec.nested => HoldsWorkspace(f, flow[f].ws),
         rec.pc \in ProvisionSteps => flow[f].pc \in ProvisionSteps \/ RepoFree,
         ReadParked(rec) => ReadParked(flow[f]),
         \/ r = row[flow[f].ws] /\ (flow[f].pc \in Probes => rec.pc \in Probes)
         \/ /\ r # None /\ flow[f].pc \notin Probes
            /\ Active(r) => HoldsWorkspace(f, flow[f].ws) /\ ~ReadParked(rec)
            /\ r.state \in Parked => ReadParked(flow[f])
  PROVE  GoodStep
<1> DEFINE w == flow[f].ws
<1>1. w \in Workspaces /\ w # None
  BY FlowKnown, NoneIsNothing
<1>2. pointer' \in Workspaces \cup {None} /\ row'[w] = r /\ flow'[f] = rec /\ rec # Idle
  BY <1>1, IdleSound DEF Inv, IInv, TypeOK
<1>3. Unlocked(f)
  BY <1>2 DEF Unlocked
<1>4. rec.pc # "flip"
  BY DEF Sections, ProvisionSteps, SectionSteps
<1>5. FitsKeys(f, w, rec)
  BY <1>4 DEF FitsKeys, Holding
<1>6. HoldsWorkspace(f, w) \/ Provisioning(f, w)
  BY UnderAKey
<1>7. HoldsWorkspace(f, w) /\ flow[f].pc \notin Probes => row[w] # None
  BY <1>1 DEF Inv, SInv, RowHeld
<1>8. FitsRow(f, w, r, rec)
  BY <1>6, <1>7 DEF FitsRow, Holding
<1>9. pointer = w => r # None /\ r.state \notin Parked
  BY <1>1, ParkedHolder DEF Inv, SInv, PointerNeverParked, Parked
<1>10. ReadParked(rec) => pointer # w /\ (FlipPending(w) => ~Active(r))
  BY <1>1, ParkedHolder DEF Inv, SInv, ParkedUnadvertised
<1>11. FitsPointer(f, w, r, rec)
  BY <1>1, <1>2, <1>9, <1>10 DEF FitsPointer
<1>. QED  BY <1>1, <1>2, <1>3, <1>5, <1>8, <1>11, SectionStep DEF Fits

(* Such a step that writes no row.                                         *)
LEMMA RowKept ==
  ASSUME Inv, NEW f \in Flows, InSection(f), NEW rec \in FlowRecords, FlowSound(rec),
         row' = row, flow' = [flow EXCEPT ![f] = rec], pointer' = pointer,
         disk' \in [Workspaces -> Identities], minted' \in [Workspaces -> Identities],
         rec.ws = flow[f].ws, rec.pc \in Sections, rec.pc # flow[f].pc,
         rec.pc \in SectionSteps \/ rec.nested => HoldsWorkspace(f, flow[f].ws),
         rec.pc \in ProvisionSteps => flow[f].pc \in ProvisionSteps,
         flow[f].pc \in Probes => rec.pc \in Probes,
         rec.snap = flow[f].snap
  PROVE  GoodStep
<1> DEFINE w == flow[f].ws
<1>1. w \in Workspaces
  BY FlowKnown
<1>2. row[w] \in Rows \cup {None} /\ RowSound(row[w]) /\ row' = [row EXCEPT ![w] = row[w]]
  BY <1>1 DEF Inv, IInv, TypeOK
<1>3. ReadParked(rec) => ReadParked(flow[f])
  BY DEF ReadParked
<1> DEFINE r == row[w]
<1>4. r \in Rows \cup {None} /\ RowSound(r) /\ row' = [row EXCEPT ![flow[f].ws] = r] /\ r = row[w]
  BY <1>2
<1>. HIDE DEF r
<1>. QED  BY <1>3, <1>4, GoesOn

(* A flow of a section that is not provisioning ends without writing a row. *)
LEMMA GivesUp ==
  ASSUME Inv, NEW f \in Flows, flow[f].pc \in SectionSteps \ {"prune"},
         flow' = [flow EXCEPT ![f] = Idle], UNCHANGED <<row, minted, pointer>>,
         disk' \in [Workspaces -> Identities]
  PROVE  GoodStep
<1> DEFINE w == flow[f].ws
<1>1. /\ InSection(f) /\ ~flow[f].nested /\ minted' \in [Workspaces -> Identities]
      /\ w \in Workspaces
  BY FlowKnown DEF FlowSound, InSection, Sections, ProvisionSteps, SectionSteps
<1>2. row[w] \in Rows \cup {None} /\ RowSound(row[w]) /\ row' = [row EXCEPT ![w] = row[w]]
  BY <1>1 DEF Inv, IInv, TypeOK
<1>3. pointer' = w => row[w] # None /\ row[w].state \notin Parked
  BY <1>1, NoneIsNothing DEF Inv, SInv, PointerNeverParked, Parked
<1> DEFINE r == row[w]
<1>4. /\ r \in Rows \cup {None} /\ RowSound(r) /\ row' = [row EXCEPT ![flow[f].ws] = r] /\ r = row[w]
      /\ pointer' = w => r # None /\ r.state \notin Parked
  BY <1>2, <1>3
<1>. HIDE DEF r
<1>. QED  BY <1>1, <1>4, EndsSection

(* A flow ends with a row it derives from the one it carries.              *)
LEMMA WritesBack ==
  ASSUME Inv, NEW f \in Flows, flow[f].pc \in Snapped, NEW r \in Rows, RowSound(r),
         row' = [row EXCEPT ![flow[f].ws] = r], flow' = [flow EXCEPT ![f] = Idle],
         UNCHANGED <<disk, minted>>, pointer' \in {pointer, None},
         flow[f].nested => NotRepairLocked(r, flow[f].actor),
         Active(r) => HoldsWorkspace(f, flow[f].ws) \/ FlipsDone,
         \/ r.state = flow[f].snap.state \/ r.state \notin Parked
         \/ pointer' # flow[f].ws
  PROVE  GoodStep
<1>1. /\ InSection(f) /\ flow[f].ws \in Workspaces /\ flow[f].ws # None /\ flow[f].snap # None
      /\ disk' \in [Workspaces -> Identities] /\ minted' \in [Workspaces -> Identities]
  BY FlowKnown, NoneIsNothing
<1>2. r # None /\ flow[f].pc \notin Probes
  BY NoneIsNothing DEF Snapped
<1>3. ASSUME pointer' = flow[f].ws PROVE r.state \notin Parked
  BY <1>1, <1>3, ParkedHolder DEF ReadParked
<1>. QED  BY <1>1, <1>2, <1>3, EndsSection

(* A flow enters a section of w with the row it reads there.               *)
LEMMA EntersSection ==
  ASSUME Inv, NEW f \in Flows, flow[f] = Idle, NEW w \in Workspaces, WorkspaceFree(w),
         NEW rec \in FlowRecords, FlowSound(rec), rec.ws = w, rec.pc \in SectionSteps,
         rec.snap = row[w], row[w] # None \/ rec.pc \in Probes,
         flow' = [flow EXCEPT ![f] = rec], UNCHANGED <<row, disk, minted, pointer>>
  PROVE  GoodStep
<1>1. /\ row[w] \in Rows \cup {None} /\ RowSound(row[w]) /\ row' = [row EXCEPT ![w] = row[w]]
      /\ disk' \in [Workspaces -> Identities] /\ minted' \in [Workspaces -> Identities]
      /\ pointer' \in Workspaces \cup {None} /\ pointer' = pointer /\ w # None
  BY NoneIsNothing DEF Inv, IInv, TypeOK
<1>2. Unlocked(f)
  BY IdleSound DEF Unlocked
<1>3. rec.pc \notin ProvisionSteps \cup {"flip"} /\ ~InSection(f)
  BY IdleSound DEF SectionSteps, ProvisionSteps, InSection
<1>4. FitsKeys(f, w, rec) /\ FitsRow(f, w, row[w], rec)
  BY <1>3 DEF FitsKeys, FitsRow
<1>5. pointer = w => row[w] # None /\ row[w].state \notin Parked
  BY <1>1 DEF Inv, SInv, PointerNeverParked, Parked
<1>6. ReadParked(rec) => ~Active(row[w])
  BY DEF ReadParked, Active, Parked
<1>7. FitsPointer(f, w, row[w], rec)
  BY <1>1, <1>5, <1>6 DEF FitsPointer, ReadParked
<1>. QED  BY <1>1, <1>2, <1>4, <1>7, SectionStep DEF Fits

(* A step without an await writes the row of w, which nobody has marked.   *)
LEMMA Synchronously ==
  ASSUME Inv, NEW w \in Workspaces, NEW r \in Rows, RowSound(r), row[w] # None, Unmarked(w),
         row' = [row EXCEPT ![w] = r], UNCHANGED <<disk, minted, flow>>,
         pointer' \in {pointer, None}, ~Active(r),
         pointer' = w => r.state \notin Parked
  PROVE  GoodStep
<1>1. /\ row' \in [Workspaces -> Rows \cup {None}] /\ row'[w] = r /\ r # None
      /\ \A v \in Workspaces : v # w => row'[v] = row[v]
  BY NoneIsNothing DEF Inv, IInv, TypeOK
<1>2. IInv'
  BY <1>1 DEF Inv, IInv, TypeOK
<1>3. WorkspaceExclusive' /\ RepositoryExclusive'
  BY DEF Inv, SInv, WorkspaceExclusive, RepositoryExclusive, HoldsWorkspace
<1>4. RowHeld'
  BY <1>1 DEF Inv, SInv, RowHeld, HoldsWorkspace
<1>5. ParkedUnadvertised'
  BY <1>1, NoneIsNothing
  DEF Inv, SInv, ParkedUnadvertised, HoldsWorkspace, ReadParked, FlipPending, Active
<1>6. PointerNeverParked'
  BY <1>1 DEF Inv, SInv, PointerNeverParked, Parked, IInv, TypeOK
<1>7. \A v \in Workspaces : Revived(v)
  BY <1>1 DEF Revived
<1>8. ASSUME NEW g \in Flows, Marked(g) PROVE Marked(g)'
  <2>1. flow[g].ws \in Workspaces /\ flow[g].ws # w
    BY <1>8, MarkedMeans, FlowKnown DEF Unmarked
  <2>. QED  BY <1>1, <1>8, <2>1 DEF Marked
<1>9. \A f \in Flows : Unlocked(f)
  BY IdleSound DEF Unlocked
<1>. QED  BY <1>2, <1>3, <1>4, <1>5, <1>6, <1>7, <1>8, <1>9 DEF GoodStep, Inv, SInv, MarkKept
-----------------------------------------------------------------------------
(* The steps that write the row they carry.                                *)

(* A classification changes the state only, and only to flag it.           *)
LEMMA ReconciledSound ==
  ASSUME NEW fl \in FlowRecords, fl.snap \in Rows, RowSound(fl.snap)
  PROVE  /\ Reconciled(fl) \in Rows /\ RowSound(Reconciled(fl))
         /\ Reconciled(fl).state \in {fl.snap.state, "recovery-required"}
         /\ Reconciled(fl).lock = fl.snap.lock
<1>1. AsJudged(fl).state = fl.snap.state
  BY DEF AsJudged, Rows
<1>2. TargetState(AsJudged(fl), fl.seen, fl.actor) \in {fl.snap.state, "recovery-required"}
  BY <1>1 DEF TargetState
<1>3. /\ Reconciled(fl).state = TargetState(AsJudged(fl), fl.seen, fl.actor)
      /\ Reconciled(fl).lock = fl.snap.lock /\ Reconciled(fl).ident = fl.snap.ident
      /\ Reconciled(fl) \in Rows
  BY <1>2 DEF Reconciled, Rows, States
<1>4. RowSound(Reconciled(fl))
  BY <1>2, <1>3, NoneIsNothing DEF RowSound, Bindable
<1>. QED  BY <1>2, <1>3, <1>4

(* The finally block of a repair changes nothing but the lock.             *)
LEMMA ReleaseSound ==
  ASSUME NEW r \in Rows \cup {None}, RowSound(r), NEW fl
  PROVE  LET k == ReleaseRepairLock(r, fl) IN
         /\ k \in Rows \cup {None} /\ RowSound(k) /\ (k = None <=> r = None)
         /\ r # None => k.state = r.state
         /\ fl.nested => NotRepairLocked(k, fl.actor)
<1> DEFINE k == ReleaseRepairLock(r, fl)
<1>1. CASE k = r /\ (fl.nested => NotRepairLocked(r, fl.actor))
  BY <1>1
<1>2. CASE r # None /\ k = [r EXCEPT !.lock = None]
  <2>1. k \in Rows /\ k.state = r.state /\ k.ident = r.ident /\ k.lock = None
    BY <1>2 DEF Rows
  <2>2. k # None
    BY <2>1, NoneIsNothing
  <2>3. RowSound(k) /\ NotRepairLocked(k, fl.actor)
    BY <1>2, <2>1 DEF RowSound, Bindable, NotRepairLocked
  <2>. QED  BY <1>2, <2>1, <2>2, <2>3
<1>3. \/ k = r /\ (fl.nested => NotRepairLocked(r, fl.actor))
      \/ r # None /\ k = [r EXCEPT !.lock = None]
  BY DEF ReleaseRepairLock, NotRepairLocked
<1>. QED  BY <1>1, <1>2, <1>3

(* A flow ends with the repair lock taken off the row as it stands.        *)
LEMMA Releases ==
  ASSUME Inv, NEW f \in Flows, flow[f].pc \in {"gate", "prune"},
         row' = [row EXCEPT ![flow[f].ws] = ReleaseRepairLock(row[flow[f].ws], flow[f])],
         flow' = [flow EXCEPT ![f] = Idle], UNCHANGED <<disk, minted, pointer>>
  PROVE  GoodStep
<1> DEFINE w == flow[f].ws
           k == ReleaseRepairLock(row[w], flow[f])
<1>1. /\ InSection(f) /\ flow[f].pc \notin Probes /\ w \in Workspaces /\ w # None
      /\ disk' \in [Workspaces -> Identities] /\ minted' \in [Workspaces -> Identities]
      /\ row[w] \in Rows \cup {None} /\ RowSound(row[w])
  BY FlowKnown, NoneIsNothing
  DEF InSection, Sections, ProvisionSteps, SectionSteps, Probes, Inv, IInv, TypeOK
<1>2. /\ k \in Rows \cup {None} /\ RowSound(k) /\ (k = None <=> row[w] = None)
      /\ row[w] # None => k.state = row[w].state
      /\ flow[f].nested => NotRepairLocked(k, flow[f].actor)
  BY <1>1, ReleaseSound
<1>3. row' = [row EXCEPT ![flow[f].ws] = k]
  OBVIOUS
<1>. HIDE DEF k
<1>4. pointer' = w => k # None /\ k.state \notin Parked
  BY <1>1, <1>2 DEF Inv, SInv, PointerNeverParked, Parked
<1>5. Active(k) => Active(row[w])
  BY <1>2 DEF Active
<1>. QED  BY <1>1, <1>2, <1>3, <1>4, <1>5, EndsSection

(* reconcileWithContext.                                                   *)
LEMMA ReconcileGood ==
  ASSUME Inv, NEW f \in Flows, ReconcileWithContext(f)
  PROVE  GoodStep
<1> DEFINE fl == flow[f]
<1>1. /\ fl.pc = "classify" /\ fl.pc \in Snapped /\ ~fl.nested /\ HoldsWorkspace(f, fl.ws)
      /\ fl.pc \in SectionSteps \ {"prune"}
  BY FlowKnown DEF ReconcileWithContext, FlowSound, Snapped, Probes, Sections, ProvisionSteps,
                   SectionSteps, HoldsWorkspace
<1>2. CASE Write(fl.ws, Reconciled(fl))
  <2>1. /\ Reconciled(fl) \in Rows /\ RowSound(Reconciled(fl))
        /\ Reconciled(fl).state \in {fl.snap.state, "recovery-required"}
    BY <1>1, FlowKnown, ReconciledSound
  <2>. QED
    BY <1>1, <1>2, <2>1, WritesBack DEF ReconcileWithContext, Write, Step, Parked
<1>3. CASE UNCHANGED row
  BY <1>1, <1>3, FlowKnown, GivesUp DEF ReconcileWithContext, Step
<1>. QED  BY <1>2, <1>3 DEF ReconcileWithContext

(* The phases of a worktree's creation and removal, which write no row.    *)
LEMMA Progresses ==
  ASSUME Inv, NEW f \in Flows, NEW next \in ProvisionSteps \cup SectionSteps,
         \/ flow[f].pc \in {"add", "added", "rollback"} /\ next \in {"added", "rollback", "fail"}
         \/ flow[f].pc \in {"removing", "removed", "kept"} /\ next \in Removing
         \/ flow[f].pc = "probe1" /\ next = "probe2",
         next # flow[f].pc,
         flow' = [flow EXCEPT ![f] = [flow[f] EXCEPT !.pc = next]], UNCHANGED <<row, pointer>>,
         disk' \in [Workspaces -> Identities], minted' \in [Workspaces -> Identities]
  PROVE  GoodStep
<1> DEFINE fl  == flow[f]
           rec == [fl EXCEPT !.pc = next]
<1>1. fl \in FlowRecords /\ FlowSound(fl)
  BY FlowKnown
<1>2. /\ rec \in FlowRecords /\ rec.pc = next /\ rec.ws = fl.ws /\ rec.snap = fl.snap
      /\ rec.actor = fl.actor /\ rec.nested = fl.nested
  BY <1>1 DEF FlowRecords
<1>3. InSection(f) /\ next \in Sections /\ (fl.pc \in Probes => next \in Probes)
  BY DEF InSection, Probes, Removing, Sections, ProvisionSteps, SectionSteps
<1>4. /\ next \in ProvisionSteps => fl.pc \in ProvisionSteps
      /\ next \in SectionSteps \/ rec.nested => HoldsWorkspace(f, fl.ws)
  BY <1>2 DEF HoldsWorkspace, ProvisionSteps, SectionSteps, Removing
<1>5. FlowSound(rec)
  BY <1>1, <1>2, <1>3
  DEF FlowSound, Owned, Snapped, Probes, Sections, ProvisionSteps, SectionSteps, Removing
<1>. HIDE DEF rec
<1>. QED  BY <1>1, <1>2, <1>3, <1>4, <1>5, RowKept DEF rec

(* assertProvisionable: refused, or the provisioning row is persisted.     *)
LEMMA AssertProvisionableGood ==
  ASSUME Inv, NEW f \in Flows, AssertProvisionable(f)
  PROVE  GoodStep
<1> DEFINE fl == flow[f]
           w  == fl.ws
           r  == FreshInstance(fl.snap, fl.actor)
           next == IF Present(w) THEN "added" ELSE "add"
           rec == [fl EXCEPT !.pc = next, !.snap = r, !.created = ~Present(w)]
<1>1. /\ fl.pc = "gate" /\ InSection(f) /\ w \in Workspaces /\ fl.actor \in Actors
      /\ fl \in FlowRecords /\ FlowSound(fl) /\ fl.pc \notin Probes
      /\ disk \in [Workspaces -> Identities] /\ minted \in [Workspaces -> Identities]
      /\ UNCHANGED <<disk, minted, pointer>>
  BY FlowKnown DEF AssertProvisionable, InSection, Owned, Probes, Sections, ProvisionSteps
<1>2. CASE Write(w, ReleaseRepairLock(row[w], fl)) /\ Step(f, Idle)
  BY <1>1, <1>2, Releases DEF Write, Step
<1>3. CASE Write(w, r) /\ Step(f, rec)
  <2>1. r \in Rows /\ r.state = "provisioning" /\ r # None
    <3>1. fl.snap \in Rows \cup {None}
      BY <1>1 DEF FlowRecords
    <3>2. (IF fl.snap = None THEN 0 ELSE fl.snap.ident) \in Identities
      BY <3>1, BoundsOK DEF Rows, Identities
    <3>3. Lock(fl.actor, "provisioning") \in Locks
      BY <1>1 DEF Lock, Locks, Reasons
    <3>4. r \in Rows
      BY <3>2, <3>3 DEF FreshInstance, Rows, States
    <3>. QED  BY <3>4, NoneIsNothing DEF FreshInstance
  <2>2. RowSound(r) /\ ~Active(r) /\ r.state \notin Parked
    BY <2>1 DEF RowSound, Bindable, Active, Parked
  <2>3. next \in {"added", "add"}
    OBVIOUS
  <2>4. Present(w) \in BOOLEAN
    BY DEF Present
  <2>. HIDE DEF r, next
  <2>5. /\ rec \in FlowRecords /\ rec.pc = next /\ rec.ws = w /\ rec.snap = r
        /\ rec.actor = fl.actor /\ rec.nested = fl.nested
    BY <1>1, <2>1, <2>3, <2>4 DEF FlowRecords, ProvisionSteps
  <2>6. FlowSound(rec)
    BY <1>1, <2>1, <2>2, <2>3, <2>5
    DEF FlowSound, Owned, Snapped, Probes, Sections, ProvisionSteps, SectionSteps, Completable,
        Removing
  <2>7. ~ReadParked(rec)
    BY <2>2, <2>5 DEF ReadParked
  <2>8. /\ rec.pc \in Sections /\ rec.pc # fl.pc /\ fl.pc \in ProvisionSteps
        /\ rec.pc \in SectionSteps \/ rec.nested => HoldsWorkspace(f, w)
    BY <1>1, <2>3, <2>5 DEF Sections, ProvisionSteps, SectionSteps, HoldsWorkspace
  <2>. HIDE DEF rec
  <2>. QED  BY <1>1, <1>3, <2>1, <2>2, <2>5, <2>6, <2>7, <2>8, GoesOn DEF Write, Step
<1>. QED  BY <1>2, <1>3 DEF AssertProvisionable

(* git worktree add and its rollback touch the disk only.                  *)
LEMMA MaterializeGood ==
  ASSUME Inv, NEW f \in Flows, MaterializeWorktree(f) \/ Rollback(f)
  PROVE  GoodStep
<1> DEFINE fl == flow[f]
<1>1. /\ fl.ws \in Workspaces
      /\ disk \in [Workspaces -> Identities] /\ minted \in [Workspaces -> Identities]
  BY FlowKnown DEF MaterializeWorktree, Rollback, InSection, Sections, ProvisionSteps
<1>2. CASE MaterializeWorktree(f)
  <2>1. PICK next \in {"added", "rollback"} :
          flow' = [flow EXCEPT ![f] = [fl EXCEPT !.pc = next]]
    BY <1>2 DEF MaterializeWorktree, Step
  <2> DEFINE fresh == minted[fl.ws] + 1
  <2>2. \/ UNCHANGED <<disk, minted>>
        \/ /\ minted[fl.ws] < MaxIdentity /\ disk' = [disk EXCEPT ![fl.ws] = fresh]
           /\ minted' = [minted EXCEPT ![fl.ws] = fresh]
    BY <1>2 DEF MaterializeWorktree
  <2>3. minted[fl.ws] < MaxIdentity => fresh \in Identities
    BY <1>1, BoundsOK DEF Identities
  <2>. HIDE DEF fresh
  <2>4. disk' \in [Workspaces -> Identities] /\ minted' \in [Workspaces -> Identities]
    BY <1>1, <2>2, <2>3
  <2>. QED  BY <1>2, <2>1, <2>4, Progresses DEF MaterializeWorktree, ProvisionSteps
<1>3. CASE Rollback(f)
  <2>1. PICK left \in {0, disk[fl.ws]} : disk' = [disk EXCEPT ![fl.ws] = left]
    BY <1>3 DEF Rollback
  <2>2. disk' \in [Workspaces -> Identities]
    BY <1>1, <2>1, BoundsOK DEF Identities
  <2>. QED  BY <1>1, <1>3, <2>2, Progresses DEF Rollback, Step, ProvisionSteps
<1>. QED  BY <1>2, <1>3

(* The identity written is the one on disk, never the placeholder, and no  *)
(* flip of an earlier activation is pending.                               *)
LEMMA FinalizeActiveGood ==
  ASSUME Inv, NEW f \in Flows, FinalizeActive(f)
  PROVE  GoodStep
<1> DEFINE fl == flow[f]
           r  == Finalized(fl.snap, disk[fl.ws])
<1>1. /\ fl.pc = "added" /\ fl.pc \in Snapped /\ InSection(f) /\ fl.ws \in Workspaces
      /\ fl \in FlowRecords /\ FlowSound(fl) /\ fl.snap \in Rows
      /\ disk \in [Workspaces -> Identities] /\ minted \in [Workspaces -> Identities]
  BY FlowKnown DEF FinalizeActive, Snapped, Probes, Sections, ProvisionSteps
<1>2. CASE Present(fl.ws) /\ Write(fl.ws, r) /\ Step(f, Idle)
  <2>1. r \in Rows /\ r.state = "active" /\ r.lock = None /\ r.ident = disk[fl.ws]
    BY <1>1 DEF Finalized, Rows, States
  <2>2. RowSound(r)
    BY <1>2, <2>1 DEF RowSound, Present
  <2>3. NotRepairLocked(r, fl.actor)
    BY <2>1 DEF NotRepairLocked
  <2>. HIDE DEF r
  <2>. QED  BY <1>1, <1>2, <2>1, <2>2, <2>3, WritesBack DEF FinalizeActive, Write, Step, Parked
<1>3. CASE /\ UNCHANGED row
           /\ Step(f, [fl EXCEPT !.pc = IF fl.created THEN "rollback" ELSE "fail"])
  <2>1. PICK next \in {"rollback", "fail"} : flow' = [flow EXCEPT ![f] = [fl EXCEPT !.pc = next]]
    BY <1>3 DEF Step
  <2>. QED  BY <1>1, <1>3, <2>1, Progresses DEF FinalizeActive, ProvisionSteps
<1>. QED  BY <1>2, <1>3 DEF FinalizeActive

(* failProvisioning clears the lock.                                       *)
LEMMA FailProvisioningGood ==
  ASSUME Inv, NEW f \in Flows, FailProvisioning(f)
  PROVE  GoodStep
<1> DEFINE fl == flow[f]
<1>1. fl.pc \in Snapped /\ fl.snap \in Rows
  BY FlowKnown DEF FailProvisioning, Snapped, Probes, Sections, ProvisionSteps
<1>2. PICK target \in {"failed", "recovery-required"} :
        row' = [row EXCEPT ![fl.ws] = [fl.snap EXCEPT !.state = target, !.lock = None]]
  BY DEF FailProvisioning, Write
<1> DEFINE r == [fl.snap EXCEPT !.state = target, !.lock = None]
<1>3. r \in Rows /\ r.state = target /\ r.lock = None
  BY <1>1 DEF Rows, States
<1>4. RowSound(r) /\ NotRepairLocked(r, fl.actor) /\ r.state \notin Parked /\ ~Active(r)
  BY <1>3 DEF RowSound, Bindable, NotRepairLocked, Parked, Active
<1>. HIDE DEF r
<1>. QED  BY <1>1, <1>2, <1>3, <1>4, WritesBack DEF FailProvisioning, Step, r
-----------------------------------------------------------------------------
(* Repair and cleanup.                                                     *)

(* The facts are read: the flow keeps its row and takes the next decision. *)
LEMMA Observes ==
  ASSUME Inv, NEW f \in Flows, NEW rec \in FlowRecords,
         \/ flow[f].pc \in {"consult", "reconsult"} /\ rec.pc \in {"verdict", "recheck"}
         \/ flow[f].pc = "safety" /\ rec.pc = "probed",
         rec.ws = flow[f].ws, rec.snap = flow[f].snap, rec.actor = flow[f].actor,
         rec.nested = flow[f].nested,
         flow' = [flow EXCEPT ![f] = rec], UNCHANGED <<row, disk, minted, pointer>>
  PROVE  GoodStep
<1>1. /\ FlowSound(flow[f]) /\ InSection(f) /\ HoldsWorkspace(f, flow[f].ws)
      /\ disk' \in [Workspaces -> Identities] /\ minted' \in [Workspaces -> Identities]
  BY FlowKnown DEF InSection, Sections, SectionSteps, HoldsWorkspace
<1>2. FlowSound(rec)
  BY <1>1 DEF FlowSound, Owned, Snapped, Probes, Sections, ProvisionSteps, SectionSteps, Removing
<1>3. /\ rec.pc \in Sections /\ rec.pc # flow[f].pc /\ rec.pc \notin ProvisionSteps
      /\ flow[f].pc \notin Probes
  BY DEF Sections, ProvisionSteps, SectionSteps, Probes
<1>. QED  BY <1>1, <1>2, <1>3, RowKept

(* consultRepository and the gathering of cleanup facts.                   *)
LEMMA ConsultGood ==
  ASSUME Inv, NEW f \in Flows, ConsultRepository(f) \/ GatherCleanupFacts(f)
  PROVE  GoodStep
<1> DEFINE fl == flow[f]
<1>1. /\ fl \in FlowRecords /\ disk \in [Workspaces -> Identities] /\ fl.ws \in Workspaces
      /\ fl.pc \in SectionSteps \ {"prune"}
  BY FlowKnown
  DEF ConsultRepository, GatherCleanupFacts, InSection, Sections, ProvisionSteps, SectionSteps
<1>2. UNCHANGED <<row, disk, minted, pointer>>
  BY DEF ConsultRepository, GatherCleanupFacts
<1>3. disk[fl.ws] \in Identities
  BY <1>1
<1>4. CASE Step(f, Idle)
  BY <1>1, <1>2, <1>4, GivesUp DEF Step
<1>5. CASE \E next \in {"verdict", "recheck"} :
              fl.pc \in {"consult", "reconsult"} /\ Step(f, Facts(fl, next))
  <2>1. PICK next \in {"verdict", "recheck"} :
          fl.pc \in {"consult", "reconsult"} /\ Step(f, Facts(fl, next))
    BY <1>5
  <2> DEFINE rec == Facts(fl, next)
  <2>2. /\ rec \in FlowRecords /\ rec.pc = next /\ rec.ws = fl.ws /\ rec.snap = fl.snap
        /\ rec.actor = fl.actor /\ rec.nested = fl.nested
    BY <1>1, <1>3 DEF Facts, FlowRecords, SectionSteps
  <2>. HIDE DEF rec
  <2>. QED  BY <1>2, <2>1, <2>2, Observes DEF Step, rec
<1>6. CASE fl.pc = "safety" /\ Step(f, [Facts(fl, "probed") EXCEPT !.alive = LockLive(fl.snap.lock)])
  <2> DEFINE rec == [Facts(fl, "probed") EXCEPT !.alive = LockLive(fl.snap.lock)]
  <2>1. fl.snap \in Rows
    BY <1>6, FlowKnown DEF Snapped, Probes, Sections, SectionSteps
  <2>2. LockLive(fl.snap.lock) \in BOOLEAN
    BY <2>1 DEF LockLive, Rows, Locks
  <2>3. /\ rec \in FlowRecords /\ rec.pc = "probed" /\ rec.ws = fl.ws /\ rec.snap = fl.snap
        /\ rec.actor = fl.actor /\ rec.nested = fl.nested
    BY <1>1, <1>3, <2>2 DEF Facts, FlowRecords, SectionSteps
  <2>. HIDE DEF rec
  <2>. QED  BY <1>2, <1>6, <2>3, Observes DEF Step, rec
<1>. QED  BY <1>4, <1>5, <1>6 DEF ConsultRepository, GatherCleanupFacts

(* A repair that has its verdict or re-checks it.                          *)
LEMMA Judging ==
  ASSUME Inv, NEW f \in Flows, flow[f].pc \in {"verdict", "recheck"}
  PROVE  /\ flow[f].pc \in Snapped /\ flow[f].pc \notin Probes /\ InSection(f) /\ ~flow[f].nested
         /\ HoldsWorkspace(f, flow[f].ws) /\ flow[f].ws \in Workspaces /\ flow[f].actor \in Actors
         /\ flow[f] \in FlowRecords /\ FlowSound(flow[f])
         /\ flow[f].snap \in Rows /\ flow[f].snap # None /\ RowSound(flow[f].snap)
BY FlowKnown, NoneIsNothing
DEF FlowSound, Owned, Snapped, Probes, Sections, ProvisionSteps, SectionSteps, HoldsWorkspace,
    InSection

(* A repair that persists its classification and stops.                    *)
LEMMA RepairEndsGood ==
  ASSUME Inv, NEW f \in Flows, RepairEnds(f)
  PROVE  GoodStep
<1> DEFINE fl == flow[f]
           r  == Reconciled(fl)
<1>1. r \in Rows /\ RowSound(r) /\ r.state \in {fl.snap.state, "recovery-required"}
  BY Judging, ReconciledSound DEF RepairEnds
<1>2. r.state = fl.snap.state \/ r.state \notin Parked
  BY <1>1 DEF Parked
<1>. HIDE DEF r
<1>. QED  BY <1>1, <1>2, Judging, WritesBack DEF RepairEnds, Write, Step, r

(* The strategies that go on with a row they have just written.            *)
LEMMA StrategyGood ==
  ASSUME Inv, NEW f \in Flows, ApplyProvisioningRepair(f) \/ ApplyReleaseStaleLock(f)
  PROVE  GoodStep
<1> DEFINE fl == flow[f]
           d  == Reconciled(fl)
<1>1. /\ fl.pc = "verdict" /\ UNCHANGED <<disk, minted, pointer>>
      /\ disk' \in [Workspaces -> Identities] /\ minted' \in [Workspaces -> Identities]
  BY FlowKnown DEF ApplyProvisioningRepair, ApplyReleaseStaleLock, Offered
<1>2. d \in Rows /\ RowSound(d) /\ d.state \in {fl.snap.state, "recovery-required"}
  BY <1>1, Judging, ReconciledSound
<1>. HIDE DEF d
<1>3. ASSUME NEW l \in Locks \cup {None}, NEW rec \in FlowRecords,
             rec.pc \in {"prune", "reconsult"}, rec.ws = fl.ws, rec.actor = fl.actor,
             rec.snap = [d EXCEPT !.lock = l] \/ (rec.snap = None /\ rec.pc = "prune"),
             rec.nested => rec.pc = "prune",
             row' = [row EXCEPT ![fl.ws] = [d EXCEPT !.lock = l]],
             flow' = [flow EXCEPT ![f] = rec]
      PROVE  GoodStep
  <2> DEFINE r == [d EXCEPT !.lock = l]
  <2>1. r \in Rows /\ r.state = d.state /\ r.ident = d.ident /\ r # None
    BY <1>2, NoneIsNothing DEF Rows
  <2>2. RowSound(r)
    BY <1>2, <2>1, NoneIsNothing DEF RowSound, Bindable
  <2>. HIDE DEF r
  <2>3. rec.snap = r \/ (rec.snap = None /\ rec.pc = "prune")
    BY <1>3 DEF r
  <2>4. row' = [row EXCEPT ![fl.ws] = r]
    BY <1>3 DEF r
  <2>5. FlowSound(rec)
    BY <1>1, <1>3, <2>1, <2>2, <2>3, Judging
    DEF FlowSound, Owned, Snapped, Probes, Sections, ProvisionSteps, SectionSteps, Removing,
        RowSound
  <2>6. rec.pc \in Sections \ ProvisionSteps /\ rec.pc # fl.pc
    BY <1>1, <1>3 DEF Sections, ProvisionSteps, SectionSteps
  <2>7. r.state \in Parked => ReadParked(fl)
    BY <1>1, <1>2, <2>1, Judging DEF Parked, ReadParked
  <2>8. /\ ReadParked(rec) => ReadParked(fl)
        /\ Active(r) => ~ReadParked(rec)
    BY <2>1, <2>3, <2>7 DEF ReadParked, Active, Parked
  <2>. QED  BY <1>1, <1>3, <2>1, <2>2, <2>4, <2>5, <2>6, <2>7, <2>8, Judging, GoesOn
<1>4. CASE ApplyProvisioningRepair(f)
  <2> DEFINE l   == Lock(fl.actor, "repair")
             rec == [Flow("prune", fl.ws, fl.actor, None) EXCEPT !.nested = TRUE]
  <2>1. l \in Locks
    BY <1>1, Judging DEF Lock, Locks, Reasons
  <2>. HIDE DEF l
  <2>2. /\ rec \in FlowRecords /\ rec.pc = "prune" /\ rec.ws = fl.ws /\ rec.actor = fl.actor
        /\ rec.snap = None
    <3> DEFINE x == Flow("prune", fl.ws, fl.actor, None)
    <3>1. rec = [x EXCEPT !.nested = TRUE]
      OBVIOUS
    <3>2. /\ x \in FlowRecords /\ x.pc = "prune" /\ x.ws = fl.ws /\ x.actor = fl.actor
          /\ x.snap = None
      <4>1. None \in Rows \cup {None} /\ "prune" \in {"flip"} \cup Sections
        BY DEF Sections, SectionSteps
      <4>2. fl.actor \in Actors \cup {None} /\ fl.ws \in Workspaces
        BY <1>1, Judging
      <4>. HIDE DEF fl, rec
      <4>. QED  BY <4>1, <4>2, FlowTyped
    <3>. HIDE DEF x, rec
    <3>. QED  BY <3>1, <3>2 DEF FlowRecords
  <2>3. row' = [row EXCEPT ![fl.ws] = [d EXCEPT !.lock = l]] /\ flow' = [flow EXCEPT ![f] = rec]
    BY <1>4 DEF ApplyProvisioningRepair, Write, Step, l, d
  <2>. HIDE DEF rec
  <2>. QED  BY <1>3, <2>1, <2>2, <2>3
<1>5. CASE ApplyReleaseStaleLock(f)
  <2> DEFINE rec == [fl EXCEPT !.pc = "reconsult", !.snap = [d EXCEPT !.lock = None],
                               !.alive = FALSE]
  <2>1. [d EXCEPT !.lock = None] \in Rows
    BY <1>2 DEF Rows
  <2>2. /\ rec \in FlowRecords /\ rec.pc = "reconsult" /\ rec.ws = fl.ws /\ rec.actor = fl.actor
        /\ rec.snap = [d EXCEPT !.lock = None] /\ rec.nested = fl.nested
    BY <1>1, <2>1, Judging DEF FlowRecords, SectionSteps
  <2>3. row' = [row EXCEPT ![fl.ws] = [d EXCEPT !.lock = None]] /\ flow' = [flow EXCEPT ![f] = rec]
    BY <1>5 DEF ApplyReleaseStaleLock, Write, Step, d
  <2>. HIDE DEF rec
  <2>. QED  BY <1>1, <1>3, <2>2, <2>3, Judging
<1>. QED  BY <1>4, <1>5

(* An abandoned workspace leaves the pointer in the same turn.             *)
LEMMA AbandonGood ==
  ASSUME Inv, NEW f \in Flows, ApplyAbandon(f)
  PROVE  GoodStep
<1> DEFINE fl == flow[f]
           r  == [Reconciled(fl) EXCEPT !.state = "abandoned", !.lock = None]
<1>1. fl.pc = "verdict"
  BY DEF ApplyAbandon, Offered
<1>2. r \in Rows /\ r.state = "abandoned"
  BY <1>1, Judging, ReconciledSound DEF Rows, States
<1>3. RowSound(r)
  BY <1>2 DEF RowSound, Bindable
<1>4. pointer' \in {pointer, None} /\ pointer' # fl.ws
  BY <1>1, Judging, NoneIsNothing DEF ApplyAbandon, Unpoint
<1>. HIDE DEF r
<1>. QED  BY <1>1, <1>2, <1>3, <1>4, Judging, WritesBack DEF ApplyAbandon, Write, Step, r

(* A removal, from its safety gate on, holds ws: and carries the row it is *)
(* about to delete.                                                        *)
LEMMA CleaningUp ==
  ASSUME Inv, NEW f \in Flows, flow[f].pc \in {"safety", "probed"} \cup Removing
  PROVE  /\ flow[f].pc \in Snapped /\ flow[f].pc \notin Probes /\ InSection(f) /\ ~flow[f].nested
         /\ flow[f].pc \in SectionSteps \ {"prune"}
         /\ HoldsWorkspace(f, flow[f].ws) /\ flow[f].ws \in Workspaces /\ flow[f].actor \in Actors
         /\ flow[f] \in FlowRecords /\ FlowSound(flow[f])
         /\ flow[f].snap \in Rows /\ flow[f].snap # None /\ RowSound(flow[f].snap)
         /\ flow[f].snap.state = "cleanup-pending"
BY FlowKnown, NoneIsNothing
DEF FlowSound, Owned, Snapped, Probes, Sections, ProvisionSteps, SectionSteps, HoldsWorkspace,
    InSection, Removing

(* evaluateLiveCleanupSafety: refused, or under the cleanup lock.          *)
LEMMA SafetyGood ==
  ASSUME Inv, NEW f \in Flows, EvaluateLiveCleanupSafety(f)
  PROVE  GoodStep
<1> DEFINE fl  == flow[f]
           l   == Lock(fl.actor, "cleanup")
           r   == [fl.snap EXCEPT !.lock = l]
           rec == Flow("removing", fl.ws, fl.actor, r)
<1>1. /\ fl.pc = "probed" /\ UNCHANGED <<disk, minted, pointer>>
      /\ disk' \in [Workspaces -> Identities] /\ minted' \in [Workspaces -> Identities]
  BY FlowKnown DEF EvaluateLiveCleanupSafety
<1>2. CASE Step(f, Idle) /\ UNCHANGED row
  BY <1>1, <1>2, CleaningUp, GivesUp DEF Step
<1>3. CASE Write(fl.ws, r) /\ Step(f, rec)
  <2>1. l \in Locks
    BY <1>1, CleaningUp, LockTyped DEF Reasons
  <2>. HIDE DEF l
  <2>2. r \in Rows /\ r.state = "cleanup-pending" /\ r # None
    BY <1>1, <2>1, CleaningUp, NoneIsNothing DEF Rows
  <2>3. RowSound(r) /\ r.state \notin Parked /\ ~Active(r)
    BY <2>2 DEF RowSound, Bindable, Parked, Active
  <2>. HIDE DEF r
  <2>4. /\ rec \in FlowRecords /\ rec.pc = "removing" /\ rec.ws = fl.ws /\ rec.snap = r
        /\ rec.actor = fl.actor /\ ~rec.nested
    <3>1. /\ fl.actor \in Actors \cup {None} /\ r \in Rows \cup {None}
          /\ "removing" \in {"flip"} \cup Sections /\ fl.ws \in Workspaces
      BY <1>1, <2>2, CleaningUp DEF Sections, SectionSteps
    <3>. QED  BY <3>1, FlowTyped
  <2>5. FlowSound(rec) /\ ~ReadParked(rec)
    BY <1>1, <2>2, <2>3, <2>4, CleaningUp
    DEF FlowSound, Owned, Snapped, Probes, Sections, ProvisionSteps, SectionSteps, ReadParked
  <2>6. rec.pc \in Sections \ ProvisionSteps /\ rec.pc # fl.pc
    BY <1>1, <2>4 DEF Sections, ProvisionSteps, SectionSteps
  <2>. HIDE DEF rec
  <2>. QED  BY <1>1, <1>3, <2>2, <2>3, <2>4, <2>5, <2>6, CleaningUp, GoesOn DEF Write, Step
<1>. QED  BY <1>2, <1>3 DEF EvaluateLiveCleanupSafety

(* Steps that touch the disk at most.                                      *)
LEMMA RemovalGood ==
  ASSUME Inv, NEW f \in Flows,
         \/ RemoveManagedWorktree(f) \/ ReprobeWorktree(f) \/ CleanupFails(f)
         \/ ProbeOrphan(f)
  PROVE  GoodStep
<1> DEFINE fl == flow[f]
<1>1. /\ fl.ws \in Workspaces /\ fl.pc \in SectionSteps \ {"prune"}
      /\ disk \in [Workspaces -> Identities] /\ minted \in [Workspaces -> Identities]
      /\ UNCHANGED <<row, minted, pointer>>
  BY FlowKnown DEF RemoveManagedWorktree, ReprobeWorktree, CleanupFails, ProbeOrphan, InSection,
                   Sections, SectionSteps
<1>2. disk' \in [Workspaces -> Identities]
  BY <1>1, BoundsOK DEF RemoveManagedWorktree, ReprobeWorktree, CleanupFails, ProbeOrphan, Identities
<1>3. CASE Step(f, Idle)
  BY <1>1, <1>2, <1>3, GivesUp DEF Step
<1>4. CASE \E next \in {"removed", "kept", "leftover", "surviving", "listing"} :
              /\ fl.pc \in {"removing", "removed", "kept"} /\ next # fl.pc
              /\ Step(f, [fl EXCEPT !.pc = next])
  BY <1>1, <1>2, <1>4, Progresses DEF Step, SectionSteps, Removing
<1>5. CASE fl.pc = "probe1" /\ Step(f, [fl EXCEPT !.pc = "probe2"])
  BY <1>1, <1>2, <1>5, Progresses DEF Step, SectionSteps
<1>. QED  BY <1>3, <1>4, <1>5 DEF RemoveManagedWorktree, ReprobeWorktree, CleanupFails, ProbeOrphan

(* A refused removal gives the lock back.                                  *)
LEMMA CleanupRefusedGood ==
  ASSUME Inv, NEW f \in Flows, CleanupRefused(f)
  PROVE  GoodStep
<1> DEFINE fl == flow[f]
           r  == [fl.snap EXCEPT !.lock = None]
<1>1. fl.pc \in Removing
  BY DEF CleanupRefused, Removing
<1>2. r \in Rows /\ r.state = fl.snap.state /\ r.ident = fl.snap.ident
  BY <1>1, CleaningUp DEF Rows
<1>3. RowSound(r) /\ ~Active(r)
  BY <1>1, <1>2, CleaningUp DEF RowSound, Bindable, Active
<1>. HIDE DEF r
<1>. QED  BY <1>1, <1>2, <1>3, CleaningUp, WritesBack DEF CleanupRefused, Write, Step, r

(* The row of a removed worktree goes, and the pointer with it.            *)
LEMMA FinalizeCleanupGood ==
  ASSUME Inv, NEW f \in Flows, FinalizeCleanup(f)
  PROVE  GoodStep
<1> DEFINE fl == flow[f]
<1>1. fl.pc \in Removing
  BY DEF FinalizeCleanup, Removing
<1>2. /\ fl.ws \in Workspaces /\ fl.ws # None
      /\ disk \in [Workspaces -> Identities] /\ minted \in [Workspaces -> Identities]
      /\ row[fl.ws] \in Rows \cup {None} /\ RowSound(row[fl.ws])
  BY <1>1, CleaningUp, FlowKnown, NoneIsNothing DEF Inv, IInv, TypeOK
<1>3. /\ disk' \in [Workspaces -> Identities] /\ minted' \in [Workspaces -> Identities]
      /\ pointer' \in {pointer, None} /\ pointer' # fl.ws
  BY <1>2, BoundsOK DEF FinalizeCleanup, Unpoint, Identities
<1>4. PICK r \in {None, row[fl.ws]} : row' = [row EXCEPT ![fl.ws] = r]
  BY <1>2 DEF FinalizeCleanup, Write, Inv, IInv, TypeOK
<1>5. RowSound(r)
  BY <1>2 DEF RowSound
<1>. QED  BY <1>1, <1>2, <1>3, <1>4, <1>5, CleaningUp, EndsSection DEF FinalizeCleanup, Step
-----------------------------------------------------------------------------
(* The beginnings of the flows, and provisioning up to its first await.    *)

(* The flows that begin by reading a row.                                  *)
LEMMA BeginsGood ==
  ASSUME Inv, NEW f \in Flows, NEW w \in Workspaces,
         \/ Reconcile(f, w) \/ CleanupOneOrphan(f, w)
         \/ \E a \in Actors : Repair(f, w, a) \/ CompleteCleanup(f, w, a)
  PROVE  GoodStep
<1>1. /\ flow[f] = Idle /\ WorkspaceFree(w) /\ UNCHANGED <<row, disk, minted, pointer>>
      /\ row[w] \in Rows \cup {None} /\ RowSound(row[w]) /\ disk[w] \in Identities
  BY DEF Reconcile, CleanupOneOrphan, Repair, CompleteCleanup, ReconcileKeyFree, Inv, IInv, TypeOK
<1>2. CASE Reconcile(f, w)
  <2> DEFINE b   == LockLive(row[w].lock)
             rec == Facts([Flow("classify", w, None, row[w]) EXCEPT !.alive = b], "classify")
  <2>1. row[w] \in Rows /\ row[w] # None
    BY <1>1, <1>2 DEF Reconcile
  <2>2. b \in BOOLEAN
    BY <2>1 DEF LockLive, Rows, Locks
  <2>3. flow' = [flow EXCEPT ![f] = rec]
    BY <1>2 DEF Reconcile, Step
  <2>. HIDE DEF b
  <2>4. /\ rec \in FlowRecords /\ rec.pc = "classify" /\ rec.ws = w /\ rec.snap = row[w]
        /\ ~rec.nested
    BY <1>1, <2>1, <2>2 DEF Facts, Flow, Idle, FlowRecords, SectionSteps
  <2>5. FlowSound(rec) /\ rec.pc \in SectionSteps
    BY <1>1, <2>1, <2>4
    DEF FlowSound, Owned, Snapped, Probes, Sections, ProvisionSteps, SectionSteps, Removing
  <2>. HIDE DEF rec
  <2>. QED  BY <1>1, <2>1, <2>3, <2>4, <2>5, EntersSection
<1>3. CASE CleanupOneOrphan(f, w)
  <2> DEFINE rec == Flow("probe1", w, None, None)
  <2>1. flow' = [flow EXCEPT ![f] = rec] /\ row[w] = None
    BY <1>3 DEF CleanupOneOrphan, Step
  <2>2. /\ rec \in FlowRecords /\ rec.pc = "probe1" /\ rec.ws = w /\ rec.snap = None
        /\ ~rec.nested
    <3>1. /\ None \in Actors \cup {None} /\ None \in Rows \cup {None}
          /\ "probe1" \in {"flip"} \cup Sections
      BY DEF Sections, SectionSteps
    <3>. QED  BY <3>1, FlowTyped
  <2>3. FlowSound(rec) /\ rec.pc \in SectionSteps \cap Probes
    BY <2>2 DEF FlowSound, RowSound, Owned, Snapped, Probes, Sections, ProvisionSteps, SectionSteps,
                Removing
  <2>. HIDE DEF rec
  <2>. QED  BY <1>1, <2>1, <2>2, <2>3, EntersSection
<1>4. ASSUME NEW a \in Actors, Repair(f, w, a) PROVE GoodStep
  <2> DEFINE b   == LockLive(row[w].lock)
             rec == [Flow("consult", w, a, row[w]) EXCEPT !.alive = b]
  <2>1. row[w] \in Rows /\ row[w] # None
    BY <1>1, <1>4 DEF Repair
  <2>2. b \in BOOLEAN
    BY <2>1 DEF LockLive, Rows, Locks
  <2>3. flow' = [flow EXCEPT ![f] = rec]
    BY <1>4 DEF Repair, Step
  <2>. HIDE DEF b
  <2>4. /\ rec \in FlowRecords /\ rec.pc = "consult" /\ rec.ws = w /\ rec.snap = row[w]
        /\ rec.actor = a /\ ~rec.nested
    <3> DEFINE x == Flow("consult", w, a, row[w])
    <3>1. /\ x \in FlowRecords /\ x.pc = "consult" /\ x.ws = w /\ x.snap = row[w]
          /\ x.actor = a /\ ~x.nested
      BY <2>1, FlowTyped DEF Sections, SectionSteps
    <3>2. rec = [x EXCEPT !.alive = b]
      OBVIOUS
    <3>. HIDE DEF x, rec
    <3>. QED  BY <2>2, <3>1, <3>2 DEF FlowRecords
  <2>5. FlowSound(rec) /\ rec.pc \in SectionSteps
    BY <1>1, <2>1, <2>4
    DEF FlowSound, Owned, Snapped, Probes, Sections, ProvisionSteps, SectionSteps, Removing
  <2>. HIDE DEF rec
  <2>. QED  BY <1>1, <2>1, <2>3, <2>4, <2>5, EntersSection
<1>5. ASSUME NEW a \in Actors, CompleteCleanup(f, w, a) PROVE GoodStep
  <2> DEFINE rec == Flow("safety", w, a, row[w])
  <2>1. row[w] \in Rows /\ row[w] # None /\ row[w].state = "cleanup-pending"
    BY <1>1, <1>5 DEF CompleteCleanup
  <2>2. flow' = [flow EXCEPT ![f] = rec]
    BY <1>5 DEF CompleteCleanup, Step
  <2>3. /\ rec \in FlowRecords /\ rec.pc = "safety" /\ rec.ws = w /\ rec.snap = row[w]
        /\ rec.actor = a /\ ~rec.nested
    BY <2>1, FlowTyped DEF Sections, SectionSteps
  <2>4. FlowSound(rec) /\ rec.pc \in SectionSteps
    BY <1>1, <2>1, <2>3
    DEF FlowSound, Owned, Snapped, Probes, Sections, ProvisionSteps, SectionSteps, Removing
  <2>. HIDE DEF rec
  <2>. QED  BY <1>1, <2>1, <2>2, <2>3, <2>4, EntersSection
<1>. QED  BY <1>2, <1>3, <1>4, <1>5

(* A flagged row is neither bindable nor locked.                           *)
LEMMA DriftedSound ==
  ASSUME NEW r \in Rows
  PROVE  /\ Drifted(r) \in Rows /\ RowSound(Drifted(r)) /\ Drifted(r) # None
         /\ Drifted(r).state = "recovery-required" /\ Drifted(r).lock = None
         /\ Drifted(r).state \notin Parked /\ ~Active(Drifted(r))
<1>1. /\ Drifted(r) \in Rows /\ Drifted(r).state = "recovery-required"
      /\ Drifted(r).lock = None
  BY DEF Drifted, Rows, States
<1>. QED  BY <1>1, NoneIsNothing DEF RowSound, Bindable, Parked, Active

(* provisionLocked, called by a request or by a repair, under repo:.       *)
LEMMA ProvisionLockedGood ==
  ASSUME Inv, NEW f \in Flows, NEW fl \in FlowRecords,
         fl.ws \in Workspaces, fl.actor \in Actors, RepoFree,
         \/ flow[f] = Idle /\ ~fl.nested
         \/ flow[f] = fl /\ fl.pc = "prune",
         ProvisionLocked(f, fl), UNCHANGED <<disk, minted, pointer>>
  PROVE  GoodStep
<1> DEFINE w == fl.ws
           r == row[w]
<1>1. /\ r \in Rows \cup {None} /\ RowSound(r) /\ row = [row EXCEPT ![w] = r] /\ w # None
      /\ disk' \in [Workspaces -> Identities] /\ minted' \in [Workspaces -> Identities]
      /\ pointer' \in Workspaces \cup {None} /\ pointer' = pointer
  BY NoneIsNothing DEF Inv, IInv, TypeOK
<1>2. pointer = w => r # None /\ r.state \notin Parked
  BY <1>1 DEF Inv, SInv, PointerNeverParked, Parked
<1>3. flow[f].nested => flow[f] = fl
  BY IdleSound
<1>4. fl.nested => HoldsWorkspace(f, w) /\ r # None
  <2>1. fl.nested => HoldsWorkspace(f, w) /\ flow[f].pc \notin Probes
    BY DEF HoldsWorkspace, Probes
  <2>. QED  BY <2>1 DEF Inv, SInv, RowHeld
<1>5. CASE ReuseDrifted(w, r, fl.nested) /\ Write(w, Drifted(r)) /\ Step(f, Idle)
  <2>1. r \in Rows /\ r # None /\ r.state \in Resumable \cup Completable
    BY <1>1, <1>5 DEF ReuseDrifted
  <2> DEFINE d == Drifted(r)
  <2>2. d \in Rows /\ RowSound(d) /\ d # None /\ d.state \notin Parked /\ d.lock = None /\ ~Active(d)
    BY <2>1, DriftedSound
  <2>. HIDE DEF d
  <2>3. row' = [row EXCEPT ![w] = d] /\ row'[w] = d /\ flow' = [flow EXCEPT ![f] = Idle]
    BY <1>5 DEF Write, Step, d, Inv, IInv, TypeOK
  <2>4. Unlocked(f)
    BY <1>3, <2>2, <2>3 DEF Unlocked
  <2>5. Unmarked(w)
    BY <2>1, MarkedMeans DEF Unmarked, RepoFree, Resumable, Completable
  <2>6. FitsKeys(f, w, Idle)
    BY IdleSound DEF FitsKeys, InSection, Sections
  <2>7. FitsRow(f, w, d, Idle) /\ FitsPointer(f, w, d, Idle)
    BY <1>1, <2>1, <2>2, <2>5, IdleSound DEF FitsRow, FitsPointer
  <2>. QED  BY <1>1, <2>2, <2>3, <2>4, <2>6, <2>7, IdleSound, SectionStep DEF Fits
<1>6. CASE fl.nested /\ Write(w, ReleaseRepairLock(r, fl)) /\ Step(f, Idle)
  <2>1. flow[f] = fl /\ flow[f].pc = "prune"
    BY <1>6
  <2>. QED  BY <1>6, <2>1, Releases DEF Write, Step
<1>7. CASE /\ ~ReuseDrifted(w, r, fl.nested) /\ ~ReuseAsIs(w, r)
           /\ Step(f, [fl EXCEPT !.pc = "gate", !.snap = r]) /\ UNCHANGED row
  <2> DEFINE rec == [fl EXCEPT !.pc = "gate", !.snap = r]
  <2>1. /\ rec \in FlowRecords /\ rec.pc = "gate" /\ rec.snap = r /\ rec.ws = w
        /\ rec.actor = fl.actor /\ rec.nested = fl.nested
    BY <1>1 DEF FlowRecords, ProvisionSteps
  <2>2. flow' = [flow EXCEPT ![f] = rec] /\ row' = [row EXCEPT ![w] = r]
    BY <1>1, <1>7 DEF Step
  <2>3. r # None => r.state \in Completable
    BY <1>7 DEF ReuseDrifted, ReuseAsIs
  <2>. HIDE DEF rec
  <2>4. FlowSound(rec)
    BY <1>1, <2>1, <2>3
    DEF FlowSound, Owned, Snapped, Probes, Sections, ProvisionSteps, SectionSteps, Removing
  <2>5. Unlocked(f)
    BY <2>1, <2>2, IdleSound DEF Unlocked, Inv, IInv, TypeOK
  <2>6. ~ReadParked(rec)
    BY <2>1, <2>3 DEF ReadParked, Parked, Completable
  <2>7. flow[f].pc # "gate"
    BY IdleSound
  <2>8. FitsKeys(f, w, rec)
    BY <1>4, <2>1, <2>7 DEF FitsKeys, Holding, SectionSteps
  <2>9. FitsRow(f, w, r, rec) /\ FitsPointer(f, w, r, rec)
    BY <1>1, <1>2, <1>4, <2>1, <2>6 DEF FitsRow, FitsPointer, Holding, SectionSteps
  <2>. QED  BY <1>1, <2>1, <2>2, <2>4, <2>5, <2>8, <2>9, SectionStep DEF Fits
<1>. QED  BY <1>5, <1>6, <1>7 DEF ProvisionLocked

(* A requested provision.                                                  *)
LEMMA ProvisionGood ==
  ASSUME Inv, NEW f \in Flows, NEW w \in Workspaces, NEW a \in Actors, Provision(f, w, a)
  PROVE  GoodStep
<1> DEFINE fl == Flow("gate", w, a, None)
<1>1. None \in Rows \cup {None} /\ a \in Actors \cup {None} /\ "gate" \in {"flip"} \cup Sections
  BY DEF Sections, ProvisionSteps
<1>2. fl \in FlowRecords /\ fl.ws = w /\ fl.actor = a /\ ~fl.nested
  BY <1>1, FlowTyped
<1>3. /\ flow[f] = Idle /\ RepoFree /\ ProvisionLocked(f, fl)
      /\ UNCHANGED <<disk, minted, pointer>>
  BY DEF Provision
<1>. HIDE DEF fl
<1>. QED  BY <1>2, <1>3, ProvisionLockedGood

(* A repair's provision, or its end before that.                           *)
LEMMA NestedGood ==
  ASSUME Inv, NEW f \in Flows, NestedProvision(f) \/ PruneFails(f)
  PROVE  GoodStep
<1>1. /\ flow[f].pc = "prune" /\ flow[f] \in FlowRecords
      /\ flow[f].ws \in Workspaces /\ flow[f].actor \in Actors
  BY FlowKnown DEF NestedProvision, PruneFails, InSection, Owned, Probes, Sections, SectionSteps
<1>2. CASE NestedProvision(f)
  BY <1>1, <1>2, ProvisionLockedGood DEF NestedProvision
<1>3. CASE PruneFails(f)
  BY <1>1, <1>3, Releases DEF PruneFails, Write, Step
<1>. QED  BY <1>2, <1>3
-----------------------------------------------------------------------------
(* Lifecycle and environment.                                              *)

(* Where ws: is free, a mark can only be that of a plain provision.        *)
LEMMA FreeMark ==
  ASSUME Inv, NEW w \in Workspaces, WorkspaceFree(w) \/ row[w].state # "cleanup-pending",
         row[w].state # "provisioning"
  PROVE  Unmarked(w)
<1>1. ASSUME NEW g \in Flows, Marked(g), flow[g].ws = w PROVE FALSE
  <2>1. row[w].state = "cleanup-pending" /\ flow[g].pc \in SectionSteps
    BY <1>1, MarkedMeans
  <2>. QED  BY <1>1, <2>1 DEF WorkspaceFree, HoldsWorkspace
<1>. QED  BY <1>1 DEF Unmarked

(* activateLocked: active with its identity proven, or flagged.            *)
LEMMA SetActiveGood ==
  ASSUME Inv, NEW f \in Flows, NEW w \in Workspaces, NEW a \in Actors, NEW b \in BOOLEAN,
         SetActive(f, w, a, b)
  PROVE  GoodStep
<1>1. /\ flow[f] = Idle /\ row[w] \in Rows /\ row[w] # None /\ WorkspaceFree(w) /\ w # None
      /\ disk' \in [Workspaces -> Identities] /\ minted' \in [Workspaces -> Identities]
      /\ pointer' \in Workspaces \cup {None} /\ UNCHANGED <<disk, minted, pointer>>
  BY NoneIsNothing DEF SetActive, AssertActivatable, Inv, IInv, TypeOK
<1>2. Unmarked(w)
  BY <1>1, FreeMark DEF SetActive, AssertActivatable, Activatable, Resumable
<1>3. Unlocked(f)
  BY <1>1, IdleSound DEF Unlocked
<1>4. ASSUME NEW r \in Rows, RowSound(r), r.state \notin Parked,
             NEW rec \in FlowRecords, FlowSound(rec),
             rec = Idle \/ (rec.pc = "flip" /\ rec.ws = w /\ ~rec.nested),
             Write(w, r), Step(f, rec)
      PROVE  GoodStep
  <2>1. r # None
    BY NoneIsNothing
  <2>2. ~Holding(rec, w) /\ rec.pc \notin ProvisionSteps
    BY <1>4, IdleSound DEF Holding, Sections, ProvisionSteps, SectionSteps
  <2>3. FitsKeys(f, w, rec)
    BY <1>1, <1>4, <2>2, IdleSound DEF FitsKeys, InSection
  <2>4. FitsRow(f, w, r, rec) /\ FitsPointer(f, w, r, rec)
    BY <1>1, <1>2, <1>4, <2>1, <2>2 DEF FitsRow, FitsPointer
  <2>. QED  BY <1>1, <1>3, <1>4, <2>3, <2>4, SectionStep DEF Write, Step, Fits
<1>5. CASE Proven(w, row[w])
  <2> DEFINE l   == ActivationLock(row[w], a, b)
             r   == [row[w] EXCEPT !.state = "active", !.lock = l]
             rec == Flow("flip", w, None, None)
  <2>1. l \in Locks \cup {None}
    <3>1. Lock(a, "activation") \in Locks
      BY LockTyped DEF Reasons
    <3>. QED  BY <1>1, <3>1 DEF ActivationLock, LockLive, Rows
  <2>2. Write(w, r) /\ Step(f, rec)
    BY <1>5 DEF SetActive
  <2>. HIDE DEF l
  <2>3. r \in Rows /\ r.state = "active" /\ r.ident = row[w].ident
    BY <1>1, <2>1 DEF Rows, States
  <2>4. RowSound(r) /\ r.state \notin Parked
    BY <1>5, <2>3 DEF RowSound, Proven, Present, Parked
  <2>. HIDE DEF r
  <2>5. None \in Rows \cup {None} /\ None \in Actors \cup {None} /\ "flip" \in {"flip"} \cup Sections
    OBVIOUS
  <2>6. rec \in FlowRecords /\ rec.pc = "flip" /\ rec.ws = w /\ rec.snap = None /\ ~rec.nested
    BY <2>5, FlowTyped
  <2>. HIDE DEF rec
  <2>7. FlowSound(rec)
    BY <2>6 DEF FlowSound, RowSound, Owned, Snapped, Probes, Sections, ProvisionSteps, SectionSteps,
                Removing
  <2>. QED  BY <1>4, <2>2, <2>3, <2>4, <2>6, <2>7
<1>6. CASE ~Proven(w, row[w])
  <2>1. Write(w, Drifted(row[w])) /\ Step(f, Idle)
    BY <1>6 DEF SetActive
  <2>. QED  BY <1>1, <1>4, <2>1, DriftedSound, IdleSound
<1>. QED  BY <1>5, <1>6

(* The pointer flip re-reads the row.                                      *)
LEMMA FlipGood ==
  ASSUME Inv, NEW f \in Flows, FlipPointer(f)
  PROVE  GoodStep
<1> DEFINE w == flow[f].ws
           r == row[w]
<1>1. w \in Workspaces /\ ~flow[f].nested /\ flow[f].pc = "flip" /\ ~InSection(f) /\ w # None
  BY NoneIsNothing
  DEF FlipPointer, Inv, IInv, FlowSound, ProvisionSteps, SectionSteps, Sections, InSection
<1>2. /\ r \in Rows \cup {None} /\ RowSound(r) /\ row' = [row EXCEPT ![w] = r]
      /\ disk' \in [Workspaces -> Identities] /\ minted' \in [Workspaces -> Identities]
      /\ pointer' \in Workspaces \cup {None}
      /\ pointer' = IF r # None /\ r.state = "active" THEN w ELSE pointer
  BY <1>1 DEF FlipPointer, Inv, IInv, TypeOK
<1>3. FitsKeys(f, w, Idle) /\ FitsRow(f, w, r, Idle)
  BY <1>1, IdleSound DEF FitsKeys, FitsRow, Sections
<1>4. pointer = w => r # None /\ r.state \notin Parked
  BY <1>1 DEF Inv, SInv, PointerNeverParked, Parked
<1>5. FitsPointer(f, w, r, Idle)
  BY <1>1, <1>2, <1>4, IdleSound DEF FitsPointer, FlipPending, Active, Parked
<1>. HIDE DEF r
<1>6. Unlocked(f)
  BY <1>1 DEF Unlocked
<1>. QED  BY <1>1, <1>2, <1>3, <1>5, <1>6, IdleSound, SectionStep DEF FlipPointer, Step, Fits

(* The synchronous transitions under ws:.                                  *)
LEMMA TransitionsGood ==
  ASSUME Inv, NEW w \in Workspaces,
         RequestCleanup(w) \/ \E a \in Actors : Pause(w, a) \/ PrepareHandoff(w, a)
  PROVE  GoodStep
<1>1. /\ row[w] \in Rows /\ row[w] # None /\ RowSound(row[w]) /\ row[w].state \in States
      /\ WorkspaceFree(w) /\ UNCHANGED <<disk, minted, flow>>
  BY DEF RequestCleanup, Pause, PrepareHandoff, Inv, IInv, TypeOK, Rows
<1>2. row[w].state # "provisioning"
  BY <1>1
  DEF RequestCleanup, Pause, PrepareHandoff, CleanupEligible, Legal, LegalTransitions, States
<1>3. Unmarked(w)
  BY <1>1, <1>2, FreeMark
<1>4. CASE RequestCleanup(w)
  <2> DEFINE r == [row[w] EXCEPT !.state = "cleanup-pending"]
  <2>1. r \in Rows /\ r.state = "cleanup-pending"
    BY <1>1 DEF Rows, States
  <2>2. /\ RowSound(r) /\ r.state \notin Parked /\ ~Active(r)
        /\ row' = [row EXCEPT ![w] = r] /\ pointer' = pointer
    BY <1>4, <2>1 DEF RequestCleanup, Write, RowSound, Bindable, Parked, Active
  <2>. HIDE DEF r
  <2>. QED  BY <1>1, <1>3, <2>1, <2>2, Synchronously
<1>5. ASSUME NEW a \in Actors, Pause(w, a) PROVE GoodStep
  <2> DEFINE r == [row[w] EXCEPT !.state = "paused", !.lock = None]
  <2>1. r \in Rows /\ r.state = "paused"
    BY <1>1 DEF Rows, States
  <2>2. /\ RowSound(r) /\ ~Active(r) /\ row' = [row EXCEPT ![w] = r]
        /\ pointer' \in {pointer, None} /\ pointer' # w
    BY <1>5, <2>1, NoneIsNothing DEF Pause, Write, Unpoint, RowSound, Bindable, Active
  <2>. HIDE DEF r
  <2>. QED  BY <1>1, <1>3, <2>1, <2>2, Synchronously
<1>6. ASSUME NEW a \in Actors, PrepareHandoff(w, a) PROVE GoodStep
  <2>1. CASE Proven(w, row[w])
    <3> DEFINE r == [row[w] EXCEPT !.state = "handoff-ready", !.lock = None]
    <3>1. r \in Rows /\ r.state = "handoff-ready" /\ r.ident = row[w].ident
      BY <1>1 DEF Rows, States
    <3>2. /\ RowSound(r) /\ r.state \notin Parked /\ ~Active(r)
          /\ row' = [row EXCEPT ![w] = r] /\ pointer' = pointer
      BY <1>6, <2>1, <3>1 DEF PrepareHandoff, Write, RowSound, Proven, Present, Parked, Active
    <3>. HIDE DEF r
    <3>. QED  BY <1>1, <1>3, <3>1, <3>2, Synchronously
  <2>2. CASE ~Proven(w, row[w])
    <3>1. row' = [row EXCEPT ![w] = Drifted(row[w])] /\ pointer' = pointer
      BY <1>6, <2>2 DEF PrepareHandoff, Write
    <3>. QED  BY <1>1, <1>3, <3>1, DriftedSound, Synchronously
  <2>. QED  BY <2>1, <2>2
<1>. QED  BY <1>4, <1>5, <1>6

(* The disk and the pointer move, rows and flows do not.                   *)
LEMMA Unwritten ==
  ASSUME Inv, UNCHANGED <<row, flow>>, pointer' \in {pointer, None},
         disk' \in [Workspaces -> Identities], minted' \in [Workspaces -> Identities]
  PROVE  GoodStep
<1>1. IInv'
  BY DEF Inv, IInv, TypeOK
<1>2. WorkspaceExclusive' /\ RepositoryExclusive' /\ RowHeld'
  BY DEF Inv, SInv, WorkspaceExclusive, RepositoryExclusive, RowHeld, HoldsWorkspace
<1>3. ParkedUnadvertised' /\ PointerNeverParked'
  BY NoneIsNothing DEF Inv, SInv, ParkedUnadvertised, PointerNeverParked, HoldsWorkspace, ReadParked,
                       FlipPending, Active
<1>4. \A f \in Flows : Unlocked(f) /\ MarkKept(f)
  BY IdleSound DEF Unlocked, MarkKept, Marked
<1>5. \A w \in Workspaces : Revived(w)
  BY DEF Revived
<1>. QED  BY <1>1, <1>2, <1>3, <1>4, <1>5 DEF GoodStep, Inv, SInv

(* getActive flags a bindable row without a key.                           *)
LEMMA GetActiveGood ==
  ASSUME Inv, GetActive \/ ClearActive
  PROVE  GoodStep
<1>1. /\ pointer' = None /\ UNCHANGED <<disk, minted, flow>> /\ pointer \in Workspaces
      /\ disk' \in [Workspaces -> Identities] /\ minted' \in [Workspaces -> Identities]
  BY DEF GetActive, ClearActive, Inv, IInv, TypeOK
<1>2. CASE UNCHANGED row
  BY <1>1, <1>2, Unwritten
<1>3. CASE /\ row[pointer] # None /\ Bindable(row[pointer])
           /\ Write(pointer, Drifted(row[pointer]))
  <2> DEFINE w == pointer
             d == Drifted(row[w])
  <2>1. row[w] \in Rows
    BY <1>1, <1>3 DEF Inv, IInv, TypeOK
  <2>2. d \in Rows /\ RowSound(d) /\ ~Active(d)
    BY <2>1, DriftedSound
  <2>3. Unmarked(w)
    BY <1>1, <1>3, FreeMark DEF Bindable
  <2>4. row' = [row EXCEPT ![w] = d] /\ pointer' # w /\ row[w] # None
    BY <1>1, <1>3, NoneIsNothing DEF Write
  <2> HIDE DEF d
  <2>. QED  BY <1>1, <2>2, <2>3, <2>4, Synchronously
<1>. QED  BY <1>2, <1>3 DEF GetActive, ClearActive

(* An expired lock is the same lock.                                       *)
LEMMA ExpiredSound ==
  ASSUME NEW r \in Rows \cup {None}
  PROVE  /\ Expired(r) \in Rows \cup {None} /\ (Expired(r) = None <=> r = None)
         /\ r # None => /\ Expired(r).state = r.state /\ Expired(r).ident = r.ident
                        /\ (Expired(r).lock = None <=> r.lock = None)
                        /\ r.lock # None => /\ Expired(r).lock.owner = r.lock.owner
                                            /\ Expired(r).lock.reason = r.lock.reason
<1>1. CASE r = None \/ r.lock = None
  BY <1>1 DEF Expired
<1>2. CASE r # None /\ r.lock # None
  <2> DEFINE l == [r.lock EXCEPT !.live = FALSE]
  <2>1. r \in Rows /\ r.lock \in Locks
    BY <1>2 DEF Rows
  <2>2. /\ l \in Locks /\ l # None /\ l.owner = r.lock.owner /\ l.reason = r.lock.reason
    <3>1. l \in Locks /\ l.owner = r.lock.owner /\ l.reason = r.lock.reason
      BY <2>1 DEF Locks
    <3>. QED  BY <3>1, NoneIsNothing
  <2>3. Expired(r) = [r EXCEPT !.lock = l]
    BY <1>2 DEF Expired
  <2>. HIDE DEF l
  <2>4. /\ Expired(r) \in Rows /\ Expired(r).state = r.state /\ Expired(r).ident = r.ident
        /\ Expired(r).lock = l
    BY <2>1, <2>2, <2>3 DEF Rows
  <2>. QED  BY <1>2, <2>2, <2>4, NoneIsNothing
<1>. QED  BY <1>1, <1>2

(* Time expires the lock in the store and in every copy of it.             *)
LEMMA ExpireGood ==
  ASSUME Inv, NEW w \in Workspaces, ExpireLock(w)
  PROVE  GoodStep
<1>1. /\ UNCHANGED <<disk, minted, pointer>> /\ row[w] \in Rows /\ LockLive(row[w].lock)
      /\ row' \in [Workspaces -> Rows \cup {None}] /\ row'[w] = Expired(row[w])
      /\ \A v \in Workspaces : v # w => row'[v] = row[v]
  BY ExpiredSound DEF ExpireLock, Write, Inv, IInv, TypeOK
<1>2. /\ row'[w] # None /\ row[w] # None /\ row'[w].state = row[w].state /\ RowSound(row'[w])
      /\ row'[w].lock = None <=> row[w].lock = None
      /\ row[w].lock # None => /\ row'[w].lock.owner = row[w].lock.owner
                               /\ row'[w].lock.reason = row[w].lock.reason
  BY <1>1, ExpiredSound, NoneIsNothing DEF Inv, IInv, RowSound, Bindable
<1>3. ASSUME NEW g \in Flows
      PROVE  /\ flow'[g] \in FlowRecords /\ FlowSound(flow'[g])
             /\ flow'[g].pc = flow[g].pc /\ flow'[g].ws = flow[g].ws
             /\ flow'[g].nested = flow[g].nested /\ flow'[g].actor = flow[g].actor
             /\ ReadParked(flow'[g]) <=> ReadParked(flow[g])
  <2> DEFINE fl == flow[g]
             x  == Expired(fl.snap)
  <2>1. fl \in FlowRecords /\ FlowSound(fl) /\ fl.snap \in Rows \cup {None}
    BY FlowKnown DEF FlowRecords
  <2>2. /\ x \in Rows \cup {None} /\ (x = None <=> fl.snap = None)
        /\ fl.snap # None => x.state = fl.snap.state /\ x.ident = fl.snap.ident
    BY <2>1, ExpiredSound
  <2>3. flow'[g] = IF fl.ws = w THEN [fl EXCEPT !.snap = x] ELSE fl
    BY DEF ExpireLock
  <2>. HIDE DEF x
  <2>4. CASE fl.ws # w
    BY <2>1, <2>3, <2>4
  <2>5. CASE fl.ws = w
    <3>1. /\ flow'[g] \in FlowRecords /\ flow'[g].pc = fl.pc /\ flow'[g].ws = fl.ws
          /\ flow'[g].actor = fl.actor /\ flow'[g].nested = fl.nested /\ flow'[g].snap = x
      BY <2>1, <2>2, <2>3, <2>5 DEF FlowRecords
    <3>2. RowSound(x)
      BY <2>1, <2>2 DEF RowSound, FlowSound, Bindable
    <3>3. fl.pc \in {"safety", "probed"} \cup Removing => fl.snap # None
      BY <2>1 DEF FlowSound, Snapped, Probes, Sections, ProvisionSteps, SectionSteps, Removing
    <3>4. FlowSound(flow'[g])
      BY <2>1, <2>2, <3>1, <3>2, <3>3 DEF FlowSound
    <3>5. ReadParked(flow'[g]) <=> ReadParked(fl)
      BY <2>2, <3>1 DEF ReadParked
    <3>. QED  BY <3>1, <3>4, <3>5
  <2>. QED  BY <2>4, <2>5
<1>4. flow' \in [Flows -> FlowRecords]
  BY <1>3 DEF ExpireLock
<1>5. IInv'
  BY <1>1, <1>2, <1>3, <1>4 DEF Inv, IInv, TypeOK
<1>6. \A v \in Workspaces : /\ row'[v] = None <=> row[v] = None
                            /\ row[v] # None => row'[v].state = row[v].state
  BY <1>1, <1>2
<1>7. WorkspaceExclusive' /\ RepositoryExclusive' /\ RowHeld'
  BY <1>3, <1>6 DEF Inv, SInv, WorkspaceExclusive, RepositoryExclusive, RowHeld, HoldsWorkspace
<1>8. PointerNeverParked'
  BY <1>1, <1>6 DEF Inv, SInv, PointerNeverParked, IInv, TypeOK
<1>9. ParkedUnadvertised'
  <2>1. \A g \in Flows, v \in Workspaces :
            /\ HoldsWorkspace(g, v)' <=> HoldsWorkspace(g, v)
            /\ FlipPending(v)' <=> FlipPending(v)
            /\ Active(row'[v]) <=> Active(row[v])
    BY <1>3, <1>6 DEF HoldsWorkspace, FlipPending, Active
  <2>2. ASSUME NEW g \in Flows, NEW v \in Workspaces, HoldsWorkspace(g, v)', ReadParked(flow'[g])
        PROVE  pointer' # v /\ (FlipPending(v)' => ~Active(row'[v]))
    BY <1>1, <1>3, <2>1, <2>2 DEF Inv, SInv, ParkedUnadvertised
  <2>. QED  BY <2>2 DEF ParkedUnadvertised, ReadParked, Active
<1>10. \A v \in Workspaces : Revived(v)
  BY <1>6 DEF Revived
<1>11. ASSUME NEW g \in Flows PROVE Marked(g) => Marked(g)'
  <2>. SUFFICES ASSUME Marked(g) PROVE Marked(g)'
    OBVIOUS
  <2>1. flow[g].ws \in Workspaces
    BY MarkedMeans, FlowKnown
  <2>2. CASE flow[g].ws # w
    BY <1>1, <1>3, <2>1, <2>2 DEF Marked
  <2>3. CASE flow[g].ws = w
    BY <1>2, <1>3, <2>3 DEF Marked
  <2>. QED  BY <2>2, <2>3
<1>12. \A f \in Flows : Unlocked(f)
  BY <1>3, IdleSound DEF Unlocked
<1>. QED  BY <1>5, <1>7, <1>8, <1>9, <1>10, <1>11, <1>12 DEF GoodStep, Inv, SInv, MarkKept

(* Another program changes a worktree.                                     *)
LEMMA DisturbGood ==
  ASSUME Inv, NEW w \in Workspaces, DisturbWorktree(w)
  PROVE  GoodStep
<1> DEFINE fresh == minted[w] + 1
<1>1. /\ disk \in [Workspaces -> Identities] /\ minted \in [Workspaces -> Identities]
      /\ 0 \in Identities
  BY BoundsOK DEF Inv, IInv, TypeOK, Identities
<1>2. minted[w] < MaxIdentity => fresh \in Identities
  BY <1>1, BoundsOK DEF Identities
<1>3. \/ disk' = [disk EXCEPT ![w] = 0] /\ UNCHANGED minted
      \/ /\ minted[w] < MaxIdentity /\ disk' = [disk EXCEPT ![w] = fresh]
         /\ minted' = [minted EXCEPT ![w] = fresh]
  BY DEF DisturbWorktree
<1>. HIDE DEF fresh
<1>4. disk' \in [Workspaces -> Identities] /\ minted' \in [Workspaces -> Identities]
  BY <1>1, <1>2, <1>3
<1>. QED  BY <1>4, Unwritten DEF DisturbWorktree

(* A crash ends every flow and nothing else.                               *)
LEMMA CrashGood ==
  ASSUME Inv, Crash
  PROVE  GoodStep
<1>1. flow' \in [Flows -> FlowRecords] /\ \A f \in Flows : flow'[f] = Idle
  BY IdleSound DEF Crash
<1>2. IInv'
  BY <1>1, IdleSound DEF Crash, Inv, IInv, TypeOK
<1>3. \A f \in Flows : flow'[f].pc \notin Sections /\ \A w : ~HoldsWorkspace(f, w)'
  BY <1>1, IdleSound DEF HoldsWorkspace, Holding
<1>4. SInv'
  BY <1>3 DEF Crash, Inv, SInv, WorkspaceExclusive, RepositoryExclusive, RowHeld, ParkedUnadvertised,
              PointerNeverParked, Sections
<1>5. \A w \in Workspaces : Revived(w)
  BY DEF Crash, Revived
<1>6. \A f \in Flows : MarkKept(f)
  BY <1>3, MarkedMeans DEF MarkKept, InSection
<1>. QED  BY <1>2, <1>4, <1>5, <1>6 DEF GoodStep, Inv
-----------------------------------------------------------------------------
(* The theorems.                                                           *)

(* The invariant holds of an empty store.                                  *)
LEMMA InitInv == Init => Inv
<1>. SUFFICES ASSUME Init PROVE Inv
  OBVIOUS
<1>1. TypeOK
  BY BoundsOK, IdleSound DEF Init, TypeOK, Identities
<1>2. IInv
  BY <1>1, IdleSound DEF Init, IInv, RowSound
<1>3. \A f \in Flows : flow[f].pc \notin Sections /\ \A w : ~HoldsWorkspace(f, w)
  BY IdleSound DEF Init, HoldsWorkspace, Holding
<1>4. SInv
  BY <1>3 DEF Init, SInv, WorkspaceExclusive, RepositoryExclusive, RowHeld, ParkedUnadvertised,
              PointerNeverParked, Sections
<1>. QED  BY <1>2, <1>4 DEF Inv

(* Every step keeps the invariant.                                         *)
LEMMA NextGood ==
  ASSUME Inv, Next
  PROVE  GoodStep
<1>1. ASSUME NEW f \in Flows, Request(f) PROVE GoodStep
  BY <1>1, BeginsGood, ProvisionGood, SetActiveGood DEF Request
<1>2. ASSUME NEW f \in Flows, Continue(f) PROVE GoodStep
  <2>1. CASE \/ ReconcileWithContext(f) \/ AssertProvisionable(f) \/ MaterializeWorktree(f)
             \/ FinalizeActive(f) \/ Rollback(f) \/ FailProvisioning(f) \/ FlipPointer(f)
    BY <2>1, ReconcileGood, AssertProvisionableGood, MaterializeGood, FinalizeActiveGood,
       FailProvisioningGood, FlipGood
  <2>2. CASE \/ ConsultRepository(f) \/ RepairEnds(f) \/ ApplyProvisioningRepair(f)
             \/ ApplyReleaseStaleLock(f) \/ ApplyAbandon(f)
    BY <2>2, ConsultGood, RepairEndsGood, StrategyGood, AbandonGood
  <2>3. CASE \/ GatherCleanupFacts(f) \/ EvaluateLiveCleanupSafety(f)
             \/ RemoveManagedWorktree(f) \/ ReprobeWorktree(f) \/ CleanupRefused(f)
             \/ FinalizeCleanup(f) \/ CleanupFails(f) \/ ProbeOrphan(f)
    BY <2>3, ConsultGood, SafetyGood, RemovalGood, CleanupRefusedGood, FinalizeCleanupGood
  <2>. QED  BY <1>2, <2>1, <2>2, <2>3 DEF Continue
<1>3. ASSUME NEW f \in Flows, NestedProvision(f) \/ PruneFails(f) PROVE GoodStep
  BY <1>3, NestedGood
<1>4. CASE Synchronous
  BY <1>4, TransitionsGood, GetActiveGood DEF Synchronous
<1>5. CASE Environment
  BY <1>5, ExpireGood, DisturbGood, CrashGood DEF Environment
<1>. QED  BY <1>1, <1>2, <1>3, <1>4, <1>5 DEF Next

(* And so does a stuttering step.                                          *)
LEMMA StutterInv == Inv /\ UNCHANGED vars => Inv'
<1>. SUFFICES ASSUME Inv, UNCHANGED vars PROVE Inv'
  OBVIOUS
<1>1. disk' \in [Workspaces -> Identities] /\ minted' \in [Workspaces -> Identities]
  BY DEF Inv, IInv, TypeOK, vars
<1>. QED  BY <1>1, Unwritten DEF vars, GoodStep

(* The invariant of the module, for any number of workspaces, actors and   *)
(* flows of the five services, under the keys they take.                   *)
THEOREM InductiveInvariant == Spec => []Inv
<1>1. Inv /\ [Next]_vars => Inv'
  BY NextGood, StutterInv DEF GoodStep
<1>. QED  BY InitInv, <1>1, PTL DEF Spec

(* Every row, pointer and flow record stays in its domain, for any         *)
(* interleaving of the five services, other programs and crashes.          *)
THEOREM TypeCorrect == Spec => []TypeOK
<1>1. Inv => TypeOK
  BY DEF Inv, IInv
<1>. QED  BY <1>1, InductiveInvariant, PTL

(* A row that can be bound to a surface carries a real gitdir identity     *)
(* (freshInstance, finalizeActive, repair).                                *)
THEOREM PlaceholderTheorem == Spec => []PlaceholderNeverBindable
<1>1. Inv => PlaceholderNeverBindable
  BY DEF Inv, IInv, RowSound, PlaceholderNeverBindable
<1>. QED  BY <1>1, InductiveInvariant, PTL

(* No repair leaves its own repair lock behind (the finally block of       *)
(* executeRepairAndFinalize), whatever provisions beside it.               *)
THEOREM RepairUnlocksTheorem == Spec => RepairUnlocks
<1> DEFINE A == Crash \/ \A f \in Flows :
                  flow[f].nested /\ flow'[f] = Idle =>
                      LET r == row'[flow[f].ws] IN
                      r # None /\ r.lock # None =>
                          ~(r.lock.owner = flow[f].actor /\ r.lock.reason = "repair")
<1>1. Inv /\ [Next]_vars => [A]_vars
  BY NextGood DEF GoodStep, Unlocked
<1>2. Spec => [][A]_vars
  BY <1>1, InductiveInvariant, PTL DEF Spec
<1>. QED  BY <1>2 DEF RepairUnlocks

(* The active pointer never names a workspace that is paused, abandoned or *)
(* deleted, although it is flipped after the section that activated the    *)
(* workspace, and although a provision may write the row beside a flow     *)
(* that has read it as parked (setActiveImpl, pause, finalizeActive).      *)
THEOREM PointerTheorem == Spec => []PointerNeverParked
<1>1. Inv => PointerNeverParked
  BY DEF Inv, SInv
<1>. QED  BY <1>1, InductiveInvariant, PTL

(* A flow that is adding or removing a worktree loses its mark on the row  *)
(* only to a flow of the other keys: none that shares ws: or repo: with    *)
(* it, and no request that does not await, writes a row it has read before *)
(* the mark (the advisory locks of provision and cleanup).                 *)
THEOREM MarkTheorem == Spec => MarkLostOnlyAcrossKeys
<1> DEFINE A == \A f \in Flows :
                  Marked(f) /\ flow'[f].pc = flow[f].pc /\ ~Marked(f)' =>
                      \E g \in Flows : flow'[g] # flow[g] /\ AcrossKeys(f, g)
<1>1. Inv /\ [Next]_vars => [A]_vars
  BY NextGood DEF GoodStep, MarkKept
<1>2. Spec => [][A]_vars
  BY <1>1, InductiveInvariant, PTL DEF Spec
<1>. QED  BY <1>2 DEF MarkLostOnlyAcrossKeys

(* A workspace whose row cleanup has deleted comes back as a fresh         *)
(* provisioning, or by a provision in flight: no reconcile, repair or      *)
(* cleanup writes back the row it read before the deletion.                *)
THEOREM RevivalTheorem == Spec => OnlyProvisionRevives
<1> DEFINE A == \A w \in Workspaces :
                  row[w] = None /\ row'[w] # None =>
                      \/ row'[w].state = "provisioning"
                      \/ \E f \in Flows : Provisioning(f, w) /\ flow'[f] # flow[f]
<1>1. Inv /\ [Next]_vars => [A]_vars
  BY NextGood DEF GoodStep, Revived
<1>2. Spec => [][A]_vars
  BY <1>1, InductiveInvariant, PTL DEF Spec
<1>. QED  BY <1>2 DEF OnlyProvisionRevives
=============================================================================
