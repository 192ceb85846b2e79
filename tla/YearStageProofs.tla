-------------------------- MODULE YearStageProofs --------------------------
(***************************************************************************)
(* For any set of captures, number of shards, targets and interruptions:   *)
(* the variables keep their types, the canonical index is honest and, once *)
(* a promotion is over, complete; acquisition never touches canonical      *)
(* files; and readers see an atomic catalog.                               *)
(***************************************************************************)
EXTENDS YearStage, SequenceTheorems, TLAPS

(* Steps in which the process holds an open, unpromoted stage. *)
Holding == {"seed", "copying", "inventory", "discover", "acquire", "checkpoint",
            "prepare", "commit"}
Indexed == {"discover", "acquire", "checkpoint", "prepare", "commit"}

(* What the process knows agrees with the disk. *)
ProcessInv ==
    /\ pc # "idle" => run \in [mode : Modes, target : Targets, binding : Bindings]
    /\ pc \in Holding => /\ work # None /\ state = work /\ dir
                         /\ work.warcs = canon /\ work.index = canonIndex
    /\ pc \in {"inventory"} \cup Indexed => work.initialized
    /\ pc = "hash" => dir /\ stage = Empty /\ stageIndex = NoIndex /\ work = None
    /\ ready # None => pc \in {"idle", "rmtree"} \cup PromotionSteps
    /\ pc \in PromotionSteps => ready # None
    /\ ~dir => stage = Empty /\ stageIndex = NoIndex /\ work = None /\ ready = None

(* A staged shard of an update extends its baseline, and from the          *)
(* inventory on the stage holds all of the baseline, because the           *)
(* checkpointed lengths cover it.                                          *)
Extends(w, b) == \A s \in Shards : IsPrefix(w.warcs[s], b[s])
Covered(w) == \A s \in Shards : Len(w.warcs[s]) <= w.durable[s]

StageInv ==
    /\ linked \subseteq Present(stage)
    /\ work # None /\ ~work.reset =>
          \A s \in Shards : stage[s] # <<>> => IsPrefix(work.warcs[s], stage[s])
    /\ work # None /\ ~work.reset /\ work.initialized => Covered(work)
    /\ pc \in Indexed /\ ~work.reset => Extends(work, stage)
    /\ pc \in Indexed => stageIndex # Partial /\ Honest(stageIndex, stage)
    /\ pc = "commit" /\ stageIndex = NoIndex => Present(stage) = {}
    /\ pc \in {"acquire", "checkpoint"} /\ todo # {} =>
          \A s \in linked : ~IsTail(stage, run.target, s)

(* The canonical bytes once the pending promotion is complete. *)
Final(s) == IF s \in ready.warcs THEN ready.bytes[s]
            ELSE IF ready.reset THEN <<>> ELSE canon[s]

(* A promotion on disk leads to honest files. *)
ManifestInv ==
    ready # None =>
        /\ Honest(ready.index, [s \in Shards |-> Final(s)])
        /\ ready.delete \cap ready.warcs = {}
        /\ ready.reset /\ ready.index = NoIndex => ready.warcs = {}
        /\ ~ready.reset => /\ ready.delete = {}
                           /\ \A s \in ready.warcs : IsPrefix(canon[s], ready.bytes[s])
        /\ ready.reset /\ ready.index # NoIndex /\ stageIndex = NoIndex =>
              \A s \in ready.warcs : stage[s] = <<>>

(* How far the promotion has come. *)
PromotionInv ==
    /\ pc \in {"index", "delete", "rmtree"} /\ ready # None =>
          \A s \in ready.warcs : Promoted(s)
    /\ pc = "warcs" /\ ready.reset =>
          canonIndex = NoIndex \/ (stageIndex = NoIndex /\ ready.index # NoIndex)
    /\ pc = "index" => ready.index # NoIndex
    /\ pc = "delete" /\ ready.reset => canonIndex = ready.index

IInv == TypeOK /\ ProcessInv /\ StageInv /\ ManifestInv /\ PromotionInv /\ IndexHonest

----------------------------------------------------------------------------
(* IsPrefix is a partial order with least element <<>>, and appending      *)
(* keeps every prefix.                                                     *)
LEMMA PrefixPointwise ==
    ASSUME NEW S, NEW p \in Seq(S), NEW q \in Seq(S)
    PROVE  IsPrefix(p, q) <=> Len(p) <= Len(q) /\ \A i \in 1..Len(p) : p[i] = q[i]
  BY DEF IsPrefix

LEMMA PrefixReflexive ==
    ASSUME NEW S, NEW p \in Seq(S) PROVE IsPrefix(p, p)
  BY PrefixPointwise

LEMMA PrefixTransitive ==
    ASSUME NEW S, NEW p \in Seq(S), NEW q \in Seq(S), NEW r \in Seq(S),
           IsPrefix(p, q), IsPrefix(q, r)
    PROVE  IsPrefix(p, r)
  BY PrefixPointwise

LEMMA EmptyPrefix ==
    ASSUME NEW S, NEW p \in Seq(S)
    PROVE  IsPrefix(<<>>, p) /\ (IsPrefix(p, <<>>) => p = <<>>)
<1> DEFINE none == <<>>
<1>1. none \in Seq(S) /\ Len(none) = 0
  BY EmptySeq
<1>2. p # none => Len(p) > 0
  BY EmptySeq, LenProperties
<1> HIDE DEF none
<1>3. IsPrefix(none, p)
  <2>1. Len(none) <= Len(p) /\ \A i \in 1..Len(none) : none[i] = p[i]
    BY <1>1, LenProperties
  <2>2. QED
    BY <1>1, <2>1, PrefixPointwise, Zenon
<1>4. IsPrefix(p, none) => p = none
  <2>1. IsPrefix(p, none) => Len(p) <= Len(none)
    BY <1>1, PrefixPointwise, Zenon
  <2>2. QED
    BY <1>1, <1>2, <2>1, LenProperties
<1>5. QED
  BY <1>3, <1>4 DEF none

LEMMA AppendPrefix ==
    ASSUME NEW S, NEW p \in Seq(S), NEW e \in S
    PROVE  Append(p, e) \in Seq(S) /\ Append(p, e) # <<>> /\ IsPrefix(p, Append(p, e))
<1> DEFINE q == Append(p, e)
<1>1. q \in Seq(S) /\ Len(q) = Len(p) + 1 /\ (\A i \in 1..Len(p) : q[i] = p[i])
  BY AppendProperties
<1>2. q # <<>>
  BY AppendProperties
<1> HIDE DEF q
<1>3. IsPrefix(p, q)
  BY <1>1, PrefixPointwise, LenProperties
<1>4. QED
  BY <1>1, <1>2, <1>3 DEF q

----------------------------------------------------------------------------
USE DEF Modes, PromotionSteps, Steps, Holding, Indexed

LEMMA EmptyBytes == Empty \in Bytes
  BY EmptySeq DEF Empty, Bytes

LEMMA InitInv == ASSUME Init PROVE IInv
<1> PICK b \in [Shards -> {<<>>} \cup {<<c>> : c \in Captures}] :
        canon = b /\ canonIndex \in {NoIndex, Scan(b)}
  BY DEF Init
<1>1. b \in Bytes
  <2> DEFINE start == {<<>>} \cup {<<c>> : c \in Captures}
  <2>1. \A x \in start : x \in Seq(Captures)
    <3>1. \A c \in Captures : <<c>> \in Seq(Captures)
      OBVIOUS
    <3>2. <<>> \in Seq(Captures)
      BY EmptySeq
    <3>3. QED
      BY <3>1, <3>2, Zenon
  <2>2. b \in [Shards -> start]
    OBVIOUS
  <2> HIDE DEF start
  <2>3. QED
    BY <2>1, <2>2 DEF Bytes
<1>2. TypeOK
  <2>1. canonIndex \in Bytes \cup {NoIndex}
    BY <1>1 DEF Scan
  <2>2. Empty \in Bytes /\ crashes \in 0..MaxCrashes
    BY EmptyBytes, BoundsAssumption DEF Init
  <2>3. QED
    BY <1>1, <2>1, <2>2 DEF Init, TypeOK, Runs
<1>3. ProcessInv
  BY DEF Init, ProcessInv
<1>4. StageInv
  BY DEF Init, StageInv
<1>5. ManifestInv
  BY DEF Init, ManifestInv
<1>6. PromotionInv
  BY DEF Init, PromotionInv
<1>7. IndexHonest
  BY <1>1, PrefixReflexive DEF IndexHonest, Honest, Scan, Bytes
<1>8. QED
  BY <1>2, <1>3, <1>4, <1>5, <1>6, <1>7 DEF IInv

LEMMA SizesType ==
    ASSUME NEW b \in Bytes
    PROVE  Sizes(b) \in [Shards -> Nat]
<1>1. \A s \in Shards : b[s] \in Seq(Captures)
  BY DEF Bytes
<1>2. \A s \in Shards : Len(b[s]) \in Nat
  BY <1>1, LenProperties
<1>3. QED
  BY <1>2 DEF Sizes

(* Updating a work state changes nothing but the field it names. *)
LEMMA CheckpointedState ==
    ASSUME NEW w \in WorkStates, NEW d \in [Shards -> Nat]
    PROVE  LET v == Checkpointed(w, d)
           IN  /\ v \in WorkStates /\ v # None
               /\ v.warcs = w.warcs /\ v.index = w.index /\ v.reset = w.reset
               /\ v.durable = d /\ v.initialized = w.initialized
  BY NoneAssumption DEF WorkStates, Checkpointed

LEMMA InitializedState ==
    ASSUME NEW w \in WorkStates
    PROVE  LET v == Initialized(w)
           IN  /\ v \in WorkStates /\ v # None
               /\ v.warcs = w.warcs /\ v.index = w.index /\ v.reset = w.reset
               /\ v.durable = w.durable /\ v.initialized
  BY NoneAssumption DEF WorkStates, Initialized

LEMMA HoldingState ==
    ASSUME TypeOK, ProcessInv, pc \in Holding
    PROVE  /\ state \in WorkStates /\ work = state
           /\ state.warcs \in Bytes /\ state.durable \in [Shards -> Nat]
<1>1. state \in WorkStates /\ work = state
  BY DEF TypeOK, ProcessInv
<1>2. QED
  BY <1>1 DEF WorkStates

(* Taking the lock. *)
LEMMA StartInv ==
    ASSUME IInv, NEW mode \in Modes, NEW t \in Targets, NEW b \in Bindings,
           Start(mode, t, b)
    PROVE  IInv'
<1> USE DEF IInv, Start, disk, canonical, stageFiles, memory
<1>1. TypeOK'
  BY DEF TypeOK, ProcessInv, Runs, Bytes
<1>2. ProcessInv'
  BY DEF ProcessInv, TypeOK
<1>3. StageInv'
  BY DEF StageInv, ProcessInv, Present, IsTail, Honest
<1>4. ManifestInv'
  BY DEF ManifestInv, ProcessInv, Honest, Final
<1>5. PromotionInv'
  BY DEF PromotionInv, ProcessInv, Promoted, Staged
<1>6. IndexHonest'
  BY DEF IndexHonest, Honest
<1>7. QED
  BY <1>1, <1>2, <1>3, <1>4, <1>5, <1>6

LEMMA FreshType ==
    ASSUME TypeOK, run.binding \in Bindings
    PROVE  FreshState(run) \in WorkStates /\ FreshState(run) # None
<1>1. [s \in Shards |-> 0] \in [Shards -> Nat]
  OBVIOUS
<1>2. FreshState(run) \in WorkStates
  BY <1>1 DEF TypeOK, FreshState, WorkStates
<1>3. QED
  BY <1>2, NoneAssumption

(* Opening or refusing a stage changes no file but work.json. *)
LEMMA OpeningInv ==
    ASSUME IInv, OpenReset \/ OpenResume \/ OpenRefused \/ OpenFresh
    PROVE  IInv'
<1> USE DEF IInv, OpenReset, OpenResume, OpenRefused, OpenFresh, Forget, Resumable, NoRun,
            disk, canonical, stageFiles, memory
<1>1. TypeOK'
  BY DEF TypeOK, ProcessInv, Runs
<1>2. ProcessInv'
  BY DEF ProcessInv, TypeOK
<1>3. StageInv'
  BY DEF StageInv, ProcessInv, Present, IsTail, Honest
<1>4. ManifestInv'
  BY DEF ManifestInv, ProcessInv, Honest, Final
<1>5. PromotionInv'
  BY DEF PromotionInv, ProcessInv, Promoted, Staged
<1>6. IndexHonest'
  BY DEF IndexHonest, Honest
<1>7. QED
  BY <1>1, <1>2, <1>3, <1>4, <1>5, <1>6

LEMMA SaveFreshInv == ASSUME IInv, SaveFresh PROVE IInv'
<1> USE DEF IInv, SaveFresh, disk, canonical, stageFiles, memory
<1>0. run.binding \in Bindings
  BY DEF ProcessInv
<1>1. TypeOK'
  BY <1>0, FreshType DEF TypeOK
<1>2. ProcessInv'
  <2>1. work' # None /\ state' = work' /\ work'.warcs = canon /\ work'.index = canonIndex
    BY <1>0, FreshType DEF FreshState
  <2>2. QED
    BY <2>1 DEF ProcessInv, TypeOK
<1>3. StageInv'
  BY <1>0, FreshType DEF StageInv, ProcessInv, Empty, FreshState
<1>4. ManifestInv'
  BY DEF ManifestInv, ProcessInv
<1>5. PromotionInv'
  BY DEF PromotionInv, ProcessInv
<1>6. IndexHonest'
  BY DEF IndexHonest, Honest
<1>7. QED
  BY <1>1, <1>2, <1>3, <1>4, <1>5, <1>6

LEMMA SeedShardInv ==
    ASSUME IInv, NEW s \in Shards, SeedShard(s)
    PROVE  IInv'
<1> USE DEF IInv, SeedShard, disk, canonical, stageFiles, memory
<1>1. TypeOK'
  BY DEF TypeOK, ProcessInv, Runs, Bytes
<1>2. ProcessInv'
  BY DEF ProcessInv, TypeOK
<1>3. StageInv'
  BY PrefixReflexive DEF StageInv, ProcessInv, TypeOK, Bytes, Present
<1>4. ManifestInv'
  BY DEF ManifestInv, ProcessInv, Honest, Final
<1>5. PromotionInv'
  BY DEF PromotionInv, ProcessInv, Promoted, Staged
<1>6. IndexHonest'
  BY DEF IndexHonest, Honest
<1>7. QED
  BY <1>1, <1>2, <1>3, <1>4, <1>5, <1>6

LEMMA SeedIndexInv ==
    ASSUME IInv, SeedIndex \/ SeedIndexCopied \/ SeedRefused
    PROVE  IInv'
<1> USE DEF IInv, SeedIndex, SeedIndexCopied, SeedRefused, Forget, NoRun, disk, canonical, stageFiles, memory
<1>1. TypeOK'
  BY DEF TypeOK, ProcessInv, Runs, Bytes
<1>2. ProcessInv'
  BY DEF ProcessInv, TypeOK
<1>3. StageInv'
  BY DEF StageInv, ProcessInv, Present, IsTail, Honest
<1>4. ManifestInv'
  BY DEF ManifestInv, ProcessInv, Honest, Final
<1>5. PromotionInv'
  BY DEF PromotionInv, ProcessInv, Promoted, Staged
<1>6. IndexHonest'
  BY DEF IndexHonest, Honest
<1>7. QED
  BY <1>1, <1>2, <1>3, <1>4, <1>5, <1>6

(* The stage is initialized once its durable lengths cover the baseline. *)
LEMMA SeedDoneInv ==
    ASSUME IInv, SeedDone
    PROVE  IInv'
<1> USE DEF IInv, SeedDone, disk, canonical, stageFiles, memory
<1>0. /\ state' \in WorkStates /\ state' # None /\ work' = state'
      /\ state'.warcs = state.warcs /\ state'.index = state.index
      /\ state'.reset = state.reset /\ state'.initialized
      /\ ~state.reset => state'.durable = Sizes(state.warcs)
  <2>1. state \in WorkStates /\ state.warcs \in Bytes
    BY HoldingState
  <2>2. CASE state.reset
    BY <2>1, <2>2, InitializedState
  <2>3. CASE ~state.reset
    <3>1. Sizes(state.warcs) \in [Shards -> Nat]
      BY <2>1, SizesType
    <3>2. QED
      BY <2>1, <2>3, <3>1, CheckpointedState, InitializedState
  <2>4. QED
    BY <2>2, <2>3
<1>1. TypeOK'
  BY <1>0 DEF TypeOK
<1>2. ProcessInv'
  BY <1>0, HoldingState DEF ProcessInv, TypeOK
<1>3. StageInv'
  <2>1. ~state.reset => Covered(work')
    <3>1. \A s \in Shards : Len(state.warcs[s]) \in Nat
      BY HoldingState, LenProperties DEF Bytes
    <3>2. QED
      BY <1>0, <3>1 DEF Covered, Sizes
  <2>2. QED
    BY <1>0, <2>1, HoldingState DEF StageInv, ProcessInv
<1>4. ManifestInv'
  BY DEF ManifestInv, ProcessInv, Honest, Final
<1>5. PromotionInv'
  BY DEF PromotionInv, ProcessInv, Promoted, Staged
<1>6. IndexHonest'
  BY DEF IndexHonest, Honest
<1>7. QED
  BY <1>1, <1>2, <1>3, <1>4, <1>5, <1>6

LEMMA InventoryRefusedInv ==
    ASSUME IInv, InventoryRefused
    PROVE  IInv'
<1> USE DEF IInv, InventoryRefused, Forget, NoRun, disk, canonical, stageFiles, memory
<1>1. TypeOK'
  BY DEF TypeOK, ProcessInv, Runs, Bytes
<1>2. ProcessInv'
  BY DEF ProcessInv, TypeOK
<1>3. StageInv'
  BY DEF StageInv, ProcessInv, Present, IsTail, Honest
<1>4. ManifestInv'
  BY DEF ManifestInv, ProcessInv, Honest, Final
<1>5. PromotionInv'
  BY DEF PromotionInv, ProcessInv, Promoted, Staged
<1>6. IndexHonest'
  BY DEF IndexHonest, Honest
<1>7. QED
  BY <1>1, <1>2, <1>3, <1>4, <1>5, <1>6

(* Only a stage that covers its checkpoints is inventoried. *)
LEMMA InventoryInv ==
    ASSUME IInv, Inventory
    PROVE  IInv'
<1> USE DEF IInv, Inventory, disk, canonical, stageFiles, memory
<1>0. /\ state' \in WorkStates /\ state' # None /\ work' = state'
      /\ state'.warcs = state.warcs /\ state'.index = state.index
      /\ state'.reset = state.reset /\ state'.durable = Sizes(stage)
      /\ state'.initialized = state.initialized
  BY HoldingState, CheckpointedState, SizesType DEF TypeOK
<1>1. TypeOK'
  BY <1>0 DEF TypeOK, Scan
<1>2. ProcessInv'
  BY <1>0, HoldingState DEF ProcessInv, TypeOK
<1>3. StageInv'
  <2>1. ~state.reset => Extends(work', stage)
    <3> SUFFICES ASSUME ~state.reset, NEW s \in Shards
                 PROVE  IsPrefix(state.warcs[s], stage[s])
      BY <1>0 DEF Extends
    <3>1. /\ state.warcs[s] \in Seq(Captures) /\ stage[s] \in Seq(Captures)
          /\ Len(state.warcs[s]) <= state.durable[s] /\ state.durable[s] <= Len(stage[s])
          /\ state.durable[s] \in Nat
      <4>1. state.warcs[s] \in Seq(Captures) /\ stage[s] \in Seq(Captures)
            /\ state.durable[s] \in Nat /\ Len(stage[s]) \in Nat
        BY HoldingState, LenProperties DEF TypeOK, Bytes
      <4>2. Covered(state)
        BY HoldingState DEF StageInv, ProcessInv
      <4>3. ~(Len(stage[s]) < state.durable[s])
        BY DEF Shortened
      <4>4. QED
        BY <4>1, <4>2, <4>3 DEF Covered
    <3>2. CASE stage[s] # <<>>
      BY <3>2, HoldingState DEF StageInv, ProcessInv
    <3>3. CASE stage[s] = <<>>
      <4>1. state.warcs[s] = <<>>
        BY <3>1, <3>3, EmptySeq, LenProperties
      <4>2. QED
        BY <3>1, <3>3, <4>1, PrefixReflexive
    <3>4. QED
      BY <3>2, <3>3
  <2>2. ~state.reset => Covered(work')
    <3>1. ~state.reset => \A s \in Shards : Len(state.warcs[s]) <= Len(stage[s])
      BY <1>0, <2>1, HoldingState, PrefixPointwise DEF Extends, TypeOK, Bytes
    <3>2. QED
      BY <1>0, <3>1 DEF Covered, Sizes
  <2>3. stageIndex' # Partial /\ Honest(stageIndex', stage)
    BY PrefixReflexive, MarkersAssumption DEF Honest, Scan, TypeOK, Bytes
  <2>4. QED
    BY <1>0, <2>1, <2>2, <2>3, HoldingState DEF StageInv, ProcessInv
<1>4. ManifestInv'
  BY DEF ManifestInv, ProcessInv, Honest, Final
<1>5. PromotionInv'
  BY DEF PromotionInv, ProcessInv, Promoted, Staged
<1>6. IndexHonest'
  BY DEF IndexHonest, Honest
<1>7. QED
  BY <1>1, <1>2, <1>3, <1>4, <1>5, <1>6

(* Before anything is appended, the tail is a private file. *)
LEMMA DiscoverInv ==
    ASSUME IInv, NEW selected \in SUBSET Captures, Discover(selected)
    PROVE  IInv'
<1> USE DEF IInv, Discover, disk, canonical, stageFiles, memory
<1>1. TypeOK'
  BY DEF TypeOK, DetachTail
<1>2. ProcessInv'
  BY DEF ProcessInv, TypeOK
<1>3. StageInv'
  BY DEF StageInv, ProcessInv, Honest, DetachTail
<1>4. ManifestInv'
  BY DEF ManifestInv, ProcessInv, Honest, Final
<1>5. PromotionInv'
  BY DEF PromotionInv, ProcessInv, Promoted, Staged
<1>6. IndexHonest'
  BY DEF IndexHonest, Honest
<1>7. QED
  BY <1>1, <1>2, <1>3, <1>4, <1>5, <1>6

(* Appending reaches no canonical file and keeps every prefix. *)
LEMMA AcquireInv ==
    ASSUME IInv, NEW c \in Captures, NEW s \in Shards, Acquire(c, s)
    PROVE  IInv'
<1> USE DEF IInv, Acquire, disk, canonical, stageFiles, memory
<1>0. /\ s \notin linked /\ canon' = canon
      /\ stage' = [stage EXCEPT ![s] = Append(stage[s], c)]
      /\ stage[s] \in Seq(Captures)
  BY DEF StageInv, Append1, TypeOK, Bytes
<1>a. /\ stage'[s] \in Seq(Captures) /\ stage'[s] # <<>>
      /\ IsPrefix(stage[s], stage'[s])
      /\ \A r \in Shards : r # s => stage'[r] = stage[r]
  <2> DEFINE longer == Append(stage[s], c)
  <2>1. longer \in Seq(Captures) /\ longer # <<>> /\ IsPrefix(stage[s], longer)
    BY <1>0, AppendPrefix
  <2>2. stage' = [stage EXCEPT ![s] = longer]
    BY <1>0
  <2> HIDE DEF longer
  <2>3. QED
    BY <2>1, <2>2 DEF TypeOK, Bytes
<1>b. stage' \in Bytes
  BY <1>0, <1>a DEF TypeOK, Bytes
<1>1. TypeOK'
  BY <1>0, <1>b DEF TypeOK
<1>2. ProcessInv'
  BY <1>0 DEF ProcessInv, TypeOK
<1>3. StageInv'
  <2>1. linked \subseteq Present(stage')
    BY <1>a DEF StageInv, Present
  <2>2. \A b \in Bytes, r \in Shards : IsPrefix(b[r], stage[r]) => IsPrefix(b[r], stage'[r])
    BY <1>a, PrefixTransitive DEF TypeOK, Bytes
  <2>3. ~work.reset => Extends(work, stage')
    BY <2>2, HoldingState DEF StageInv, ProcessInv, Extends
  <2>4. stageIndex # Partial /\ Honest(stageIndex, stage')
    BY <2>2 DEF StageInv, Honest, TypeOK
  <2>5. \A r \in linked : ~IsTail(stage', run.target, r)
    <3> SUFFICES ASSUME NEW r \in linked, IsTail(stage', run.target, r) PROVE FALSE
      OBVIOUS
    <3>1. r # s /\ r \in Shards /\ r \in Present(stage) /\ stage'[r] = stage[r]
      BY <1>0, <1>a DEF StageInv, TypeOK
    <3>2. Present(stage) \subseteq Present(stage')
      BY <1>a DEF Present
    <3>3. ~(r < r)
      BY <3>1, BoundsAssumption DEF Shards
    <3>4. IsTail(stage, run.target, r)
      BY <3>1, <3>2, <3>3 DEF IsTail
    <3>5. QED
      BY <3>1, <3>4 DEF StageInv
  <2>6. QED
    BY <1>0, <2>1, <2>3, <2>4, <2>5 DEF StageInv, ProcessInv, Extends
<1>4. ManifestInv'
  BY <1>0 DEF ManifestInv, ProcessInv, Honest, Final
<1>5. PromotionInv'
  BY <1>0 DEF PromotionInv, ProcessInv, Promoted, Staged
<1>6. IndexHonest'
  BY <1>0 DEF IndexHonest, Honest
<1>7. QED
  BY <1>1, <1>2, <1>3, <1>4, <1>5, <1>6

LEMMA CheckpointInv ==
    ASSUME IInv, Checkpoint
    PROVE  IInv'
<1> USE DEF IInv, Checkpoint, disk, canonical, stageFiles, memory
<1> DEFINE lengths == [s \in Shards |->
                    IF s \in written THEN Len(stage[s]) ELSE state.durable[s]]
<1>z. \A s \in Shards : /\ stage[s] \in Seq(Captures) /\ state.warcs[s] \in Seq(Captures)
                        /\ Len(stage[s]) \in Nat /\ state.durable[s] \in Nat
  BY HoldingState, LenProperties DEF TypeOK, Bytes
<1>y. lengths \in [Shards -> Nat]
  BY <1>z
<1> HIDE DEF lengths
<1>0. /\ state' \in WorkStates /\ state' # None /\ work' = state'
      /\ state'.warcs = state.warcs /\ state'.index = state.index
      /\ state'.reset = state.reset /\ state'.durable = lengths
      /\ state'.initialized = state.initialized
  BY <1>y, HoldingState, CheckpointedState DEF lengths
<1>1. TypeOK'
  BY <1>0 DEF TypeOK
<1>2. ProcessInv'
  BY <1>0, HoldingState DEF ProcessInv, TypeOK
<1>3. StageInv'
  <2>1. ~state.reset => Covered(work')
    <3>1. ~state.reset => \A s \in Shards : /\ Len(state.warcs[s]) <= Len(stage[s])
                                            /\ Len(state.warcs[s]) <= state.durable[s]
      BY <1>z, HoldingState, PrefixPointwise DEF StageInv, ProcessInv, Extends, Covered
    <3>2. QED
      BY <1>0, <3>1 DEF Covered, lengths
  <2>2. ~state.reset => Extends(work', stage)
    BY <1>0, HoldingState DEF StageInv, ProcessInv, Extends
  <2>3. QED
    BY <1>0, <2>1, <2>2, HoldingState DEF StageInv, ProcessInv, Extends
<1>4. ManifestInv'
  BY DEF ManifestInv, ProcessInv, Honest, Final
<1>5. PromotionInv'
  BY DEF PromotionInv, ProcessInv, Promoted, Staged
<1>6. IndexHonest'
  BY DEF IndexHonest, Honest
<1>7. QED
  BY <1>1, <1>2, <1>3, <1>4, <1>5, <1>6

LEMMA FinishAcquireInv ==
    ASSUME IInv, FinishAcquire
    PROVE  IInv'
<1> USE DEF IInv, FinishAcquire, disk, canonical, stageFiles, memory
<1>1. TypeOK'
  BY DEF TypeOK, ProcessInv, Runs, Bytes
<1>2. ProcessInv'
  BY DEF ProcessInv, TypeOK
<1>3. StageInv'
  BY DEF StageInv, ProcessInv, Present, IsTail, Honest
<1>4. ManifestInv'
  BY DEF ManifestInv, ProcessInv, Honest, Final
<1>5. PromotionInv'
  BY DEF PromotionInv, ProcessInv, Promoted, Staged
<1>6. IndexHonest'
  BY DEF IndexHonest, Honest
<1>7. QED
  BY <1>1, <1>2, <1>3, <1>4, <1>5, <1>6

(* The promoted index lists what the staged shards hold. *)
LEMMA PrepareCommitInv ==
    ASSUME IInv, PrepareCommit
    PROVE  IInv'
<1> USE DEF IInv, PrepareCommit, disk, canonical, stageFiles, memory
<1>0. /\ stage \in Bytes /\ stageIndex \in Bytes \cup {NoIndex}
      /\ Honest(stageIndex, stage)
  BY DEF TypeOK, StageInv
<1>a. /\ stageIndex' \in Bytes \cup {NoIndex} /\ Honest(stageIndex', stage)
      /\ stageIndex' = NoIndex => Present(stage) = {}
  <2>1. \A s \in Shards : IsPrefix(stage[s], stage[s])
    BY <1>0, PrefixReflexive DEF Bytes
  <2>2. CASE stageIndex' = stageIndex /\ stageIndex # NoIndex
    BY <1>0, <2>2
  <2>3. CASE stageIndex' = Scan(stage)
    BY <1>0, <2>1, <2>3, MarkersAssumption DEF Scan, Honest
  <2>4. CASE /\ stageIndex # NoIndex
             /\ stageIndex' = [s \in Shards |-> IF s \in written THEN stage[s] ELSE stageIndex[s]]
    <3>1. stageIndex' \in Bytes
      BY <1>0, <2>4 DEF Bytes
    <3>2. QED
      BY <1>0, <2>1, <2>4, <3>1, MarkersAssumption DEF Honest
  <2>5. QED
    BY <2>2, <2>3, <2>4 DEF Reindex
<1>1. TypeOK'
  BY <1>a DEF TypeOK
<1>2. ProcessInv'
  BY DEF ProcessInv, TypeOK
<1>3. StageInv'
  BY <1>a, MarkersAssumption DEF StageInv, ProcessInv
<1>4. ManifestInv'
  BY DEF ManifestInv, ProcessInv, Honest, Final
<1>5. PromotionInv'
  BY DEF PromotionInv, ProcessInv, Promoted, Staged
<1>6. IndexHonest'
  BY DEF IndexHonest, Honest
<1>7. QED
  BY <1>1, <1>2, <1>3, <1>4, <1>5, <1>6

LEMMA CommitNothingInv ==
    ASSUME IInv, CommitNothing
    PROVE  IInv'
<1> USE DEF IInv, CommitNothing, disk, canonical, stageFiles, memory
<1>1. TypeOK'
  BY DEF TypeOK, ProcessInv, Runs, Bytes
<1>2. ProcessInv'
  BY DEF ProcessInv, TypeOK
<1>3. StageInv'
  BY DEF StageInv, ProcessInv, Present, IsTail, Honest
<1>4. ManifestInv'
  BY DEF ManifestInv, ProcessInv, Honest, Final
<1>5. PromotionInv'
  BY DEF PromotionInv, ProcessInv, Promoted, Staged
<1>6. IndexHonest'
  BY DEF IndexHonest, Honest
<1>7. QED
  BY <1>1, <1>2, <1>3, <1>4, <1>5, <1>6

(* The installed manifest is one whose promotion ends in honest files. *)
LEMMA CommitReadyInv ==
    ASSUME IInv, CommitReady
    PROVE  IInv'
<1> USE DEF IInv, CommitReady, disk, canonical, stageFiles, memory
<1> DEFINE m == ChangesNow
<1>0. /\ stage \in Bytes /\ stageIndex \in Bytes \cup {NoIndex} /\ canon \in Bytes
      /\ Honest(stageIndex, stage)
      /\ stageIndex = NoIndex => Present(stage) = {}
      /\ state.warcs = canon /\ state.reset \in BOOLEAN
      /\ ~state.reset => Extends(state, stage)
  BY HoldingState DEF TypeOK, StageInv, ProcessInv, WorkStates
<1>a. /\ m.reset = state.reset
      /\ m.warcs = {s \in Present(stage) : state.reset \/ stage[s] # canon[s]}
      /\ m.bytes = [s \in Shards |-> IF s \in m.warcs THEN stage[s] ELSE <<>>]
      /\ m.index = IF state.reset \/ stageIndex # state.index THEN stageIndex ELSE NoIndex
      /\ m.delete = IF state.reset THEN Present(canon) \ Present(stage) ELSE {}
  BY <1>0 DEF ChangesNow, Changes
<1>b. m \in Manifests /\ m # None
  <2>1. m.bytes \in Bytes
    BY <1>0, <1>a, EmptySeq DEF Bytes
  <2>2. m.warcs \subseteq Shards /\ m.delete \subseteq Shards
    BY <1>a DEF Present
  <2>3. m = [reset |-> m.reset, warcs |-> m.warcs, bytes |-> m.bytes,
             index |-> m.index, delete |-> m.delete]
    BY DEF ChangesNow, Changes
  <2> HIDE DEF m
  <2>4. m \in Manifests
    BY <1>0, <1>a, <2>1, <2>2, <2>3 DEF Manifests
  <2>5. QED
    BY <2>4, NoneAssumption
<1>c. ready' = m
  OBVIOUS
<1> HIDE DEF m
<1>1. TypeOK'
  BY <1>b, <1>c DEF TypeOK
<1>2. ProcessInv'
  BY <1>b, <1>c DEF ProcessInv, TypeOK
<1>3. StageInv'
  BY DEF StageInv, ProcessInv, Present, IsTail, Honest
<1>4. ManifestInv'
  <2>1. \A s \in Shards : m.index # NoIndex => IsPrefix(m.index[s], Final(s)')
    <3> SUFFICES ASSUME NEW s \in Shards, m.index # NoIndex
                 PROVE  IsPrefix(stageIndex[s], Final(s)')
      BY <1>a
    <3>1. /\ stageIndex[s] \in Seq(Captures) /\ IsPrefix(stageIndex[s], stage[s])
          /\ canon[s] \in Seq(Captures)
      BY <1>0, <1>a DEF Honest, Bytes
    <3>2. CASE s \in m.warcs
      BY <1>a, <1>c, <3>1, <3>2 DEF Final
    <3>3. CASE s \notin m.warcs /\ stage[s] = <<>>
      <4>1. IsPrefix(stageIndex[s], <<>>) /\ stageIndex[s] = <<>>
        BY <3>1, <3>3, EmptyPrefix
      <4>2. IsPrefix(<<>>, canon[s])
        BY <3>1, EmptyPrefix
      <4>3. QED
        BY <1>c, <3>3, <4>1, <4>2 DEF Final
    <3>4. CASE s \notin m.warcs /\ stage[s] # <<>>
      BY <1>a, <1>c, <3>1, <3>4 DEF Final, Present
    <3>5. QED
      BY <3>2, <3>3, <3>4
  <2>2. m.delete \cap m.warcs = {} /\ (m.reset /\ m.index = NoIndex => m.warcs = {})
    BY <1>0, <1>a
  <2>3. ~m.reset => m.delete = {} /\ \A s \in m.warcs : IsPrefix(canon[s], m.bytes[s])
    BY <1>0, <1>a DEF Extends, Present
  <2>4. m.reset => m.index = stageIndex
    BY <1>a
  <2>5. QED
    BY <1>c, <2>1, <2>2, <2>3, <2>4 DEF ManifestInv, Honest
<1>5. PromotionInv'
  BY DEF PromotionInv, ProcessInv, Promoted, Staged
<1>6. IndexHonest'
  BY DEF IndexHonest, Honest
<1>7. QED
  BY <1>1, <1>2, <1>3, <1>4, <1>5, <1>6

LEMMA PromoteUnlinkInv ==
    ASSUME IInv, PromoteUnlink
    PROVE  IInv'
<1> USE DEF IInv, PromoteUnlink, disk, canonical, stageFiles, memory
<1>1. TypeOK'
  BY DEF TypeOK, ProcessInv, Runs, Bytes
<1>2. ProcessInv'
  BY DEF ProcessInv, TypeOK
<1>3. StageInv'
  BY DEF StageInv, ProcessInv, Present, IsTail, Honest
<1>4. ManifestInv'
  BY DEF ManifestInv, ProcessInv, Honest, Final
<1>5. PromotionInv'
  BY DEF PromotionInv, ProcessInv, Promoted, Staged
<1>6. IndexHonest'
  BY DEF IndexHonest, Honest
<1>7. QED
  BY <1>1, <1>2, <1>3, <1>4, <1>5, <1>6

(* A shard is installed while the old index is hidden, or extends what the index lists. *)
LEMMA PromoteShardInv ==
    ASSUME IInv, NEW s \in Shards, PromoteShard(s)
    PROVE  IInv'
<1> USE DEF IInv, PromoteShard, disk, canonical, stageFiles, memory
<1>0. /\ ready # None /\ ready.bytes[s] = stage[s] /\ s \in ready.warcs /\ stage[s] # <<>>
      /\ \A r \in Shards : /\ canon'[r] = IF r = s THEN stage[s] ELSE canon[r]
                           /\ stage'[r] = IF r = s THEN <<>> ELSE stage[r]
      /\ \A r \in Shards : canon[r] \in Seq(Captures) /\ stage[r] \in Seq(Captures)
  BY DEF ProcessInv, TypeOK, Bytes, Staged
<1>a. ~ready.reset => IsPrefix(canon[s], stage[s])
  BY <1>0 DEF ManifestInv
<1>1. TypeOK'
  <2>1. canon' \in Bytes /\ stage' \in Bytes
    BY <1>0, EmptySeq DEF TypeOK, Bytes
  <2>2. QED
    BY <2>1 DEF TypeOK
<1>2. ProcessInv'
  BY DEF ProcessInv, TypeOK
<1>3. StageInv'
  BY <1>0 DEF StageInv, ProcessInv, Present
<1>4. ManifestInv'
  <2>1. \A r \in Shards : Final(r)' = Final(r)
    BY <1>0 DEF Final
  <2>2. Honest(ready.index, [r \in Shards |-> Final(r)'])
    BY <1>0, <2>1 DEF ManifestInv, Honest
  <2>3. ~ready.reset => \A r \in ready.warcs : IsPrefix(canon'[r], ready.bytes[r])
    BY <1>0, PrefixReflexive DEF ManifestInv, ProcessInv, TypeOK, Manifests
  <2>4. QED
    BY <1>0, <2>2, <2>3 DEF ManifestInv, Honest, TypeOK, Manifests
<1>5. PromotionInv'
  BY DEF PromotionInv, ProcessInv, Promoted, Staged
<1>6. IndexHonest'
  <2>1. CASE ready.reset
    BY <1>0, <2>1 DEF PromotionInv, ManifestInv, IndexHonest, Honest
  <2>2. CASE ~ready.reset
    BY <1>0, <1>a, <2>2, PrefixTransitive DEF IndexHonest, Honest, TypeOK, Bytes
  <2>3. QED
    BY <2>1, <2>2
<1>7. QED
  BY <1>1, <1>2, <1>3, <1>4, <1>5, <1>6

LEMMA PromoteShardsDoneInv ==
    ASSUME IInv, PromoteShardsDone
    PROVE  IInv'
<1> USE DEF IInv, PromoteShardsDone, disk, canonical, stageFiles, memory
<1>1. TypeOK'
  BY DEF TypeOK, ProcessInv, Runs, Bytes
<1>2. ProcessInv'
  BY DEF ProcessInv, TypeOK
<1>3. StageInv'
  BY DEF StageInv, ProcessInv, Present, IsTail, Honest
<1>4. ManifestInv'
  BY DEF ManifestInv, ProcessInv, Honest, Final
<1>5. PromotionInv'
  BY DEF PromotionInv, ProcessInv, Promoted, Staged
<1>6. IndexHonest'
  BY DEF IndexHonest, Honest
<1>7. QED
  BY <1>1, <1>2, <1>3, <1>4, <1>5, <1>6

(* With every shard in place, the new index is honest. *)
LEMMA PromoteIndexInv ==
    ASSUME IInv, PromoteIndex
    PROVE  IInv'
<1> USE DEF IInv, PromoteIndex, disk, canonical, stageFiles, memory
<1>0. /\ ready # None /\ canonIndex' = ready.index
      /\ stageIndex' = NoIndex \/ stageIndex' = stageIndex
      /\ \A s \in ready.warcs : stage[s] = <<>> /\ canon[s] = ready.bytes[s]
      /\ \A s \in Shards : canon[s] \in Seq(Captures)
  BY DEF ProcessInv, PromotionInv, Promoted, Staged, StagedIndex, TypeOK, Bytes
<1>1. TypeOK'
  BY <1>0 DEF TypeOK, Manifests
<1>2. ProcessInv'
  BY DEF ProcessInv, TypeOK
<1>3. StageInv'
  BY DEF StageInv, ProcessInv, Present, IsTail, Honest
<1>4. ManifestInv'
  BY <1>0 DEF ManifestInv, Honest, Final
<1>5. PromotionInv'
  BY <1>0 DEF PromotionInv, Promoted, Staged
<1>6. IndexHonest'
  <2> SUFFICES ASSUME NEW s \in Shards, ready.index # NoIndex
               PROVE  IsPrefix(ready.index[s], canon[s])
    BY <1>0 DEF IndexHonest, Honest
  <2>1. ready.index[s] \in Seq(Captures) /\ IsPrefix(ready.index[s], Final(s))
    BY <1>0 DEF ManifestInv, Honest, TypeOK, Manifests, Bytes
  <2>2. CASE s \notin ready.warcs /\ ready.reset
    <3>1. ready.index[s] = <<>>
      BY <2>1, <2>2, EmptyPrefix DEF Final
    <3>2. QED
      BY <1>0, <3>1, EmptyPrefix
  <2>3. CASE s \in ready.warcs \/ ~ready.reset
    BY <1>0, <2>1, <2>3 DEF Final
  <2>4. QED
    BY <2>2, <2>3
<1>7. QED
  BY <1>1, <1>2, <1>3, <1>4, <1>5, <1>6

(* A deleted shard is one the new index lists nothing of. *)
LEMMA PromoteDeleteInv ==
    ASSUME IInv, NEW s \in Shards, PromoteDelete(s)
    PROVE  IInv'
<1> USE DEF IInv, PromoteDelete, disk, canonical, stageFiles, memory
<1>0. /\ ready # None /\ ready.reset /\ s \notin ready.warcs /\ canonIndex = ready.index
      /\ \A r \in Shards : canon'[r] = IF r = s THEN <<>> ELSE canon[r]
      /\ \A r \in Shards : canon[r] \in Seq(Captures)
  BY DEF ProcessInv, ManifestInv, PromotionInv, TypeOK, Bytes
<1>1. TypeOK'
  <2>1. canon' \in Bytes
    BY <1>0, EmptySeq DEF TypeOK, Bytes
  <2>2. QED
    BY <2>1 DEF TypeOK
<1>2. ProcessInv'
  BY DEF ProcessInv, TypeOK
<1>3. StageInv'
  BY DEF StageInv, ProcessInv, Present, IsTail, Honest
<1>4. ManifestInv'
  <2>1. \A r \in Shards : Final(r)' = Final(r)
    BY <1>0 DEF Final
  <2>2. QED
    BY <1>0, <2>1 DEF ManifestInv, Honest
<1>5. PromotionInv'
  BY <1>0 DEF PromotionInv, Promoted, Staged, TypeOK, Manifests
<1>6. IndexHonest'
  <2>1. canonIndex # NoIndex => IsPrefix(canonIndex[s], <<>>)
    BY <1>0 DEF ManifestInv, Honest, Final
  <2>2. QED
    BY <1>0, <2>1 DEF IndexHonest, Honest
<1>7. QED
  BY <1>1, <1>2, <1>3, <1>4, <1>5, <1>6

LEMMA PromoteDoneInv ==
    ASSUME IInv, PromoteDone
    PROVE  IInv'
<1> USE DEF IInv, PromoteDone, disk, canonical, stageFiles, memory
<1>1. TypeOK'
  BY DEF TypeOK, ProcessInv, Runs, Bytes
<1>2. ProcessInv'
  BY DEF ProcessInv, TypeOK
<1>3. StageInv'
  BY DEF StageInv, ProcessInv, Present, IsTail, Honest
<1>4. ManifestInv'
  BY DEF ManifestInv, ProcessInv, Honest, Final
<1>5. PromotionInv'
  BY DEF PromotionInv, ProcessInv, Promoted, Staged
<1>6. IndexHonest'
  BY DEF IndexHonest, Honest
<1>7. QED
  BY <1>1, <1>2, <1>3, <1>4, <1>5, <1>6

(* Removing leftovers of the stage, in any order. *)
LEMMA RemoveFileInv ==
    ASSUME IInv, RemoveFile
    PROVE  IInv'
<1> USE DEF IInv, RemoveFile, disk, canonical, stageFiles, memory
<1>0. /\ pc = "rmtree" /\ pc' = "rmtree" /\ canon' = canon /\ canonIndex' = canonIndex
      /\ UNCHANGED <<dir, after, run, state, todo, written, crashes>>
      /\ stage' \in Bytes /\ linked' \subseteq Shards /\ linked' \subseteq Present(stage')
      /\ \A s \in Shards : stage'[s] = stage[s] \/ stage'[s] = <<>>
      /\ stageIndex' \in {stageIndex, NoIndex}
      /\ work' \in {work, None} /\ ready' \in {ready, None}
  <2>1. CASE stage' = stage /\ linked' = linked
    BY <2>1 DEF TypeOK, StageInv
  <2>2. ASSUME NEW s \in Present(stage),
               stage' = [stage EXCEPT ![s] = <<>>], linked' = linked \ {s}
        PROVE  /\ stage' \in Bytes /\ linked' \subseteq Present(stage')
               /\ \A r \in Shards : stage'[r] = stage[r] \/ stage'[r] = <<>>
    BY <2>2, EmptySeq DEF TypeOK, StageInv, Present, Bytes
  <2>3. QED
    BY <2>1, <2>2 DEF TypeOK, Present
<1>a. ready' # None => \A s \in ready'.warcs : Promoted(s)'
  BY <1>0 DEF PromotionInv, Promoted, Staged, TypeOK, Manifests
<1> HIDE DEF RemoveFile
<1>1. TypeOK'
  BY <1>0 DEF TypeOK
<1>2. ProcessInv'
  <2>1. ~dir => stage' = Empty
    <3>1. ~dir => \A s \in Shards : stage'[s] = <<>>
      BY <1>0 DEF ProcessInv, Empty
    <3>2. QED
      BY <1>0, <3>1 DEF Empty, Bytes
  <2>2. QED
    BY <1>0, <2>1 DEF ProcessInv, TypeOK
<1>3. StageInv'
  <2>1. work' # None => work' = work
    BY <1>0
  <2>2. work # None /\ ~work.reset =>
            \A s \in Shards : stage'[s] # <<>> => IsPrefix(work.warcs[s], stage'[s])
    BY <1>0 DEF StageInv
  <2>3. work' # None /\ ~work'.reset /\ work'.initialized => Covered(work')
    BY <2>1 DEF StageInv
  <2>4. QED
    BY <1>0, <2>1, <2>2, <2>3 DEF StageInv
<1>4. ManifestInv'
  BY <1>0, <1>a DEF ManifestInv, ProcessInv, Honest, Final, Promoted, Staged
<1>5. PromotionInv'
  BY <1>0, <1>a DEF PromotionInv, Promoted, Staged
<1>6. IndexHonest'
  BY <1>0 DEF IndexHonest, Honest
<1>7. QED
  BY <1>1, <1>2, <1>3, <1>4, <1>5, <1>6

LEMMA RemoveDirectoryInv ==
    ASSUME IInv, RemoveDirectory
    PROVE  IInv'
<1> USE DEF IInv, RemoveDirectory, Forget, NoRun, disk, canonical, stageFiles, memory
<1>1. TypeOK'
  BY DEF TypeOK, ProcessInv, Runs, Bytes
<1>2. ProcessInv'
  BY DEF ProcessInv, TypeOK
<1>3. StageInv'
  BY DEF StageInv, TypeOK, Present, IsTail, Honest
<1>4. ManifestInv'
  BY DEF ManifestInv, ProcessInv, Honest, Final
<1>5. PromotionInv'
  BY DEF PromotionInv, TypeOK, Promoted, Staged
<1>6. IndexHonest'
  BY DEF IndexHonest, Honest
<1>7. QED
  BY <1>1, <1>2, <1>3, <1>4, <1>5, <1>6

(* A crash leaves every file alone. *)
LEMMA CrashInv ==
    ASSUME IInv, Crash
    PROVE  IInv'
<1> USE DEF IInv, Crash, Forget, NoRun, disk, canonical, stageFiles, memory
<1>1. TypeOK'
  BY BoundsAssumption DEF TypeOK, ProcessInv, Runs
<1>2. ProcessInv'
  BY DEF ProcessInv, TypeOK
<1>3. StageInv'
  BY DEF StageInv, ProcessInv, Present, IsTail, Honest
<1>4. ManifestInv'
  BY DEF ManifestInv, ProcessInv, Honest, Final
<1>5. PromotionInv'
  BY DEF PromotionInv, ProcessInv, Promoted, Staged
<1>6. IndexHonest'
  BY DEF IndexHonest, Honest
<1>7. QED
  BY <1>1, <1>2, <1>3, <1>4, <1>5, <1>6

LEMMA StutterInv == ASSUME IInv, UNCHANGED vars PROVE IInv'
<1> USE DEF IInv, vars, disk, canonical, stageFiles, memory
<1>1. TypeOK'
  BY DEF TypeOK
<1>2. ProcessInv'
  BY DEF ProcessInv
<1>3. StageInv'
  BY DEF StageInv, Honest, IsTail, Present, Extends, Covered
<1>4. ManifestInv' /\ PromotionInv' /\ IndexHonest'
  BY DEF ManifestInv, PromotionInv, IndexHonest, Honest, Final, Promoted, Staged
<1>5. QED
  BY <1>1, <1>2, <1>3, <1>4

(* Every step keeps the inductive invariant.                               *)
LEMMA NextInv == ASSUME IInv, [Next]_vars PROVE IInv'
<1>1. CASE StartAny
  BY <1>1, StartInv DEF StartAny
<1>2. CASE Opening
  BY <1>2, OpeningInv, SaveFreshInv DEF Opening
<1>3. CASE Seeding
  BY <1>3, SeedShardInv, SeedIndexInv, SeedDoneInv DEF Seeding
<1>4. CASE Acquisition
  BY <1>4, InventoryRefusedInv, InventoryInv, DiscoverInv, AcquireInv, CheckpointInv,
     FinishAcquireInv DEF Acquisition
<1>5. CASE Committing
  BY <1>5, PrepareCommitInv, CommitNothingInv, CommitReadyInv DEF Committing
<1>6. CASE Promotion
  BY <1>6, PromoteUnlinkInv, PromoteShardInv, PromoteShardsDoneInv, PromoteIndexInv,
     PromoteDeleteInv, PromoteDoneInv DEF Promotion
<1>7. CASE Removal
  BY <1>7, RemoveFileInv, RemoveDirectoryInv DEF Removal
<1>8. CASE Crash
  BY <1>8, CrashInv
<1>9. CASE UNCHANGED vars
  BY <1>9, StutterInv
<1>10. QED
  BY <1>1, <1>2, <1>3, <1>4, <1>5, <1>6, <1>7, <1>8, <1>9 DEF Next, ProcessStep

----------------------------------------------------------------------------
THEOREM Invariance == Spec => []IInv
<1>1. Init => IInv
  BY InitInv
<1>2. IInv /\ [Next]_vars => IInv'
  BY NextInv
<1>3. QED
  BY <1>1, <1>2, PTL DEF Spec

(* Every variable keeps a value the code can give it.                      *)
THEOREM TypeCorrect == Spec => []TypeOK
<1>1. IInv => TypeOK
  BY DEF IInv
<1>2. QED
  BY <1>1, Invariance, PTL

(* At no instant, whatever was interrupted, does the canonical CDXJ list a *)
(* record that its canonical shard does not hold (_promote).               *)
THEOREM IndexAlwaysHonest == Spec => []IndexHonest
<1>1. IInv => IndexHonest
  BY DEF IInv
<1>2. QED
  BY <1>1, Invariance, PTL

(* Only promotion steps change canonical files (prepare_mutable_tail).     *)
THEOREM AcquisitionPrivate == Spec => CanonicalPrivate
<1>1. IInv /\ [Next]_vars => [UNCHANGED canonical \/ pc \in PromotionSteps]_vars
  <2> SUFFICES ASSUME IInv, Next PROVE UNCHANGED canonical \/ pc \in PromotionSteps
    BY DEF vars
  <2> USE DEF disk, canonical, memory
  <2>1. ASSUME NEW c \in Captures, NEW s \in Shards, Acquire(c, s)
        PROVE  UNCHANGED canonical
    BY <2>1 DEF Acquire, IInv, StageInv
  <2>2. QED
    BY <2>1 DEF Next, StartAny, Start, ProcessStep, Opening, OpenReset, OpenResume,
       OpenRefused, OpenFresh, SaveFresh, Seeding, SeedShard, SeedIndex,
       SeedIndexCopied, SeedRefused, SeedDone, Acquisition, InventoryRefused,
       Inventory, Discover, Checkpoint, FinishAcquire, Committing, PrepareCommit,
       CommitNothing, CommitReady, Promotion, PromoteUnlink, PromoteShard,
       PromoteShardsDone, PromoteIndex, PromoteDelete, PromoteDone, Removal,
       RemoveFile, RemoveDirectory, Crash
<1>2. QED
  BY <1>1, Invariance, PTL DEF Spec, CanonicalPrivate

----------------------------------------------------------------------------
(***************************************************************************)
(* What the index is worth beyond honesty: it lists all of the bytes       *)
(* (IndexComplete), and a reader sees each transaction as one step.        *)
(***************************************************************************)
Opened == {"idle", "open", "hash", "seed", "copying", "inventory", "discover"}

(* The staged index lags behind the stage only in shards this run wrote.   *)
StagedIndexInv ==
    /\ pc \in Opened => written = {}
    /\ pc \in {"rmtree"} \cup PromotionSteps /\ after = "open" => written = {}
    /\ pc \in {"discover", "commit"} => stageIndex = Scan(stage)
    /\ pc \in {"acquire", "checkpoint", "prepare"} =>
          stageIndex = NoIndex \/ \A s \in Shards \ written : stageIndex[s] = stage[s]

(* A promotion replaces the year or brings an index, and the index lists   *)
(* the bytes the promotion ends with.                                      *)
WholeManifestInv ==
    ready # None =>
        /\ ready.index = NoIndex => ready.reset
        /\ ready.index # NoIndex => \A s \in Shards : ready.index[s] = Final(s)
        /\ ready.reset => \A s \in Shards \ (ready.warcs \cup ready.delete) : canon[s] = <<>>
        /\ pc \in {"delete", "rmtree"} => canonIndex = ready.index

CompleteInv ==
    /\ StagedIndexInv /\ WholeManifestInv
    /\ ready = None \/ pc = "rmtree" => canonIndex \in {NoIndex, canon}

LEMMA InitComplete == ASSUME Init PROVE CompleteInv
  BY DEF Init, CompleteInv, StagedIndexInv, WholeManifestInv, Opened, Scan

(* Without a manifest, before and after, a step that leaves canonical      *)
(* files alone has only the staged index to care for.                      *)
LEMMA NoManifestComplete ==
    ASSUME CompleteInv, ready = None, ready' = None, UNCHANGED canonical, StagedIndexInv'
    PROVE  CompleteInv'
  BY DEF CompleteInv, WholeManifestInv, canonical

LEMMA OpeningComplete ==
    ASSUME IInv, CompleteInv, Opening \/ Seeding \/ InventoryRefused \/ Crash \/ StartAny
    PROVE  CompleteInv'
<1>1. CASE Opening
  <2>1. ready = None /\ ready' = None /\ UNCHANGED canonical
    BY <1>1 DEF Opening, OpenReset, OpenResume, OpenRefused, OpenFresh, SaveFresh, IInv, ProcessInv, disk, canonical
  <2>2. StagedIndexInv'
    BY <1>1 DEF Opening, OpenReset, OpenResume, OpenRefused, OpenFresh, SaveFresh, CompleteInv, StagedIndexInv,
       Opened, Forget, memory
  <2> QED  BY <2>1, <2>2, NoManifestComplete
<1>2. CASE Seeding
  <2>1. ready = None /\ ready' = None /\ UNCHANGED canonical
    BY <1>2 DEF Seeding, SeedShard, SeedIndex, SeedIndexCopied, SeedRefused, SeedDone, IInv, ProcessInv, disk, canonical
  <2>2. StagedIndexInv'
    BY <1>2 DEF Seeding, SeedShard, SeedIndex, SeedIndexCopied, SeedRefused, SeedDone, CompleteInv, StagedIndexInv,
       Opened, Forget, memory
  <2> QED  BY <2>1, <2>2, NoManifestComplete
<1>3. CASE InventoryRefused
  BY <1>3, NoManifestComplete DEF InventoryRefused, Forget, disk, IInv, ProcessInv, StagedIndexInv, Opened
<1>4. CASE Crash
  BY <1>4 DEF Crash, Forget, disk, canonical, CompleteInv, StagedIndexInv, WholeManifestInv, Opened, Final
<1>5. CASE StartAny
  <2>1. ready = None \/ pc' = "unlink"
    BY <1>5 DEF StartAny, Start
  <2>2. /\ pc = "idle" /\ pc' \in {"idle", "open", "unlink"}
        /\ UNCHANGED <<canon, canonIndex, ready, written>>
    BY <1>5 DEF StartAny, Start, disk, canonical
  <2> QED  BY <2>1, <2>2 DEF CompleteInv, StagedIndexInv, WholeManifestInv, Opened, Final
<1> QED  BY <1>1, <1>2, <1>3, <1>4, <1>5

LEMMA AcquisitionComplete ==
    ASSUME IInv, IInv', CompleteInv, Acquisition \/ PrepareCommit \/ CommitNothing
    PROVE  CompleteInv'
<1>1. CASE InventoryRefused
  BY <1>1, OpeningComplete
<1>2. CASE Inventory
  BY <1>2, NoManifestComplete DEF Inventory, IInv, ProcessInv, CompleteInv, StagedIndexInv, Opened
<1>3. ASSUME NEW selected \in SUBSET Captures, Discover(selected) PROVE CompleteInv'
  <2>1. stageIndex \in {NoIndex, stage}
    BY <1>3 DEF Discover, CompleteInv, StagedIndexInv, Scan
  <2> QED  BY <1>3, <2>1, NoManifestComplete DEF Discover, IInv, ProcessInv, CompleteInv, StagedIndexInv, Opened
<1>4. ASSUME NEW c \in Captures, NEW s \in Shards, Acquire(c, s) PROVE CompleteInv'
  <2>1. UNCHANGED canonical /\ ready = None /\ ready' = None
    BY <1>4 DEF Acquire, IInv, StageInv, ProcessInv, canonical
  <2>2. \A r \in Shards \ written' : r \in Shards \ written /\ stage'[r] = stage[r]
    BY <1>4 DEF Acquire, Append1
  <2>3. StagedIndexInv'
    BY <1>4, <2>2 DEF Acquire, CompleteInv, StagedIndexInv, Opened
  <2> QED  BY <2>1, <2>3, NoManifestComplete
<1>5. CASE Checkpoint \/ FinishAcquire
  BY <1>5, NoManifestComplete
  DEF Checkpoint, FinishAcquire, IInv, ProcessInv, CompleteInv, StagedIndexInv, Opened, disk, canonical, stageFiles
<1>6. CASE PrepareCommit
  <2>1. pc = "prepare" /\ pc' = "commit" /\ stageIndex' = Reindex(stage, stageIndex, written)
        /\ UNCHANGED <<canonical, stage, ready, after, written>>
    BY <1>6 DEF PrepareCommit, memory
  <2>2. stage \in Bytes /\ stageIndex \in Bytes \cup {NoIndex} /\ ready = None
    BY <2>1 DEF IInv, TypeOK, StageInv, ProcessInv
  <2>3. CASE stageIndex = NoIndex \/ Present(stage) = {}
    <3>1. Reindex(stage, stageIndex, written) = Scan(stage)
      BY <2>3 DEF Reindex
    <3> QED  BY <2>1, <2>2, <3>1, NoManifestComplete DEF StagedIndexInv, Opened, canonical
  <2>4. CASE stageIndex # NoIndex /\ Present(stage) # {}
    <3>1. \A s \in Shards \ written : stageIndex[s] = stage[s]
      BY <2>1, <2>4 DEF CompleteInv, StagedIndexInv
    <3>2. stage = [s \in Shards |-> stage[s]] /\ stageIndex = [s \in Shards |-> stageIndex[s]]
      BY <2>2, <2>4 DEF Bytes
    <3>3. Reindex(stage, stageIndex, written) = stage
      BY <2>4, <3>1, <3>2 DEF Reindex
    <3>4. stageIndex' = Scan(stage')
      BY <2>1, <2>4, <3>3 DEF Scan
    <3> QED  BY <2>1, <2>2, <3>4, NoManifestComplete DEF StagedIndexInv, Opened, canonical
  <2> QED  BY <2>3, <2>4
<1>7. CASE CommitNothing
  BY <1>7, NoManifestComplete DEF CommitNothing, IInv, ProcessInv, CompleteInv, StagedIndexInv, Opened, disk
<1> QED  BY <1>1, <1>2, <1>3, <1>4, <1>5, <1>6, <1>7 DEF Acquisition

(* A commit that has anything to install installs an index that lists all  *)
(* of the bytes, or removes the year.                                      *)
LEMMA CommitReadyComplete == ASSUME IInv, IInv', CompleteInv, CommitReady PROVE CompleteInv'
<1> DEFINE m == ChangesNow
<1>1. /\ stage \in Bytes /\ canon \in Bytes /\ stageIndex = Scan(stage)
      /\ state.warcs = canon /\ state.index = canonIndex /\ state.reset \in BOOLEAN
      /\ ~state.reset => Extends(state, stage)
      /\ ready = None /\ canonIndex \in {NoIndex, canon}
  BY HoldingState DEF CommitReady, IInv, TypeOK, StageInv, ProcessInv, CompleteInv, StagedIndexInv, WorkStates
<1>2. /\ m.reset = state.reset
      /\ m.warcs = {s \in Present(stage) : state.reset \/ stage[s] # canon[s]}
      /\ m.bytes = [s \in Shards |-> IF s \in m.warcs THEN stage[s] ELSE <<>>]
      /\ m.index = IF state.reset \/ stageIndex # state.index THEN stageIndex ELSE NoIndex
      /\ m.delete = IF state.reset THEN Present(canon) \ Present(stage) ELSE {}
  BY <1>1 DEF ChangesNow, Changes
<1>3. /\ ready' = m /\ pc' = "unlink" /\ after' = "idle"
      /\ state.reset \/ ~NoArtifacts(m)
      /\ UNCHANGED <<canon, canonIndex, stage, stageIndex, written>>
  BY DEF CommitReady, canonical, stageFiles
<1> HIDE DEF m
<1>4. \A s \in Shards : Final(s)' = stage[s]
  <2> SUFFICES ASSUME NEW s \in Shards PROVE Final(s)' = stage[s]
    OBVIOUS
  <2>1. CASE s \in m.warcs
    BY <1>2, <1>3, <2>1 DEF Final
  <2>2. CASE s \notin m.warcs /\ state.reset
    BY <1>2, <1>3, <2>2 DEF Final, Present
  <2>3. CASE s \notin m.warcs /\ ~state.reset /\ stage[s] # <<>>
    BY <1>2, <1>3, <2>3 DEF Final, Present
  <2>4. CASE s \notin m.warcs /\ ~state.reset /\ stage[s] = <<>>
    <3>1. IsPrefix(canon[s], <<>>) /\ canon[s] \in Seq(Captures)
      BY <1>1, <2>4 DEF Extends, Bytes
    <3>2. canon[s] = <<>>
      BY <3>1, EmptyPrefix
    <3> QED  BY <1>2, <1>3, <2>4, <3>2 DEF Final
  <2> QED  BY <2>1, <2>2, <2>3, <2>4
<1>5. m.index # NoIndex => m.index = stage
  BY <1>1, <1>2 DEF Scan
<1>6. m.index = NoIndex => m.reset
  <2> SUFFICES ASSUME m.index = NoIndex, ~state.reset PROVE m.warcs = {}
    BY <1>2, <1>3 DEF NoArtifacts
  <2>1. CASE stageIndex = NoIndex
    BY <1>1, <1>2, <2>1, MarkersAssumption DEF Scan
  <2>2. CASE stageIndex # NoIndex
    <3>1. stage = canon
      BY <1>1, <1>2, <2>2 DEF Scan
    <3> QED  BY <1>2, <3>1
  <2> QED  BY <2>1, <2>2
<1>7. m.reset => \A s \in Shards \ (m.warcs \cup m.delete) : canon[s] = <<>>
  BY <1>2 DEF Present
<1>8. WholeManifestInv'
  BY <1>3, <1>4, <1>5, <1>6, <1>7 DEF WholeManifestInv
<1>9. ready' # None
  BY <1>3 DEF IInv, ProcessInv
<1> QED  BY <1>3, <1>8, <1>9 DEF CompleteInv, StagedIndexInv, Opened

(* A promotion, however often it is begun again, ends with the index over  *)
(* the bytes it has installed.                                             *)
LEMMA PromotionComplete == ASSUME IInv, IInv', CompleteInv, Promotion PROVE CompleteInv'
<1>1. /\ ready # None /\ ready' = ready /\ after' = after /\ written' = written
      /\ pc \in PromotionSteps /\ pc' \in PromotionSteps \cup {"rmtree"}
  BY DEF Promotion, PromoteUnlink, PromoteShard, PromoteShardsDone, PromoteIndex, PromoteDelete, PromoteDone,
     IInv, ProcessInv, disk, memory
<1>2. StagedIndexInv'
  BY <1>1 DEF CompleteInv, StagedIndexInv, Opened
<1>3. CASE PromoteUnlink
  BY <1>1, <1>2, <1>3 DEF PromoteUnlink, CompleteInv, WholeManifestInv, Final
<1>4. ASSUME NEW s \in Shards, PromoteShard(s) PROVE CompleteInv'
  <2>1. /\ s \in ready.warcs /\ canon' = [canon EXCEPT ![s] = stage[s]] /\ stage[s] = ready.bytes[s]
        /\ pc = "warcs" /\ pc' = "warcs"
    BY <1>4 DEF PromoteShard
  <2>2. \A r \in Shards : Final(r)' = Final(r)
    BY <1>1, <2>1 DEF Final, IInv, TypeOK, Bytes
  <2>3. \A r \in Shards \ (ready.warcs \cup ready.delete) : canon'[r] = canon[r]
    BY <2>1 DEF IInv, TypeOK, Bytes
  <2>4. WholeManifestInv'
    BY <1>1, <2>1, <2>2, <2>3 DEF CompleteInv, WholeManifestInv
  <2> QED  BY <1>1, <1>2, <2>1, <2>4 DEF CompleteInv
<1>5. CASE PromoteShardsDone
  <2>1. /\ pc = "warcs" /\ pc' = IF ready.index = NoIndex THEN "delete" ELSE "index"
        /\ UNCHANGED <<canon, canonIndex>>
    BY <1>5 DEF PromoteShardsDone, disk, canonical
  <2>2. ready.index = NoIndex => canonIndex = NoIndex
    BY <1>1, <2>1 DEF CompleteInv, WholeManifestInv, IInv, PromotionInv
  <2> QED  BY <1>1, <1>2, <2>1, <2>2 DEF CompleteInv, WholeManifestInv, Final
<1>6. CASE PromoteIndex
  <2>1. pc' = "delete" /\ canon' = canon /\ canonIndex' = ready.index
    BY <1>6 DEF PromoteIndex
  <2> QED  BY <1>1, <1>2, <2>1 DEF CompleteInv, WholeManifestInv, Final
<1>7. ASSUME NEW s \in Shards, PromoteDelete(s) PROVE CompleteInv'
  <2>1. /\ s \in ready.delete /\ canon' = [canon EXCEPT ![s] = <<>>] /\ canonIndex' = canonIndex
        /\ pc = "delete" /\ pc' = "delete"
    BY <1>7 DEF PromoteDelete
  <2>2. ready.reset
    BY <1>1, <2>1 DEF IInv, ManifestInv, TypeOK, Manifests
  <2>3. \A r \in Shards : Final(r)' = Final(r)
    BY <1>1, <2>2 DEF Final
  <2>4. \A r \in Shards \ (ready.warcs \cup ready.delete) : canon'[r] = canon[r]
    BY <2>1 DEF IInv, TypeOK, Bytes
  <2>5. WholeManifestInv'
    BY <1>1, <2>1, <2>3, <2>4 DEF CompleteInv, WholeManifestInv
  <2> QED  BY <1>1, <1>2, <2>1, <2>5 DEF CompleteInv
<1>8. CASE PromoteDone
  <2>1. /\ pc = "delete" /\ pc' = "rmtree" /\ UNCHANGED <<canon, canonIndex>>
        /\ \A s \in ready.delete : canon[s] = <<>>
    BY <1>8 DEF PromoteDone, disk, canonical
  <2>2. canonIndex = ready.index
    BY <1>1, <2>1 DEF CompleteInv, WholeManifestInv
  <2>3. ASSUME NEW s \in Shards PROVE canon[s] = Final(s)
    <3>1. CASE s \in ready.warcs
      BY <1>1, <2>1, <3>1 DEF IInv, PromotionInv, Promoted, Final
    <3>2. CASE s \notin ready.warcs
      BY <1>1, <2>1, <3>2 DEF CompleteInv, WholeManifestInv, Final
    <3> QED  BY <3>1, <3>2
  <2>4. canonIndex # NoIndex => canonIndex = canon
    <3> SUFFICES ASSUME canonIndex # NoIndex PROVE canonIndex = canon
      OBVIOUS
    <3>1. canonIndex = [s \in Shards |-> canonIndex[s]] /\ canon = [s \in Shards |-> canon[s]]
      BY DEF IInv, TypeOK, Bytes
    <3>2. \A s \in Shards : canonIndex[s] = canon[s]
      BY <1>1, <2>2, <2>3 DEF CompleteInv, WholeManifestInv
    <3> QED  BY <3>1, <3>2
  <2>5. WholeManifestInv'
    BY <1>1, <2>1, <2>2 DEF CompleteInv, WholeManifestInv, Final
  <2> QED  BY <1>1, <1>2, <2>1, <2>4, <2>5 DEF CompleteInv
<1> QED  BY <1>3, <1>4, <1>5, <1>6, <1>7, <1>8 DEF Promotion

LEMMA RemovalComplete == ASSUME IInv, CompleteInv, Removal \/ UNCHANGED vars PROVE CompleteInv'
<1>1. CASE RemoveFile
  BY <1>1 DEF RemoveFile, canonical, memory, CompleteInv, StagedIndexInv, WholeManifestInv, Opened, Final
<1>2. CASE RemoveDirectory
  <2>1. /\ pc = "rmtree" /\ pc' = after /\ ready = None /\ UNCHANGED <<canonical, ready>>
        /\ after = "idle" => written' = {}
        /\ after # "idle" => UNCHANGED <<after, written>>
        /\ after \in {"idle", "open"}
    BY <1>2 DEF RemoveDirectory, Forget, memory, IInv, TypeOK
  <2>2. StagedIndexInv'
    BY <2>1 DEF CompleteInv, StagedIndexInv, Opened
  <2> QED  BY <2>1, <2>2, NoManifestComplete
<1>3. CASE UNCHANGED vars
  BY <1>3 DEF vars, disk, canonical, stageFiles, memory, CompleteInv, StagedIndexInv, WholeManifestInv, Opened, Final
<1> QED  BY <1>1, <1>2, <1>3 DEF Removal

LEMMA NextComplete == ASSUME IInv, IInv', CompleteInv, [Next]_vars PROVE CompleteInv'
  BY OpeningComplete, AcquisitionComplete, CommitReadyComplete, PromotionComplete, RemovalComplete
  DEF Next, ProcessStep, Committing

(* The invariant behind the index's completeness and the refinement. *)
THEOREM Completeness == Spec => [](IInv /\ CompleteInv)
<1>1. Init => IInv /\ CompleteInv
  BY InitInv, InitComplete
<1>2. IInv /\ CompleteInv /\ [Next]_vars => (IInv /\ CompleteInv)'
  BY NextInv, NextComplete
<1>3. QED
  BY <1>1, <1>2, PTL DEF Spec

(* Between runs, and with no promotion pending, nothing is stored that the *)
(* canonical CDXJ does not list, but for a year that never had one.        *)
THEOREM IndexAlwaysComplete == Spec => []IndexComplete
<1>1. CompleteInv => IndexComplete
  BY DEF CompleteInv, IndexComplete
<1>2. QED
  BY <1>1, Completeness, PTL

----------------------------------------------------------------------------
(***************************************************************************)
(* YearStage implements YearCatalog.  With an honest index a reader finds  *)
(* exactly the listed records, and a manifest decides what its index lists.*)
(***************************************************************************)
LEMMA ReadableIsListed == TypeOK /\ IndexHonest => Readable = Listed(canonIndex)
<1> SUFFICES ASSUME TypeOK, IndexHonest PROVE Readable = Listed(canonIndex)
  OBVIOUS
<1>1. CASE canonIndex = NoIndex
  BY <1>1 DEF Readable, Listed
<1>2. CASE canonIndex # NoIndex
  <2>1. \A s \in Shards : canonIndex[s] \in Seq(Captures) /\ canon[s] \in Seq(Captures)
                          /\ IsPrefix(canonIndex[s], canon[s])
    BY <1>2 DEF TypeOK, IndexHonest, Honest, Bytes
  <2>2. ASSUME NEW s \in Shards
        PROVE  {j \in 1..Len(canonIndex[s]) : j <= Len(canon[s]) /\ canon[s][j] = canonIndex[s][j]}
                  = 1..Len(canonIndex[s])
    <3>1. Len(canonIndex[s]) <= Len(canon[s]) /\ \A i \in 1..Len(canonIndex[s]) : canonIndex[s][i] = canon[s][i]
      BY <2>1, PrefixPointwise
    <3>2. Len(canonIndex[s]) \in Nat /\ Len(canon[s]) \in Nat
      BY <2>1, LenProperties
    <3>3. \A j \in 1..Len(canonIndex[s]) : j <= Len(canon[s]) /\ canon[s][j] = canonIndex[s][j]
      BY <3>1, <3>2
    <3> QED  BY <3>3
  <2> QED  BY <1>2, <2>2 DEF Readable, Listed
<1> QED  BY <1>1, <1>2

LEMMA ListedCaptures == ASSUME NEW x \in Bytes \cup {NoIndex} PROVE Listed(x) \subseteq Captures
<1>1. CASE x = NoIndex
  BY <1>1 DEF Listed
<1>2. CASE x # NoIndex
  <2>1. \A s \in Shards : x[s] \in Seq(Captures)
    BY <1>2 DEF Bytes
  <2>2. \A s \in Shards : \A i \in 1..Len(x[s]) : x[s][i] \in Captures
    BY <2>1, ElementOfSeq
  <2> QED  BY <1>2, <2>2 DEF Listed
<1> QED  BY <1>1, <1>2

(* What is listed of some bytes is listed of bytes that extend them. *)
LEMMA ListedGrows ==
    ASSUME NEW x \in Bytes, NEW y \in Bytes, \A s \in Shards : IsPrefix(x[s], y[s]), y # NoIndex
    PROVE  Listed(x) \subseteq Listed(y)
<1>1. x # NoIndex
  BY MarkersAssumption
<1>2. \A s \in Shards : Len(x[s]) \in Nat /\ Len(y[s]) \in Nat
  BY LenProperties DEF Bytes
<1>3. \A s \in Shards : Len(x[s]) <= Len(y[s]) /\ \A i \in 1..Len(x[s]) : x[s][i] = y[s][i]
  BY PrefixPointwise DEF Bytes
<1>4. ASSUME NEW s \in Shards, NEW i \in 1..Len(x[s])
      PROVE  x[s][i] \in {y[s][j] : j \in 1..Len(y[s])}
  BY <1>2, <1>3
<1> QED  BY <1>1, <1>4 DEF Listed

LEMMA DecisionIsManifest ==
    TypeOK /\ CompleteInv =>
        /\ ready = None => Decision = None
        /\ ready # None => /\ Decision = [replace |-> ready.reset, catalog |-> Listed(ready.index)]
                           /\ Decision \in Catalog!Transactions /\ Decision # None
<1> SUFFICES ASSUME TypeOK, CompleteInv
             PROVE  /\ ready = None => Decision = None
                    /\ ready # None =>
                          /\ Decision = [replace |-> ready.reset, catalog |-> Listed(ready.index)]
                          /\ Decision \in Catalog!Transactions /\ Decision # None
  OBVIOUS
<1>1. ready = None => Decision = None
  BY DEF Decision
<1>2. ASSUME ready # None
      PROVE  /\ Decision = [replace |-> ready.reset, catalog |-> Listed(ready.index)]
             /\ Decision \in Catalog!Transactions /\ Decision # None
  <2>1. ready \in Manifests
    BY <1>2 DEF TypeOK
  <2>2. ready.reset \in BOOLEAN /\ ready.index \in Bytes \cup {NoIndex}
    BY <2>1 DEF Manifests
  <2>3. ready.reset \/ ready.index # NoIndex
    BY <1>2 DEF CompleteInv, WholeManifestInv
  <2>4. Decision = [replace |-> ready.reset, catalog |-> Listed(ready.index)]
    BY <1>2, <2>3 DEF Decision
  <2>5. Listed(ready.index) \in SUBSET Captures
    BY <2>2, ListedCaptures
  <2>6. Decision \in Decisions
    BY <2>2, <2>4, <2>5 DEF Decisions
  <2> QED  BY <2>4, <2>6, NoneAssumption DEF Catalog!Transactions, Decisions
<1> QED  BY <1>1, <1>2

LEMMA InitCatalog == ASSUME Init PROVE Catalog!Init
<1>1. TypeOK /\ IndexHonest /\ CompleteInv
  BY InitInv, InitComplete DEF IInv
<1>2. Readable \subseteq Captures
  BY <1>1, ReadableIsListed, ListedCaptures DEF TypeOK
<1>3. Decision = None
  BY DEF Init, Decision
<1> QED  BY <1>2, <1>3 DEF Catalog!Init

(* A step that changes neither the canonical index nor ready.json is no    *)
(* step of the catalog.                                                    *)
LEMMA SameIndexSameCatalog ==
    ASSUME TypeOK, IndexHonest, CompleteInv, (TypeOK /\ IndexHonest /\ CompleteInv)',
           canonIndex' = canonIndex, ready' = ready
    PROVE  Readable' = Readable /\ Decision' = Decision
<1>1. Readable = Listed(canonIndex)
  BY ReadableIsListed
<1>2. (TypeOK /\ IndexHonest => Readable = Listed(canonIndex))'
  BY ReadableIsListed, PTL
<1>3. Readable' = Readable
  BY <1>1, <1>2 DEF Listed
<1>4. ready = None => Decision' = Decision
  BY DEF Decision
<1>5. ready # None => Decision' = Decision
  BY DEF CompleteInv, WholeManifestInv, Decision, Listed
<1> QED  BY <1>3, <1>4, <1>5

(* Deciding, withdrawing, installing and finishing are one step each. *)
LEMMA Stepwise ==
    ASSUME IInv, IInv', CompleteInv, CompleteInv', [Next]_vars
    PROVE  [Catalog!Next]_<<Readable, Decision>>
<1>1. /\ TypeOK /\ IndexHonest /\ CompleteInv
      /\ (TypeOK /\ IndexHonest /\ CompleteInv)'
  BY DEF IInv
<1>2. Readable = Listed(canonIndex)
  BY <1>1, ReadableIsListed
<1>3. Readable' = Listed(canonIndex')
  <2>1. (TypeOK /\ IndexHonest => Readable = Listed(canonIndex))'
    BY ReadableIsListed, PTL
  <2> QED  BY <1>1, <2>1 DEF Listed
<1>4. ready # None => /\ Decision = [replace |-> ready.reset, catalog |-> Listed(ready.index)]
                      /\ Decision # None
  BY <1>1, DecisionIsManifest
<1>5. CASE UNCHANGED <<canonIndex, ready>>
  BY <1>1, <1>5, SameIndexSameCatalog
<1>6. CASE CommitReady
  <2> DEFINE m == ready'
  <2>1. ready = None /\ m # None /\ UNCHANGED <<canon, canonIndex>>
    BY <1>6 DEF CommitReady, IInv, ProcessInv, canonical
  <2>2. m \in Manifests
    BY <2>1 DEF IInv, TypeOK
  <2>3. Decision = None /\ Readable' = Readable
    BY <1>2, <1>3, <2>1 DEF Decision
  <2>4. /\ Decision' = [replace |-> m.reset, catalog |-> Listed(m.index)]
        /\ Decision' \in Catalog!Transactions
    <3>1. (TypeOK /\ CompleteInv =>
              (ready # None => /\ Decision = [replace |-> ready.reset, catalog |-> Listed(ready.index)]
                               /\ Decision \in Catalog!Transactions /\ Decision # None))'
      BY DecisionIsManifest, PTL
    <3> QED  BY <1>1, <2>1, <3>1 DEF Listed, Catalog!Transactions
  <2>5. m.reset \/ Listed(canonIndex) \subseteq Listed(m.index)
    <3> SUFFICES ASSUME ~m.reset, canonIndex # NoIndex PROVE Listed(canonIndex) \subseteq Listed(m.index)
      BY DEF Listed
    <3>1. canonIndex = canon /\ canon \in Bytes
      BY <2>1 DEF CompleteInv, IInv, TypeOK
    <3>2. m.index # NoIndex /\ m.index \in Bytes /\ \A s \in Shards : m.index[s] = Final(s)'
      BY <2>1, <2>2 DEF CompleteInv, WholeManifestInv, Manifests
    <3>3. \A s \in m.warcs : IsPrefix(canon[s], m.bytes[s])
      BY <2>1 DEF IInv, ManifestInv
    <3>4. ASSUME NEW s \in Shards PROVE IsPrefix(canon[s], m.index[s])
      <4>1. CASE s \in m.warcs
        BY <3>2, <3>3, <4>1 DEF Final
      <4>2. CASE s \notin m.warcs
        BY <2>1, <3>1, <3>2, <4>2, PrefixReflexive DEF Final, Bytes
      <4> QED  BY <4>1, <4>2
    <3> QED  BY <3>1, <3>2, <3>4, ListedGrows
  <2> HIDE DEF m
  <2>6. Catalog!Decide(Decision')
    BY <1>2, <2>3, <2>4, <2>5 DEF Catalog!Decide
  <2> QED  BY <2>4, <2>6 DEF Catalog!Next
<1>7. CASE PromoteUnlink /\ canonIndex' # canonIndex
  <2>1. ready # None /\ ready.reset /\ ready' = ready /\ canonIndex' = NoIndex
    BY <1>7 DEF PromoteUnlink, IInv, ProcessInv
  <2>2. Decision' = Decision
    BY <1>4, <2>1 DEF Decision, CompleteInv, WholeManifestInv
  <2>3. Readable' = {}
    BY <1>3, <2>1 DEF Listed
  <2>4. Catalog!Withdraw
    BY <1>4, <2>1, <2>2, <2>3 DEF Catalog!Withdraw
  <2> QED  BY <2>4 DEF Catalog!Next
<1>8. CASE PromoteIndex
  <2>1. ready # None /\ ready' = ready /\ canonIndex' = ready.index /\ ready.index # NoIndex
    BY <1>8 DEF PromoteIndex, IInv, ProcessInv, PromotionInv
  <2>2. Decision' = Decision
    BY <2>1 DEF Decision
  <2>3. Catalog!Install
    BY <1>3, <1>4, <2>1, <2>2 DEF Catalog!Install
  <2> QED  BY <2>3 DEF Catalog!Next
<1>9. CASE RemoveFile /\ ready' # ready
  <2>1. ready # None /\ ready' = None /\ canonIndex' = canonIndex /\ pc = "rmtree"
    BY <1>9 DEF RemoveFile, canonical
  <2>2. canonIndex = ready.index
    BY <2>1 DEF CompleteInv, WholeManifestInv
  <2>3. Readable' = Readable /\ Decision' = None
    BY <1>2, <1>3, <2>1 DEF Decision
  <2>4. Catalog!Finish
    BY <1>2, <1>4, <2>1, <2>2, <2>3 DEF Catalog!Finish
  <2> QED  BY <2>4 DEF Catalog!Next
<1> QED
  BY <1>5, <1>6, <1>7, <1>8, <1>9 DEF Next, StartAny, Start, ProcessStep, Opening, OpenReset, OpenResume,
     OpenRefused, OpenFresh, SaveFresh, Seeding, SeedShard, SeedIndex, SeedIndexCopied, SeedRefused, SeedDone,
     Acquisition, InventoryRefused, Inventory, Discover, Acquire, Checkpoint, FinishAcquire, Committing,
     PrepareCommit, CommitNothing, Promotion, PromoteUnlink, PromoteShard, PromoteShardsDone, PromoteDelete,
     PromoteDone, Removal, RemoveFile, RemoveDirectory, Crash, vars, disk, canonical

(* Readers of the year see an atomic catalog: a promotion that can be cut  *)
(* off between any two of its files, and begun again, is for them one      *)
(* step, or a withdrawal and one step.                                     *)
THEOREM CatalogImplemented == Spec => ImplementsCatalog
<1>1. Init => Catalog!Init
  BY InitCatalog
<1>2. IInv /\ CompleteInv /\ IInv' /\ CompleteInv' /\ [Next]_vars => [Catalog!Next]_<<Readable, Decision>>
  BY Stepwise
<1>3. QED
  BY <1>1, <1>2, Completeness, PTL DEF Spec, ImplementsCatalog, Catalog!Spec, Catalog!catalogVars
============================================================================
