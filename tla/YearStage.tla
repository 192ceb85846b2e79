----------------------------- MODULE YearStage -----------------------------
(***************************************************************************)
(* One year's staged transaction (pipeline/stage_year.py) as run_fetch.py  *)
(* drives it.  Canonical files are what readers and the publisher see; the *)
(* stage directory data/.staging/YYYY is where a run acquires captures;    *)
(* ready.json turns the stage into a promotion that any later run can      *)
(* finish.  The process may die, or raise, between any two steps: memory   *)
(* is lost, every file stays as it is.  (Bytes lost with the page cache    *)
(* are the subject of WarcStage.)                                          *)
(*                                                                         *)
(* A WARC shard is the sequence of captures it stores, <<>> when the file  *)
(* does not exist.  A CDXJ index is, per shard, the records it lists.      *)
(***************************************************************************)
EXTENDS Naturals, Sequences, FiniteSets, SequencesExt

CONSTANTS
    Captures,     (* capture identities the source can return              *)
    MaxShards,    (* bound: highest shard sequence number                  *)
    Targets,      (* shard size targets, in captures, a run may be given   *)
    Bindings,     (* acquisition settings recorded in work.json            *)
    MaxCrashes,   (* bound: interruptions in one behaviour                 *)
    NoIndex, Partial, None   (* no CDXJ; a half-copied CDXJ; no record     *)

Shards == 1..MaxShards
Bytes == [Shards -> Seq(Captures)]
Empty == [s \in Shards |-> <<>>]

ASSUME BoundsAssumption ==
    /\ MaxShards \in Nat \ {0}
    /\ MaxCrashes \in Nat
    /\ Targets \subseteq Nat \ {0}

ASSUME MarkersAssumption ==
    /\ NoIndex \notin Bytes /\ Partial \notin Bytes
    /\ NoIndex # Partial

(* YearWorkState, the contents of work.json *)
WorkStates ==
    [binding : Bindings,
     warcs : Bytes, index : Bytes \cup {NoIndex},    \* the baseline
     reset : BOOLEAN, durable : [Shards -> Nat], initialized : BOOLEAN]

(* ready.json: the shards to install with their contents, the index to     *)
(* install, if any, and the canonical shards to delete.                    *)
Manifests ==
    [reset : BOOLEAN, warcs : SUBSET Shards, bytes : Bytes,
     index : Bytes \cup {NoIndex}, delete : SUBSET Shards]

(* A transaction in the eyes of the year's readers. *)
Decisions == [replace : BOOLEAN, catalog : SUBSET Captures]

ASSUME NoneAssumption == None \notin WorkStates \cup Manifests \cup Decisions

VARIABLES
    canon, canonIndex,           \* canonical WARC shards and CDXJ
    dir,                         \* does the stage directory exist?
    stage, linked, stageIndex,   \* staged shards, which of them are hard links, staged CDXJ
    work, ready,                 \* work.json and ready.json, None when absent
    pc, after,                   \* the process: next step, and where a removal returns to
    run,                         \* what this run was asked to do
    state,                       \* self.state: the process's copy of work.json
    todo, written,               \* captures still to acquire; shards this run appended to
    crashes

canonical == <<canon, canonIndex>>
stageFiles == <<stage, linked, stageIndex>>
disk == <<canonical, dir, stageFiles, work, ready>>
memory == <<after, run, state, todo, written>>
vars == <<disk, pc, memory, crashes>>

Modes == {"fetch", "reset", "sync"}
NoRun == [mode |-> "sync", target |-> 0, binding |-> None]
Runs == [mode : Modes, target : Targets, binding : Bindings] \cup {NoRun}

PromotionSteps == {"unlink", "warcs", "index", "delete"}
Steps == {"idle", "open", "hash", "seed", "copying", "inventory", "discover",
          "acquire", "checkpoint", "prepare", "commit", "rmtree"} \cup PromotionSteps

(***************************************************************************)
(* What the code computes from files.                                      *)
(***************************************************************************)
Present(b) == {s \in Shards : b[s] # <<>>}

(* The CDXJ a strict scan of the shards builds; none when there are none. *)
Scan(b) == IF Present(b) = {} THEN NoIndex ELSE b

(* Identities the CDXJ inventory holds. *)
Listed(x) == IF x = NoIndex THEN {}
             ELSE UNION {{x[s][i] : i \in 1..Len(x[s])} : s \in Shards}

(* Is s the shard the writer appends to?  The last one while it is below   *)
(* the target, otherwise a new one after it.                               *)
IsTail(b, target, s) ==
    \/ /\ s \in Present(b) /\ Len(b[s]) < target
       /\ \A r \in Present(b) : r <= s
    \/ /\ \A r \in Present(b) : r < s
       /\ s = 1 \/ (s - 1 \in Present(b) /\ Len(b[s - 1]) >= target)

(* Broken variant: append to the shared tail in place. *)
SharedTail(links, b, target) == links

(* prepare_mutable_tail: the shards still hard-linked once it has run. *)
DetachTail(links, b, target) == {s \in links : ~IsTail(b, target, s)}

(* Appending through a hard link changes the canonical inode too. *)
Append1(b, s, c) == [b EXCEPT ![s] = Append(@, c)]

(* Broken variant: reuse the startup index although shards grew. *)
StaleReindex(b, index, changed) == IF index # NoIndex THEN index ELSE Scan(b)

(* Incremental reindexing: rows of untouched shards come from the verified *)
(* startup index.                                                          *)
Reindex(b, index, changed) ==
    IF changed = {} /\ index # NoIndex /\ Present(b) # {} THEN index
    ELSE IF index = NoIndex \/ Present(b) = {} THEN Scan(b)
    ELSE [s \in Shards |-> IF s \in changed THEN b[s] ELSE index[s]]

(* YearChanges: what the run's stage changes of its baseline. *)
Changes(w, b, index) ==
    LET changed == {s \in Present(b) : w.reset \/ b[s] # w.warcs[s]}
    IN  [reset |-> w.reset, warcs |-> changed,
         bytes |-> [s \in Shards |-> IF s \in changed THEN b[s] ELSE <<>>],
         index |-> IF w.reset \/ index # w.index THEN index ELSE NoIndex,
         delete |-> IF w.reset THEN Present(canon) \ Present(b) ELSE {}]

(* The state of a new stage; offset 0 stands for a shard with no entry. *)
FreshState(r) ==
    [binding |-> r.binding, warcs |-> canon, index |-> canonIndex,
     reset |-> r.mode = "reset", durable |-> [s \in Shards |-> 0],
     initialized |-> FALSE]

Sizes(b) == [s \in Shards |-> Len(b[s])]
Checkpointed(w, sizes) == [w EXCEPT !.durable = sizes]
Initialized(w) == [w EXCEPT !.initialized = TRUE]

(* What YearStage.__init__ demands of an existing stage. *)
Resumable(w, binding) ==
    /\ w # None
    /\ w.binding = binding
    /\ w.warcs = canon /\ w.index = canonIndex

(***************************************************************************)
(* Opening a run: Start takes the archive lock; YearStage.recover finishes *)
(* a promotion whose ready.json is installed before anything else happens. *)
(***************************************************************************)
Init ==
    /\ \E b \in [Shards -> {<<>>} \cup {<<c>> : c \in Captures}] :
          /\ Present(b) \in {{}, {1}}
          /\ canon = b
          /\ canonIndex \in {NoIndex, Scan(b)}
    /\ dir = FALSE /\ stage = Empty /\ linked = {} /\ stageIndex = NoIndex
    /\ work = None /\ ready = None
    /\ pc = "idle" /\ after = "idle" /\ run = NoRun
    /\ state = None /\ todo = {} /\ written = {}
    /\ crashes = 0

(* Process memory at the end of a run, however it ends. *)
Forget ==
    /\ after' = "idle" /\ run' = NoRun /\ state' = None /\ todo' = {} /\ written' = {}

(* Broken variant: a run does not look for an installed ready.json. *)
StartForgetful(mode, target, binding) ==
    /\ pc = "idle"
    /\ mode = "sync" => ready # None
    /\ run' = [mode |-> mode, target |-> target, binding |-> binding]
    /\ after' = IF mode = "sync" THEN "idle" ELSE "open"
    /\ pc' = after'
    /\ UNCHANGED <<disk, state, todo, written, crashes>>

(* A manual sync touches the stage only to finish a promotion. *)
Start(mode, target, binding) ==
    /\ pc = "idle"
    /\ mode = "sync" => ready # None
    /\ run' = [mode |-> mode, target |-> target, binding |-> binding]
    /\ after' = IF mode = "sync" THEN "idle" ELSE "open"
    /\ pc' = IF ready # None THEN "unlink" ELSE after'
    /\ UNCHANGED <<disk, state, todo, written, crashes>>

(* reset: discard the unfinished stage first *)
OpenReset ==
    /\ pc = "open" /\ run.mode = "reset" /\ dir
    /\ after' = "open" /\ pc' = "rmtree"
    /\ UNCHANGED <<disk, run, state, todo, written, crashes>>

OpenResume ==
    /\ pc = "open" /\ run.mode = "fetch" /\ dir
    /\ Resumable(work, run.binding)
    /\ state' = work
    /\ pc' = IF work.initialized THEN "inventory" ELSE "seed"
    /\ UNCHANGED <<disk, after, run, todo, written, crashes>>

(* Year refused: the stage is preserved and the run goes on without it. *)
OpenRefused ==
    /\ pc = "open" /\ run.mode = "fetch" /\ dir
    /\ ~Resumable(work, run.binding)
    /\ pc' = "idle" /\ Forget
    /\ UNCHANGED <<disk, crashes>>

OpenFresh ==
    /\ pc = "open" /\ ~dir
    /\ dir' = TRUE /\ pc' = "hash"
    /\ UNCHANGED <<canonical, stageFiles, work, ready, memory, crashes>>

(* Hash the canonical year, then install work.json. *)
SaveFresh ==
    /\ pc = "hash"
    /\ state' = FreshState(run)
    /\ work' = state' /\ pc' = "seed"
    /\ UNCHANGED <<canonical, dir, stageFiles, ready, after, run, todo, written, crashes>>

(***************************************************************************)
(* _seed_baseline                                                          *)
(***************************************************************************)
Seeded == \A s \in Present(state.warcs) : stage[s] # <<>>

(* A hard link; where that fails, a copy.  A stop in the middle of a copy  *)
(* leaves what SeedRefused refuses, as it does for the index below.        *)
SeedShard(s) ==
    /\ pc = "seed" /\ ~state.reset
    /\ s \in Present(state.warcs) /\ stage[s] = <<>>
    /\ stage' = [stage EXCEPT ![s] = canon[s]]
    /\ linked' \in {linked, linked \cup {s}}
    /\ UNCHANGED <<canonical, dir, stageIndex, work, ready, pc, memory, crashes>>

(* The index is copied, not linked: the target exists before it is whole. *)
SeedIndex ==
    /\ pc = "seed" /\ ~state.reset /\ Seeded
    /\ state.index # NoIndex /\ stageIndex = NoIndex
    /\ stageIndex' = Partial /\ pc' = "copying"
    /\ UNCHANGED <<canonical, dir, stage, linked, work, ready, memory, crashes>>

SeedIndexCopied ==
    /\ pc = "copying"
    /\ stageIndex' = canonIndex /\ pc' = "seed"
    /\ UNCHANGED <<canonical, dir, stage, linked, work, ready, memory, crashes>>

(* Every baseline file already in the stage must match its signature. *)
SeedMatches ==
    /\ \A s \in Present(state.warcs) : stage[s] = state.warcs[s]
    /\ state.index # NoIndex => stageIndex = state.index

SeedFiles == {s \in Present(state.warcs) : stage[s] # <<>>}

SeedRefused ==
    /\ pc = "seed" /\ ~state.reset
    /\ \/ \E s \in SeedFiles : stage[s] # state.warcs[s]
       \/ Seeded /\ state.index # NoIndex /\ stageIndex \notin {NoIndex, state.index}
    /\ pc' = "idle" /\ Forget
    /\ UNCHANGED <<disk, crashes>>

SeedDone ==
    /\ pc = "seed"
    /\ ~state.reset => SeedMatches
    /\ state' = Initialized(IF state.reset THEN state
                            ELSE Checkpointed(state, Sizes(state.warcs)))
    /\ work' = state' /\ pc' = "inventory"
    /\ UNCHANGED <<canonical, dir, stageFiles, ready, after, run, todo, written, crashes>>

(***************************************************************************)
(* Acquisition: inventory, then one checkpoint per URL group.              *)
(***************************************************************************)
(* Broken variant: checkpointed offsets are not checked on resume. *)
NeverShortened == FALSE

(* A checkpointed shard is missing or shorter than its checkpoint. *)
Shortened == \E s \in Shards : Len(stage[s]) < state.durable[s]

InventoryRefused ==
    /\ pc = "inventory" /\ Shortened
    /\ pc' = "idle" /\ Forget
    /\ UNCHANGED <<disk, crashes>>

(* prepare_inventory: checkpoint recovered bytes, install a fresh index. *)
Inventory ==
    /\ pc = "inventory" /\ ~Shortened
    /\ state' = Checkpointed(state, Sizes(stage))
    /\ work' = state'
    /\ stageIndex' = Scan(stage)
    /\ pc' = "discover"
    /\ UNCHANGED <<canonical, dir, stage, linked, ready, after, run, todo, written, crashes>>

(* The source selects captures; the mutable tail is detached when one of   *)
(* them is new.  Known captures are never acquired again.                  *)
Discover(selected) ==
    /\ pc = "discover"
    /\ todo' = selected \ Listed(stageIndex)
    /\ linked' = IF todo' = {} THEN linked ELSE DetachTail(linked, stage, run.target)
    /\ pc' = "acquire"
    /\ UNCHANGED <<canonical, dir, stage, stageIndex, work, ready,
                   after, run, state, written, crashes>>

(* Append one resolved capture to the tail shard.  A URL group has one or  *)
(* several captures; the checkpoint comes after the last of them.          *)
Acquire(c, s) ==
    /\ pc \in {"acquire", "checkpoint"} /\ c \in todo
    /\ IsTail(stage, run.target, s)
    /\ stage' = Append1(stage, s, c)
    /\ canon' = IF s \in linked THEN Append1(canon, s, c) ELSE canon
    /\ todo' = todo \ {c} /\ written' = written \cup {s}
    /\ pc' = "checkpoint"
    /\ UNCHANGED <<canonIndex, dir, linked, stageIndex, work, ready,
                   after, run, state, crashes>>

Checkpoint ==
    /\ pc = "checkpoint"
    /\ state' = Checkpointed(state, [s \in Shards |->
                    IF s \in written THEN Len(stage[s]) ELSE state.durable[s]])
    /\ work' = state' /\ pc' = "acquire"
    /\ UNCHANGED <<canonical, dir, stageFiles, ready, after, run, todo, written, crashes>>

(* What is left of todo failed at the source. *)
FinishAcquire ==
    /\ pc = "acquire" /\ pc' = "prepare"
    /\ todo' = {}
    /\ UNCHANGED <<disk, after, run, state, written, crashes>>

PrepareCommit ==
    /\ pc = "prepare"
    /\ stageIndex' = Reindex(stage, stageIndex, written)
    /\ pc' = "commit"
    /\ UNCHANGED <<canonical, dir, stage, linked, work, ready, memory, crashes>>

(***************************************************************************)
(* commit and _promote                                                     *)
(***************************************************************************)
ChangesNow == Changes(state, stage, stageIndex)
NoArtifacts(m) == m.warcs = {} /\ m.index = NoIndex

(* commit's own checkpoint rewrites work.json with the offsets the last    *)
(* checkpoint already saved.                                               *)
CommitNothing ==
    /\ pc = "commit" /\ ~state.reset /\ NoArtifacts(ChangesNow)
    /\ after' = "idle" /\ pc' = "rmtree"
    /\ UNCHANGED <<disk, run, state, todo, written, crashes>>

CommitReady ==
    /\ pc = "commit" /\ (state.reset \/ ~NoArtifacts(ChangesNow))
    /\ ready' = ChangesNow
    /\ after' = "idle" /\ pc' = "unlink"
    /\ UNCHANGED <<canonical, dir, stageFiles, work, run, state, todo, written, crashes>>

(* Broken variants: the old index stays in place; a recovery removes the   *)
(* index an earlier try already installed.                                 *)
NoUnlink ==
    /\ pc = "unlink" /\ pc' = "warcs"
    /\ UNCHANGED <<disk, memory, crashes>>
AlwaysUnlink ==
    /\ pc = "unlink" /\ pc' = "warcs"
    /\ canonIndex' = IF ready.reset THEN NoIndex ELSE canonIndex
    /\ UNCHANGED <<canon, dir, stageFiles, work, ready, memory, crashes>>

(* A replacement hides the old index before any of its bytes go; a later   *)
(* recovery that finds the new index already installed leaves it alone.    *)
PromoteUnlink ==
    /\ pc = "unlink" /\ pc' = "warcs"
    /\ canonIndex' = IF ready.reset /\ (ready.index = NoIndex \/ stageIndex # NoIndex)
                     THEN NoIndex ELSE canonIndex
    /\ UNCHANGED <<canon, dir, stageFiles, work, ready, memory, crashes>>

Staged(s) == stage[s] # <<>>
StagedIndex == stageIndex # NoIndex

(* A shard is installed from the stage, or was already by an earlier try. *)
Promoted(s) == ~Staged(s) /\ canon[s] = ready.bytes[s]

PromoteShard(s) ==
    /\ pc = "warcs" /\ s \in ready.warcs /\ Staged(s)
    /\ \A r \in ready.warcs : r < s => Promoted(r)
    /\ stage[s] = ready.bytes[s]
    /\ canon' = [canon EXCEPT ![s] = stage[s]]
    /\ stage' = [stage EXCEPT ![s] = <<>>]
    /\ linked' = linked \ {s}
    /\ UNCHANGED <<canonIndex, dir, stageIndex, work, ready, pc, memory, crashes>>

PromoteShardsDone ==
    /\ pc = "warcs" /\ \A s \in ready.warcs : Promoted(s)
    /\ pc' = IF ready.index = NoIndex THEN "delete" ELSE "index"
    /\ UNCHANGED <<disk, memory, crashes>>

PromoteIndex ==
    /\ pc = "index"
    /\ IF StagedIndex
       THEN /\ stageIndex = ready.index
            /\ canonIndex' = stageIndex /\ stageIndex' = NoIndex
       ELSE /\ canonIndex = ready.index
            /\ UNCHANGED <<canonIndex, stageIndex>>
    /\ pc' = "delete"
    /\ UNCHANGED <<canon, dir, stage, linked, work, ready, memory, crashes>>

PromoteDelete(s) ==
    /\ pc = "delete" /\ s \in ready.delete /\ canon[s] # <<>>
    /\ canon' = [canon EXCEPT ![s] = <<>>]
    /\ UNCHANGED <<canonIndex, dir, stageFiles, work, ready, pc, memory, crashes>>

PromoteDone ==
    /\ pc = "delete" /\ \A s \in ready.delete : canon[s] = <<>>
    /\ pc' = "rmtree"
    /\ UNCHANGED <<disk, memory, crashes>>

(***************************************************************************)
(* shutil.rmtree removes entries one at a time, in directory order, which  *)
(* the code does not choose; the directory itself goes last.               *)
(***************************************************************************)
RemoveFile ==
    /\ pc = "rmtree"
    /\ \/ work # None /\ work' = None /\ UNCHANGED <<ready, stageFiles>>
       \/ ready # None /\ ready' = None /\ UNCHANGED <<work, stageFiles>>
       \/ /\ stageIndex # NoIndex /\ stageIndex' = NoIndex
          /\ UNCHANGED <<work, ready, stage, linked>>
       \/ \E s \in Present(stage) :
             /\ stage' = [stage EXCEPT ![s] = <<>>] /\ linked' = linked \ {s}
             /\ UNCHANGED <<work, ready, stageIndex>>
    /\ UNCHANGED <<canonical, dir, pc, memory, crashes>>

RemoveDirectory ==
    /\ pc = "rmtree"
    /\ work = None /\ ready = None /\ stage = Empty /\ stageIndex = NoIndex
    /\ dir' = FALSE /\ pc' = after
    /\ IF after = "idle" THEN Forget ELSE UNCHANGED memory
    /\ UNCHANGED <<canonical, stageFiles, work, ready, crashes>>

(* SIGKILL, Ctrl-C or a raised exception: unfinished work is retained. *)
Crash ==
    /\ pc # "idle" /\ crashes < MaxCrashes
    /\ crashes' = crashes + 1
    /\ pc' = "idle" /\ Forget
    /\ UNCHANGED disk

Promotion ==
    \/ PromoteUnlink \/ PromoteShardsDone \/ PromoteIndex \/ PromoteDone
    \/ \E s \in Shards : PromoteShard(s) \/ PromoteDelete(s)

Opening == OpenReset \/ OpenResume \/ OpenRefused \/ OpenFresh \/ SaveFresh

Seeding ==
    \/ SeedIndex \/ SeedIndexCopied \/ SeedRefused \/ SeedDone
    \/ \E s \in Shards : SeedShard(s)

Acquisition ==
    \/ InventoryRefused \/ Inventory \/ Checkpoint \/ FinishAcquire
    \/ \E selected \in SUBSET Captures : Discover(selected)
    \/ \E c \in Captures, s \in Shards : Acquire(c, s)

Committing == PrepareCommit \/ CommitNothing \/ CommitReady

Removal == RemoveFile \/ RemoveDirectory

ProcessStep == Opening \/ Seeding \/ Acquisition \/ Committing \/ Promotion \/ Removal

StartAny == \E mode \in Modes, t \in Targets, b \in Bindings : Start(mode, t, b)

Next == StartAny \/ ProcessStep \/ Crash

Spec == Init /\ [][Next]_vars

(* A running process keeps going, and an operator keeps starting runs. *)
Fairness == WF_vars(ProcessStep) /\ WF_vars(StartAny)
FairSpec == Spec /\ Fairness

----------------------------------------------------------------------------
(***************************************************************************)
(* Properties                                                              *)
(***************************************************************************)

(* Every variable holds a value the code can give it. *)
TypeOK ==
    /\ canon \in Bytes /\ canonIndex \in Bytes \cup {NoIndex}
    /\ dir \in BOOLEAN
    /\ stage \in Bytes /\ linked \subseteq Shards
    /\ stageIndex \in Bytes \cup {NoIndex, Partial}
    /\ work \in WorkStates \cup {None} /\ ready \in Manifests \cup {None}
    /\ pc \in Steps /\ after \in {"idle", "open"}
    /\ run \in Runs /\ state \in WorkStates \cup {None}
    /\ todo \subseteq Captures /\ written \subseteq Shards
    /\ crashes \in 0..MaxCrashes

(* The canonical CDXJ never lists a record whose bytes are not in the      *)
(* canonical shard at that place: not while shards are replaced one by one, *)
(* not after a crash between two of them, not while a replacement deletes  *)
(* the old shards.  (_promote, l.334-369)                                  *)
Honest(index, bytes) ==
    index # NoIndex => \A s \in Shards : IsPrefix(index[s], bytes[s])
IndexHonest == Honest(canonIndex, canon)

(* Acquisition never writes to a canonical file, hard links or not:        *)
(* canonical data changes in promotion steps only.  (prepare_mutable_tail) *)
CanonicalPrivate == [][UNCHANGED canonical \/ pc \in PromotionSteps]_vars

(* Between runs, with no promotion pending, the canonical index lists all  *)
(* of the canonical bytes, or is missing as it was before the first commit *)
(* of the year: no commit leaves captures stored but unlisted.             *)
IndexComplete ==
    pc = "idle" /\ ready = None => canonIndex \in {NoIndex, canon}

(* Once ready.json is installed, its promotion is finished by this run or  *)
(* a later one, however often it is interrupted: whatever the crash point, *)
(* recovery finds each file staged or installed and never raises "cannot   *)
(* recover promoted ...".  (recover, l.54-74)                              *)
PromotionCompletes == ready # None ~> ready = None

(***************************************************************************)
(* What a reader of the year can retrieve: records that are listed and     *)
(* whose bytes are where the index says; and the decision a ready.json     *)
(* stands for.  Seen this way the transaction is YearCatalog's.            *)
(***************************************************************************)
Readable ==
    IF canonIndex = NoIndex THEN {}
    ELSE UNION {{canonIndex[s][i] : i \in
            {j \in 1..Len(canonIndex[s]) :
                j <= Len(canon[s]) /\ canon[s][j] = canonIndex[s][j]}} : s \in Shards}

Decision ==
    IF ready = None THEN None
    ELSE [replace |-> ready.reset,
          catalog |-> IF ready.reset \/ ready.index # NoIndex
                      THEN Listed(ready.index) ELSE Listed(canonIndex)]

Catalog == INSTANCE YearCatalog WITH
    Records <- Captures, served <- Readable, decided <- Decision, Nothing <- None

(* The staged transaction implements the atomic one. *)
ImplementsCatalog == Catalog!Spec
=============================================================================
