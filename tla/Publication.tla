---------------------------- MODULE Publication ----------------------------
(***************************************************************************)
(* The bucket lifecycle (pipeline/publication/storage.py) as the commands  *)
(* of run_application.py and run_fetch.py drive it: local files, the       *)
(* bucket, and the receipt .state/publication.json that binds pending      *)
(* uploads to an observed bucket.  One year's objects stand for all: the   *)
(* receipt treats every object alike.  A year's local promotion is one     *)
(* step here, because no command looks at the bucket before YearStage has  *)
(* finished it (YearStage models its steps).                               *)
(*                                                                         *)
(* A WARC or a discovery cache is the sequence of the writers that added   *)
(* to it; an index is, per WARC, the part it lists.  Equal bytes stand for *)
(* equal hashes and equal bucket signatures.                               *)
(***************************************************************************)
EXTENDS Naturals, Sequences, FiniteSets, SequencesExt

CONSTANTS
    Warcs, Index, Caches,    \* the objects of data/ and of discovery/
    Here, There,             \* this workstation; whoever else writes to the bucket
    MaxRecords,              \* bound: additions to one object
    MaxCrashes, MaxOutside,  \* bounds: interruptions; outside writes in one behaviour
    Absent, None             \* no such object or receipt entry; no generation

Data == Warcs \cup {Index}
Objects == Data \cup Caches
Records == Seq({Here, There})
Listings == [Warcs -> Records]
Contents == {Absent} \cup Listings \cup Records
Views == {v \in [Objects -> Contents] : \A f \in Objects :
             v[f] = Absent \/ v[f] \in (IF f = Index THEN Listings ELSE Records)}
Nothing == [f \in Objects |-> Absent]

ASSUME ObjectsAssumption ==
    /\ Index \notin Warcs /\ Index \notin Caches /\ Warcs \cap Caches = {}
    /\ Absent \notin Records \cup Listings
    /\ None \notin [previous : Views, files : Views] \cup Views

ASSUME BoundsAssumption ==
    MaxRecords \in Nat /\ MaxCrashes \in Nat /\ MaxOutside \in Nat

VARIABLES
    local, remote,                    \* files of this workstation; objects in the bucket
    baseline, pending, generation,    \* publication.json
    staging, ready,                   \* unfinished work on disk; an installed ready.json
    fetched,                          \* leftovers of a restore under .state/restore
    pc, command, seen, queue, after,  \* the command, caches it refreshed, its upload queue
    crashes, outside

receipt == <<baseline, pending, generation>>
stageDisk == <<staging, ready>>
process == <<command, seen, queue, after>>
counters == <<crashes, outside>>
vars == <<local, remote, receipt, stageDisk, fetched, pc, process, counters>>

Commands == {"fetch", "reset", "sync", "restore", "evict"}
Steps == {"idle", "recover", "generation", "failed", "preflight", "purge", "clear",
          "year", "cache", "acquire", "commit", "promote", "finish", "publish",
          "publishdata", "upload", "verify", "restore", "restoring", "evict", "evicting"}

(***************************************************************************)
(* What the code computes.                                                 *)
(***************************************************************************)
Has(view) == {f \in Objects : view[f] # Absent}
Stored(x) == IF x = Absent THEN <<>> ELSE x
Scan(view) == [w \in Warcs |-> Stored(view[w])]

(* Entries of new over those of view; entries of view outside keep.        *)
Updated(view, new) == [f \in Objects |-> IF new[f] # Absent THEN new[f] ELSE view[f]]
Only(view, keep) == [f \in Objects |-> IF f \in keep THEN view[f] ELSE Absent]

(* Every record the index lists is stored where the index says. *)
Honest(view) ==
    view[Index] # Absent => \A w \in Warcs : IsPrefix(view[Index][w], Stored(view[w]))

(* validate_local_archive: bytes need an index, an index needs bytes, and  *)
(* every locator lies inside its WARC.                                     *)
Valid(view) ==
    Has(view) \cap Data # {} =>
        view[Index] # Absent /\ Has(view) \cap Warcs # {} /\ Honest(view)

Listed(w) == local[Index] # Absent /\ local[Index][w] # <<>>

(* assert_remote_unchanged *)
RemoteUnchanged == remote = baseline

Unresolved == staging \/ Has(pending) # {} \/ generation # None

Init ==
    /\ local = Nothing /\ remote = Nothing
    /\ baseline = Nothing /\ pending = Nothing /\ generation = None
    /\ staging = FALSE /\ ready = None /\ fetched = FALSE
    /\ pc = "idle" /\ command = "sync" /\ seen = {} /\ queue = {} /\ after = "idle"
    /\ crashes = 0 /\ outside = 0

Start(c) ==
    /\ pc = "idle"
    /\ command' = c
    /\ pc' = IF c \in {"restore", "evict"} THEN c ELSE "recover"
    /\ UNCHANGED <<local, remote, receipt, stageDisk, fetched, seen, queue, after, counters>>

(* The command raises: its memory is gone, every file stays. *)
End ==
    /\ pc' = "idle"
    /\ queue' = {} /\ after' = "idle" /\ command' = "sync" /\ seen' = {}

(***************************************************************************)
(* Before anything else: YearStage.recover, recover_generation, preflight. *)
(***************************************************************************)
Promoted(files) == Updated(local, files)

Recover ==
    /\ pc = "recover"
    /\ IF ready = None THEN UNCHANGED <<local, stageDisk>>
       ELSE local' = Promoted(ready) /\ ready' = None /\ staging' = FALSE
    /\ pc' = "generation"
    /\ UNCHANGED <<remote, receipt, fetched, process, counters>>

(* recover_generation, called by preflight and by a year that failed. *)
Settling == pc \in {"generation", "failed"}
Settled == IF pc = "generation" THEN pc' = "preflight" /\ UNCHANGED process ELSE End

InPlace == \A f \in Has(generation.files) : local[f] = generation.files[f]
NeverStarted == \A f \in Has(generation.files) : local[f] = baseline[f]

GenerationInPlace ==
    /\ Settling /\ (generation # None => InPlace)
    /\ generation' = None
    /\ Settled
    /\ UNCHANGED <<local, remote, baseline, pending, stageDisk, fetched, counters>>

(* Broken variant: the intentions of the lost generation stay. *)
KeepIntentions ==
    /\ Settling /\ generation # None /\ ~InPlace /\ NeverStarted
    /\ generation' = None
    /\ Settled
    /\ UNCHANGED <<local, remote, baseline, pending, stageDisk, fetched, counters>>

GenerationNeverStarted ==
    /\ Settling /\ generation # None /\ ~InPlace /\ NeverStarted
    /\ pending' = generation.previous /\ generation' = None
    /\ Settled
    /\ UNCHANGED <<local, remote, baseline, stageDisk, fetched, counters>>

(* "incomplete local promotion; recover staging before publication" *)
GenerationRefused ==
    /\ Settling /\ generation # None /\ ~InPlace /\ ~NeverStarted
    /\ End
    /\ UNCHANGED <<local, remote, receipt, stageDisk, fetched, counters>>

(* Broken variant: a reset keeps the baseline of what it purges. *)
FullScope == Objects

(* preflight.  A reset looks at the discovery caches only. *)
Scope == IF command = "reset" THEN Caches ELSE Objects
Bucket == Only(remote, Scope)
Known == Only(baseline, Scope)
Intended == Only(pending, Scope)

(* Broken variant: a bucket object unlike the baseline is adopted. *)
AnyAcceptable(f) ==
    /\ local[f] # Absent
    /\ IF Known[f] = Bucket[f] THEN local[f] \in {Known[f], Intended[f]} ELSE TRUE

(* The bucket object is the baseline, or an upload that was not recorded.  *)
Acceptable(f) ==
    /\ local[f] # Absent
    /\ IF Known[f] = Bucket[f] THEN local[f] \in {Known[f], Intended[f]}
       ELSE /\ Known[f] # Absent => Intended[f] = Bucket[f]
            /\ local[f] = Bucket[f]

Adopted == {f \in Has(Bucket) : Known[f] # Bucket[f]}
StillPending == Only(Intended, Objects \ Adopted)

PreflightAccepts ==
    /\ Has(Known) \subseteq Has(Bucket)
    /\ \A f \in Has(Bucket) : Acceptable(f)
    /\ \A f \in Has(StillPending) : local[f] = StillPending[f]

Preflight ==
    /\ pc = "preflight" /\ PreflightAccepts
    /\ baseline' = Updated(Known, Bucket)
    /\ pending' = StillPending
    /\ pc' = CASE command = "fetch" -> "year" [] command = "reset" -> "purge"
               [] command = "sync" -> "publish"
    /\ UNCHANGED <<local, remote, generation, stageDisk, fetched, process, counters>>

PreflightRefused ==
    /\ pc = "preflight" /\ ~PreflightAccepts
    /\ End
    /\ UNCHANGED <<local, remote, receipt, stageDisk, fetched, counters>>

(***************************************************************************)
(* --reset-data: purge the bucket's data, then this workstation's.         *)
(***************************************************************************)
Purge(f) ==
    /\ pc = "purge" /\ f \in Data /\ remote[f] # Absent
    /\ remote' = [remote EXCEPT ![f] = Absent]
    /\ UNCHANGED <<local, receipt, stageDisk, fetched, pc, process, counters>>

ResetReceipt ==
    /\ pc = "purge" /\ \A f \in Data : remote[f] = Absent
    /\ baseline' = Only(baseline, Caches) /\ pending' = Only(pending, Caches)
    /\ pc' = "clear"
    /\ UNCHANGED <<local, remote, generation, stageDisk, fetched, process, counters>>

Clear ==
    /\ pc = "clear"
    /\ \/ \E f \in Data : /\ local[f] # Absent
                          /\ local' = [local EXCEPT ![f] = Absent]
                          /\ UNCHANGED staging
       \/ staging /\ staging' = FALSE /\ UNCHANGED local
    /\ UNCHANGED <<remote, receipt, ready, fetched, pc, process, counters>>

Cleared ==
    /\ pc = "clear" /\ ~staging /\ \A f \in Data : local[f] = Absent
    /\ pc' = "year"
    /\ UNCHANGED <<local, remote, receipt, stageDisk, fetched, process, counters>>

(***************************************************************************)
(* A year of a fetch: discovery, acquisition, the recorded generation.     *)
(***************************************************************************)
More(view, f, n) == Stored(view[f]) \o [i \in 1..n |-> Here]

(* The stage of the year exists from its first step on. *)
OpenStage ==
    /\ pc = "year" /\ pc' = "acquire" /\ staging' = TRUE
    /\ UNCHANGED <<local, remote, receipt, ready, fetched, process, counters>>

(* A fetch of other years only: this year's index is rebuilt when it is    *)
(* missing or does not list all of this year's WARCs.                      *)
ReconcileIndex ==
    /\ pc = "year" /\ command = "fetch"
    /\ local' = IF Has(local) \cap Warcs = {} THEN local
                ELSE [local EXCEPT ![Index] = Scan(local)]
    /\ End
    /\ UNCHANGED <<remote, receipt, stageDisk, fetched, counters>>

(* Discovery reuses a complete cache, or installs one that is new or newer *)
(* than the local one; a run has one catalog, so it does so once per cache. *)
UseCache(d) ==
    /\ pc = "acquire" /\ d \notin seen
    /\ \/ local[d] # Absent /\ UNCHANGED local
       \/ /\ Len(Stored(local[d])) < MaxRecords
          /\ local' = [local EXCEPT ![d] = More(local, d, 1)]
    /\ seen' = seen \cup {d} /\ queue' = {d} /\ pc' = "cache"
    /\ UNCHANGED <<remote, receipt, stageDisk, fetched, command, after, counters>>

(* publish_files: every intended hash is saved before the first upload. *)
Intend(files) == pending' = Updated(pending, Only(local, files))

PublishCache ==
    /\ pc = "cache" /\ RemoteUnchanged
    /\ Intend(queue)
    /\ after' = "acquire" /\ pc' = "upload"
    /\ UNCHANGED <<local, remote, baseline, generation, stageDisk, fetched,
                   command, seen, queue, counters>>

(* The artifacts a commit would install: grown shards, and an index of all *)
(* of them when it changed.                                                *)
Artifacts(growth) ==
    LET grown == [f \in Objects |-> IF f \in Warcs /\ growth[f] > 0
                                    THEN More(local, f, growth[f]) ELSE Absent]
        all == Promoted(grown)
        index == IF \E w \in Warcs : all[w] # Absent THEN Scan(all) ELSE Absent
    IN  [grown EXCEPT ![Index] = IF index = local[Index] THEN Absent ELSE index]

RecordGeneration(growth) ==
    /\ pc = "acquire" /\ RemoteUnchanged
    /\ \A w \in Warcs : Len(Stored(local[w])) + growth[w] <= MaxRecords
    /\ generation' = [previous |-> pending, files |-> Artifacts(growth)]
    /\ pending' = Updated(pending, Artifacts(growth))
    /\ pc' = "commit"
    /\ UNCHANGED <<local, remote, baseline, stageDisk, fetched, process, counters>>

(* Anything that raises before ready.json is installed: the year is        *)
(* abandoned, its stage kept, and its generation settled.                  *)
YearFails ==
    /\ pc \in {"year", "cache", "acquire", "commit"}
    /\ pc' = "failed" /\ queue' = {}
    /\ UNCHANGED <<local, remote, receipt, stageDisk, fetched, command, seen, after, counters>>

Commit ==
    /\ pc = "commit"
    /\ IF Has(generation.files) = {}
       THEN staging' = FALSE /\ pc' = "finish" /\ UNCHANGED ready
       ELSE ready' = generation.files /\ pc' = "promote" /\ UNCHANGED staging
    /\ UNCHANGED <<local, remote, receipt, fetched, process, counters>>

Promote ==
    /\ pc = "promote"
    /\ local' = Promoted(ready) /\ ready' = None /\ staging' = FALSE
    /\ pc' = "finish"
    /\ UNCHANGED <<remote, receipt, fetched, process, counters>>

(* A year without a single WARC has nothing to publish. *)
FinishGeneration ==
    /\ pc = "finish"
    /\ generation' = None
    /\ IF Has(local) \cap Warcs # {}
       THEN pc' = "publish" /\ UNCHANGED process
       ELSE End
    /\ UNCHANGED <<local, remote, baseline, pending, stageDisk, fetched, counters>>

(***************************************************************************)
(* publish: discovery first, then WARCs, then the index that lists them.   *)
(***************************************************************************)
Publishable ==
    /\ Valid(local)
    /\ \A w \in Warcs \cap Has(local) : Listed(w) \/ baseline[w] # Absent

CacheFiles == Caches \cap Has(local)
DataFiles == {f \in Data \cap Has(local) : f = Index \/ Listed(f)}

PublishBatch(files, next) ==
    /\ files # {} => RemoteUnchanged
    /\ Intend(files)
    /\ queue' = files /\ after' = next /\ pc' = "upload"
    /\ UNCHANGED <<local, remote, baseline, generation, stageDisk, fetched,
                   command, seen, counters>>

PublishCaches == pc = "publish" /\ Publishable /\ PublishBatch(CacheFiles, "publishdata")
PublishData == pc = "publishdata" /\ PublishBatch(DataFiles, "idle")

PublishRefused ==
    /\ pc = "publish"
    /\ ~Publishable \/ (Has(local) # {} /\ ~RemoteUnchanged)
    /\ End
    /\ UNCHANGED <<local, remote, receipt, stageDisk, fetched, counters>>

(* Broken variant: indexes and WARCs in any order. *)
AnyOrder(f) == TRUE

InOrder(f) == f = Index => queue = {Index}

Upload(f) ==
    /\ pc = "upload" /\ f \in queue /\ InOrder(f)
    /\ RemoteUnchanged /\ local[f] = pending[f] /\ baseline[f] # pending[f]
    /\ remote' = [remote EXCEPT ![f] = local[f]]
    /\ pc' = "verify"
    /\ UNCHANGED <<local, receipt, stageDisk, fetched, process, counters>>

Recorded(f) ==
    /\ pending' = [pending EXCEPT ![f] = Absent]
    /\ queue' = queue \ {f} /\ pc' = "upload"
    /\ UNCHANGED <<local, remote, generation, stageDisk, fetched,
                   command, seen, after, counters>>

Skip(f) ==
    /\ pc = "upload" /\ f \in queue /\ InOrder(f)
    /\ RemoteUnchanged /\ local[f] = pending[f] /\ baseline[f] = pending[f]
    /\ Recorded(f) /\ UNCHANGED baseline

(* Read the object back, then record it. *)
Verify(f) ==
    /\ pc = "verify" /\ f \in queue /\ InOrder(f)
    /\ remote[f] = pending[f] /\ baseline[f] # pending[f]
    /\ baseline' = [baseline EXCEPT ![f] = remote[f]]
    /\ Recorded(f)

Uploaded ==
    /\ pc = "upload" /\ queue = {}
    /\ IF after = "idle" THEN End ELSE pc' = after /\ after' = "idle" /\ UNCHANGED <<command, seen, queue>>
    /\ UNCHANGED <<local, remote, receipt, stageDisk, fetched, counters>>

(***************************************************************************)
(* --restore and --evict-local                                             *)
(***************************************************************************)
Restorable ==
    /\ ~Unresolved
    /\ Valid(remote)
    /\ \A f \in Has(remote) : local[f] \in {Absent, remote[f]}

Restore ==
    /\ pc = "restore"
    /\ IF Restorable THEN fetched' = TRUE /\ pc' = "restoring" /\ UNCHANGED process
       ELSE End /\ UNCHANGED fetched
    /\ UNCHANGED <<local, remote, receipt, stageDisk, counters>>

RestoreFile(f) ==
    /\ pc = "restoring" /\ remote[f] # Absent /\ local[f] = Absent
    /\ local' = [local EXCEPT ![f] = remote[f]]
    /\ UNCHANGED <<remote, receipt, stageDisk, fetched, pc, process, counters>>

Restored ==
    /\ pc = "restoring" /\ Has(remote) \subseteq Has(local)
    /\ baseline' = remote /\ pending' = Nothing /\ fetched' = FALSE
    /\ End
    /\ UNCHANGED <<local, remote, generation, stageDisk, counters>>

(* Broken variant: a bucket copy of the same name is good enough. *)
EvictableByName ==
    /\ ~Unresolved /\ ~fetched /\ Valid(local)
    /\ Has(local) \subseteq Has(remote)

Evictable ==
    /\ ~Unresolved /\ ~fetched /\ Valid(local)
    /\ \A f \in Has(local) : remote[f] = local[f]

Evict ==
    /\ pc = "evict"
    /\ IF Evictable THEN pc' = "evicting" /\ UNCHANGED process ELSE End
    /\ UNCHANGED <<local, remote, receipt, stageDisk, fetched, counters>>

(* rmtree of the output root, the receipt included, entry by entry. *)
EvictFile ==
    /\ pc = "evicting"
    /\ \/ \E f \in Has(local) : local' = [local EXCEPT ![f] = Absent] /\ UNCHANGED baseline
       \/ Has(baseline) # {} /\ baseline' = Nothing /\ UNCHANGED local
    /\ UNCHANGED <<remote, pending, generation, stageDisk, fetched, pc, process, counters>>

Evicted ==
    /\ pc = "evicting" /\ Has(local) = {} /\ Has(baseline) = {}
    /\ End
    /\ UNCHANGED <<local, remote, receipt, stageDisk, fetched, counters>>

Crash ==
    /\ pc # "idle" /\ crashes < MaxCrashes
    /\ crashes' = crashes + 1
    /\ End
    /\ UNCHANGED <<local, remote, receipt, stageDisk, fetched, outside>>

(***************************************************************************)
(* Somebody else adds to an object, replaces the index or deletes one.     *)
(* The single-writer rule keeps them away while a command compares the     *)
(* bucket with its receipt and acts on the answer; the hours a year is     *)
(* being acquired are when the code's own checks have to catch them.       *)
(***************************************************************************)
Outsider ==
    /\ pc \in {"idle", "year", "acquire"} /\ outside < MaxOutside
    /\ outside' = outside + 1
    /\ \E f \in Objects :
          /\ \/ f # Index /\ Len(Stored(remote[f])) < MaxRecords
                /\ remote' = [remote EXCEPT ![f] = Append(Stored(@), There)]
             \/ f = Index /\ remote' = [remote EXCEPT ![f] = Scan(remote)]
             \/ remote[f] # Absent /\ remote' = [remote EXCEPT ![f] = Absent]
    /\ UNCHANGED <<local, receipt, stageDisk, fetched, pc, process, crashes>>

Opening ==
    \/ Recover \/ GenerationInPlace \/ GenerationNeverStarted \/ GenerationRefused
    \/ Preflight \/ PreflightRefused
Resetting == (\E f \in Data : Purge(f)) \/ ResetReceipt \/ Clear \/ Cleared
Year ==
    \/ \E d \in Caches : UseCache(d)
    \/ ReconcileIndex \/ PublishCache \/ OpenStage \/ YearFails
    \/ \E growth \in [Warcs -> 0..MaxRecords] : RecordGeneration(growth)
    \/ Commit \/ Promote \/ FinishGeneration
Publishing ==
    \/ PublishCaches \/ PublishData \/ PublishRefused \/ Uploaded
    \/ \E f \in Objects : Upload(f) \/ Skip(f) \/ Verify(f)
Restoring == Restore \/ Restored \/ \E f \in Objects : RestoreFile(f)
Evicting == Evict \/ EvictFile \/ Evicted

CommandStep == Opening \/ Resetting \/ Year \/ Publishing \/ Restoring \/ Evicting

Next == (\E c \in Commands : Start(c)) \/ CommandStep \/ Crash \/ Outsider

Spec == Init /\ [][Next]_vars

(* A running command goes on, and somebody keeps asking for a sync. *)
FairSpec == Spec /\ WF_vars(CommandStep) /\ SF_vars(Start("sync"))

----------------------------------------------------------------------------
(* Properties *)

TypeOK ==
    /\ local \in Views /\ remote \in Views /\ baseline \in Views /\ pending \in Views
    /\ generation \in [previous : Views, files : Views] \cup {None}
    /\ staging \in BOOLEAN /\ ready \in Views \cup {None} /\ fetched \in BOOLEAN
    /\ pc \in Steps /\ command \in Commands /\ queue \subseteq Objects
    /\ seen \subseteq Caches /\ after \in {"idle", "acquire", "publishdata"}
    /\ crashes \in 0..MaxCrashes /\ outside \in 0..MaxOutside

(* As long as nobody else writes, the saved receipt tells the truth: an    *)
(* object it calls published is in the bucket as described, or is just     *)
(* being replaced by the bytes the receipt says are pending.               *)
ReceiptTruthful ==
    outside = 0 => \A f \in Has(baseline) : remote[f] \in {baseline[f], pending[f]} \ {Absent}

(* Whatever is interrupted and retried, this program never makes the       *)
(* published index list records that the published WARCs do not hold, a    *)
(* --reset-data purge excepted.  (publish: WARCs before the index)         *)
RemoteStaysHonest ==
    [][Honest(remote) /\ outside' = outside => Honest(remote') \/ pc = "purge"]_vars

(* An upload never destroys what somebody else added to an object: the     *)
(* bytes it replaces are a prefix of the bytes it puts there.              *)
NoLostUpdate ==
    [][outside' = outside /\ pc # "purge" =>
         \A f \in Objects \ {Index} : IsPrefix(Stored(remote[f]), Stored(remote'[f]))]_vars

(* This workstation's WARCs and caches only ever grow, unless the bucket   *)
(* has them or the user asked for a reset.                                 *)
NothingLost ==
    [][pc = "clear" \/ \A f \in Objects \ {Index} :
          \/ IsPrefix(Stored(local[f]), Stored(local'[f]))
          \/ remote[f] = local[f]]_vars

(* Three states no sync gets out of.  A generation recorded over an        *)
(* intention that was never uploaded, and lost before ready.json, can be   *)
(* neither finished nor dropped. *)
LostGeneration == generation # None /\ ~InPlace /\ ~NeverStarted /\ ready = None

(* A published or intended cache changed before its new hash was recorded. *)
UnrecordedCache ==
    \E d \in Caches : /\ local[d] \notin {baseline[d], pending[d]}
                      /\ baseline[d] # Absent \/ pending[d] # Absent

(* A reset died after it dropped the receipt entries of data/, either      *)
(* before it had purged the bucket or while it removed local data.         *)
HalfReset ==
    \/ \E f \in Data : remote[f] \notin {Absent, baseline[f], local[f]}
    \/ ~Valid(local)

(* What is pending reaches the bucket, if sync is retried and nobody else  *)
(* interferes, except from those three states.                             *)
PublicationCompletes ==
    Has(pending) # {} ~>
        \/ Has(pending) = {} \/ outside > 0
        \/ LostGeneration \/ UnrecordedCache \/ HalfReset

(* README.md:126 "Interrupted restore and publication operations can be    *)
(* retried.": without outside interference, no interruption makes every    *)
(* later sync fail.                                                        *)
Retryable ==
    outside = 0 /\ pc = "preflight" /\ Has(Bucket) \subseteq Has(local) => PreflightAccepts
RecoverGenerationSucceeds ==
    pc = "generation" /\ generation # None => InPlace \/ NeverStarted
============================================================================
