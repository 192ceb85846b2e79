---------------------------- MODULE RemoteIndex -----------------------------
(***************************************************************************)
(* Navigator's index of one archive (remote.py, store.py, the refresh loop *)
(* of catalog.py) against a bucket Fetch publishes to and resets: a        *)
(* listing, page by page; the changed annual indexes, fetched if they are  *)
(* still the listed ones and checked against the listed WARCs; annual      *)
(* cache files replaced one by one, then the merged snapshot playback      *)
(* reads; and, when that fails at startup, the cached files.               *)
(***************************************************************************)
EXTENDS Naturals, FiniteSets

CONSTANTS
    N,             (* bound: years of the archive                          *)
    MaxRows,       (* bound: additions to the years of one build            *)
    MaxResets,     (* bound: resets of the archive                         *)
    MaxFaults,     (* bound: requests or file operations that fail, stops  *)
    Absent, FromCache (* no object; a cached index whose ETag is not known    *)

Years == 1..N
(* A year's WARCs, or the index over them: which build, and how many rows. *)
Contents == [gen : 0..MaxResets, rows : 1..MaxRows]
Objects == Contents \cup {Absent}
NoYears == [y \in Years |-> Absent]

ASSUME RemoteAssumption ==
    /\ N \in Nat \ {0} /\ MaxRows \in Nat \ {0} /\ MaxResets \in Nat /\ MaxFaults \in Nat
    /\ Absent \notin Contents /\ FromCache \notin Objects

VARIABLES
    warc, index, gen,        \* the bucket, and the build being published
    annual, mergedIndex,        \* cache files; the merged snapshot
    served, accepted,        \* entry.archive is loaded; _states
    step, listed, seenWarc, seenIndex,  \* listing in progress: objects passed, what they were
    todo, staged,            \* indexes to fetch; fetched ones
    faults, checked          \* history: faults; indexes found within their listed WARCs

archiveObjects == <<warc, index, gen>>
disk == <<annual, mergedIndex>>
listing == <<listed, seenWarc, seenIndex>>
staging == <<todo, staged>>
indexVars == <<archiveObjects, disk, served, accepted, step, listing, staging, faults, checked>>
navigator == <<disk, served, accepted, step, listing, staging, faults, checked>>

Present(f) == {y \in Years : f[y] # Absent}

IndexInit ==
    /\ warc = NoYears /\ index = NoYears /\ gen = 0
    /\ annual = NoYears /\ mergedIndex = NoYears
    /\ served = FALSE /\ accepted = NoYears
    /\ step = "idle" /\ listed = 0 /\ seenWarc = NoYears /\ seenIndex = NoYears
    /\ todo = {} /\ staged = NoYears
    /\ faults = 0 /\ checked = {}

(***************************************************************************)
(* The bucket: Publication's order, a year's WARCs before its index        *)
(***************************************************************************)
Old(f) == {y \in Present(f) : f[y].gen < gen}
Purged == Old(warc) = {} /\ Old(index) = {}

Additions == {a \in Years \X (1..MaxRows) : a[1] \in Present(warc) /\ a[2] <= warc[a[1]].rows}

UploadWarc(y) ==
    /\ Purged /\ Cardinality(Additions) < MaxRows
    /\ warc' = [warc EXCEPT ![y] = [gen |-> gen, rows |-> IF @ = Absent THEN 1 ELSE @.rows + 1]]
    /\ UNCHANGED <<index, gen, navigator>>

UploadIndex(y) ==
    /\ Purged /\ warc[y] # Absent /\ index' = [index EXCEPT ![y] = warc[y]]
    /\ UNCHANGED <<warc, gen, navigator>>

Reset ==
    /\ Purged /\ gen < MaxResets /\ gen' = gen + 1
    /\ UNCHANGED <<warc, index, navigator>>

(* rclone deletes the objects of the old build in any order. *)
Delete ==
    /\ \/ \E y \in Old(warc) : warc' = [warc EXCEPT ![y] = Absent] /\ UNCHANGED index
       \/ \E y \in Old(index) : index' = [index EXCEPT ![y] = Absent] /\ UNCHANGED warc
    /\ UNCHANGED <<gen, navigator>>

(***************************************************************************)
(* One refresh                                                             *)
(***************************************************************************)
RefreshIndex ==
    /\ step = "idle" /\ step' = "list"
    /\ UNCHANGED <<archiveObjects, disk, served, accepted, listing, staging, faults, checked>>

(* The end of a refresh, or of the process: what it had in memory is gone. *)
Done ==
    /\ step' = "idle" /\ listed' = 0 /\ seenWarc' = NoYears /\ seenIndex' = NoYears
    /\ todo' = {} /\ staged' = NoYears

(* Objects are listed in the order of their names: a year's WARCs, then    *)
(* its index; another page may be another time.                            *)
ListPage ==
    /\ step = "list" /\ listed < 2 * N
    /\ \E last \in (listed + 1)..(2 * N) :
          /\ listed' = last
          /\ seenWarc' = [y \in Years |-> IF 2 * y - 1 \in (listed + 1)..last THEN warc[y] ELSE seenWarc[y]]
          /\ seenIndex' = [y \in Years |-> IF 2 * y \in (listed + 1)..last THEN index[y] ELSE seenIndex[y]]
    /\ UNCHANGED <<archiveObjects, disk, served, accepted, step, staging, faults, checked>>

Changed == {y \in Present(seenIndex) : served => accepted[y] # seenIndex[y]}

(* A poll with nothing changed is over; a load needs some collection. *)
Discover ==
    /\ step = "list" /\ listed = 2 * N /\ Changed # {}
    /\ todo' = Changed /\ step' = "stage"
    /\ UNCHANGED <<archiveObjects, disk, served, accepted, listing, staged, faults, checked>>

NothingNew ==
    /\ step = "list" /\ listed = 2 * N /\ Changed = {} /\ served
    /\ Done
    /\ UNCHANGED <<archiveObjects, disk, served, accepted, faults, checked>>

(* get_object with IfMatch *)
Matches(y) == index[y] = seenIndex[y]

(* Broken variant: locators are not checked against the listing. *)
AnyRange(y) == TRUE

(* _validate_index: every locator lies within a listed WARC. *)
WithinWarcs(y) == seenWarc[y] # Absent /\ seenIndex[y].rows <= seenWarc[y].rows

Stage(y) ==
    /\ step = "stage" /\ y \in todo /\ Matches(y) /\ WithinWarcs(y)
    /\ staged' = [staged EXCEPT ![y] = seenIndex[y]] /\ todo' = todo \ {y}
    /\ checked' = IF seenWarc[y] # Absent /\ seenIndex[y].rows <= seenWarc[y].rows
                  THEN checked \cup {<<y, seenIndex[y]>>} ELSE checked
    /\ UNCHANGED <<archiveObjects, disk, served, accepted, step, listing, faults>>

(* Broken variant: only what was listed is merged. *)
AcceptedListed == Present(seenIndex)

(* Never remove a collection accepted earlier in the session. *)
Accepted == Present(seenIndex) \cup (IF served THEN Present(accepted) ELSE {})

(* publish_indexes merges the accepted indexes into a temporary file, the  *)
(* staged ones as staged, replaces the annual files, then the snapshot.    *)
PublishIndexes ==
    /\ step = "stage" /\ todo = {} /\ step' = "replace"
    /\ UNCHANGED <<archiveObjects, disk, served, accepted, listing, staging, faults, checked>>

ReplaceAnnual(y) ==
    /\ step = "replace" /\ staged[y] # Absent
    /\ annual' = [annual EXCEPT ![y] = staged[y]] /\ staged' = [staged EXCEPT ![y] = Absent]
    /\ UNCHANGED <<archiveObjects, mergedIndex, served, accepted, step, listing, todo, faults, checked>>

(* The merge was made of what the annual files are by now. *)
ReplaceSnapshot ==
    /\ step = "replace" /\ staged = NoYears
    /\ mergedIndex' = [y \in Years |-> IF y \in Accepted THEN annual[y] ELSE Absent]
    /\ accepted' = [y \in Years |-> IF seenIndex[y] # Absent THEN seenIndex[y]
                                    ELSE IF served THEN accepted[y] ELSE Absent]
    /\ served' = TRUE /\ Done
    /\ UNCHANGED <<archiveObjects, annual, faults, checked>>

(***************************************************************************)
(* Failures                                                                *)
(***************************************************************************)
(* What the bucket itself makes fail. *)
Refuses ==
    \/ step = "stage" /\ \E y \in todo : ~Matches(y) \/ ~WithinWarcs(y)
    \/ step = "list" /\ listed = 2 * N /\ Changed = {} /\ ~served

(* Broken variant: a cached index is taken for the listed one. *)
TrustCached ==
    /\ accepted' = [y \in Years |-> IF annual[y] = Absent THEN Absent
                                    ELSE IF seenIndex[y] # Absent THEN seenIndex[y] ELSE FromCache]
    /\ mergedIndex' = IF mergedIndex = NoYears THEN annual ELSE mergedIndex
    /\ served' = TRUE

(* load_archive: serve what is cached; the merged file is the last version *)
(* accepted for playback.                                                  *)
Fallback ==
    /\ accepted' = [y \in Years |-> IF annual[y] = Absent THEN Absent ELSE FromCache]
    /\ mergedIndex' = IF mergedIndex = NoYears THEN annual ELSE mergedIndex
    /\ served' = TRUE

Fail ==
    /\ step \in {"list", "stage", "replace"} /\ Done
    /\ \/ Refuses /\ UNCHANGED faults
       \/ faults < MaxFaults /\ faults' = faults + 1
    /\ IF ~served /\ annual # NoYears THEN Fallback ELSE UNCHANGED <<served, accepted, mergedIndex>>
    /\ UNCHANGED <<archiveObjects, annual, checked>>

Restart ==
    /\ faults < MaxFaults /\ faults' = faults + 1
    /\ served' = FALSE /\ accepted' = NoYears /\ Done
    /\ UNCHANGED <<archiveObjects, disk, checked>>

IndexStep ==
    \/ RefreshIndex \/ ListPage \/ Discover \/ NothingNew \/ PublishIndexes \/ ReplaceSnapshot
    \/ \E y \in Years : Stage(y) \/ ReplaceAnnual(y)
    \/ Refuses /\ Fail

IndexNext ==
    \/ IndexStep \/ Fail \/ Restart \/ Reset \/ Delete
    \/ \E y \in Years : UploadWarc(y) \/ UploadIndex(y)

IndexSpec == IndexInit /\ [][IndexNext]_indexVars

(* The refresh loop goes on, and a reset of the bucket is finished. *)
FairIndexSpec == IndexSpec /\ WF_indexVars(IndexStep) /\ WF_indexVars(Delete)

----------------------------------------------------------------------------
(***************************************************************************)
(* Properties                                                              *)
(***************************************************************************)

(* Playback never reads an annual index that was not found within its      *)
(* WARCs in the listing it was accepted from, also not through a half      *)
(* finished replacement, a restart and the cached fallback.                *)
Checked == \A y \in Present(mergedIndex) : <<y, mergedIndex[y]>> \in checked

(* remote.py:117 "Never remove a previously accepted annual collection     *)
(* during a running session", whatever listings, failures and resets.      *)
Kept == [][served /\ served' => Present(mergedIndex) \subseteq Present(mergedIndex')]_indexVars

(* When the bucket comes to rest with every listed index within its WARCs, *)
(* playback catches up with it, whatever failed or stopped half way.       *)
CatchesUp == <>[](\A y \in Present(index) : mergedIndex[y] = index[y])
============================================================================
