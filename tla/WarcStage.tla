----------------------------- MODULE WarcStage -----------------------------
(***************************************************************************)
(* Acquisition inside one open stage, down to what storage keeps: WARC     *)
(* members appended by write_captures.py, the checkpoint of each URL group *)
(* (stage_year.py), and what the startup scan (scan_warcs.py,              *)
(* prepare_inventory) makes of the bytes an interruption left.             *)
(*                                                                         *)
(* A shard is a sequence of gzip members: Info, the leading warcinfo;      *)
(* captures; Torn, an incomplete last member.  Its size is its length, and *)
(* a Torn member is short of a whole one.  A kill keeps the page cache; a  *)
(* power loss keeps, of each shard, some prefix no shorter than what was   *)
(* synced, and perhaps not even the name when its directory was not.       *)
(* YearStage has the rest of the transaction, over whole captures.         *)
(***************************************************************************)
EXTENDS Naturals, Sequences, FiniteSets, SequencesExt

CONSTANTS
    Captures,        (* captures the source offers                         *)
    MaxShards,       (* bound: highest shard sequence number               *)
    Targets,         (* shard size targets, in members, a run may be given *)
    MaxStops,        (* bound: kills, power losses and failed writes       *)
    Info, Torn, Absent

Shards == 1..MaxShards
Members == Captures \cup {Info, Torn}

ASSUME WarcBoundsAssumption ==
    /\ MaxShards \in Nat \ {0} /\ MaxStops \in Nat
    /\ Targets \subseteq Nat \ {0, 1}
    /\ Info \notin Captures /\ Torn \notin Captures /\ Info # Torn
    /\ Absent \notin Seq(Members)

VARIABLES
    file,        \* the shards as a process reads them
    synced,      \* per shard, how many of its members are on the disk
    entry,       \* shards whose directory entry is on the disk
    linked,      \* shards that are still hard links to canonical files
    durable,     \* work.json: checkpointed size of each shard, 0 for none
    baseline,    \* work.json: shards of the canonical baseline
    index,       \* captures the staged CDXJ lists
    pc, target, paths, todo, group, touched,
    resume,      \* where a checkpoint returns to
    stops,
    spilled      \* did a power loss find two shards with unsynced bytes?

storage == <<file, synced, entry, linked>>
work == <<durable, baseline>>
memory == <<target, paths, todo, group, touched, resume>>
vars == <<storage, work, index, pc, memory, stops, spilled>>

Exists == {s \in Shards : file[s] # Absent}
Size(s) == IF file[s] = Absent THEN 0 ELSE Len(file[s])
IsTorn(s) == Size(s) > 0 /\ file[s][Size(s)] = Torn
Stored(f, upTo) ==
    Captures \cap UNION {{f[s][i] : i \in 1..upTo[s]} : s \in {r \in Shards : f[r] # Absent}}
Sizes == [s \in Shards |-> Size(s)]
Newest == Max(Exists)

(* The shard the writer appends to: the last one below the target, else a  *)
(* new one after it.                                                       *)
IsTail(s) ==
    IF Exists = {} THEN s = 1
    ELSE s = IF Size(Newest) < target THEN Newest ELSE Newest + 1

(***************************************************************************)
(* An initialized stage: empty, or with one canonical shard, linked in or, *)
(* where the file system has no hard links, copied.                        *)
(***************************************************************************)
Init ==
    /\ baseline \in {{}, {1}}
    /\ \E c \in Captures :
          file = [s \in Shards |-> IF s \in baseline THEN <<Info, c>> ELSE Absent]
    /\ synced = Sizes /\ entry = baseline /\ linked \in {{}, baseline}
    /\ durable = Sizes /\ index = Stored(file, Sizes)
    /\ pc = "idle" /\ target \in Targets /\ paths = {} /\ todo = {} /\ group = {}
    /\ touched = {} /\ resume = "idle" /\ stops = 0 /\ spilled = FALSE

Forget ==
    /\ paths' = {} /\ todo' = {} /\ group' = {} /\ touched' = {} /\ resume' = "idle"
    /\ UNCHANGED target

(* A run resumes the stage, perhaps with another shard target. *)
Open(t) ==
    /\ pc = "idle" /\ pc' = "scan" /\ target' = t
    /\ UNCHANGED <<storage, work, index, paths, todo, group, touched, resume, stops, spilled>>

(***************************************************************************)
(* prepare_inventory: strict scan, tail repair, recovery checkpoint.       *)
(***************************************************************************)
Missing == \E s \in Shards : Size(s) < durable[s]

(* Only the last shard, and only when it is private, may be repaired. *)
Repairable(s) == s = Newest /\ s \notin linked

Captured(s) == {i \in 1..Size(s) : file[s][i] \in Captures}
Whole(s) == IF IsTorn(s) THEN Front(file[s]) ELSE file[s]

ScanRefused ==
    /\ pc = "scan"
    /\ Missing \/ \E s \in Exists : IsTorn(s) /\ ~Repairable(s)
    /\ pc' = "refused" /\ Forget
    /\ UNCHANGED <<storage, work, index, stops, spilled>>

(* Broken variants: a torn tail only ends the run; cut back to the         *)
(* checkpoint.                                                             *)
LeaveTorn(s) ==
    /\ pc = "scan" /\ ~Missing
    /\ s \in Exists /\ IsTorn(s) /\ Repairable(s)
    /\ pc' = "idle" /\ Forget
    /\ UNCHANGED <<storage, work, index, stops, spilled>>
CutToCheckpoint(s) ==
    /\ pc = "scan" /\ ~Missing
    /\ s \in Exists /\ IsTorn(s) /\ Repairable(s)
    /\ file' = [file EXCEPT ![s] = SubSeq(@, 1, durable[s])]
    /\ synced' = [synced EXCEPT ![s] = durable[s]]
    /\ UNCHANGED <<entry, linked, work, index, pc, memory, stops, spilled>>

(* Truncate the incomplete member and sync the file. *)
Repair(s) ==
    /\ pc = "scan" /\ ~Missing
    /\ s \in Exists /\ IsTorn(s) /\ Repairable(s)
    /\ file' = [file EXCEPT ![s] = Whole(s)]
    /\ synced' = [synced EXCEPT ![s] = Len(Whole(s))]
    /\ UNCHANGED <<entry, linked, work, index, pc, memory, stops, spilled>>

Scanned ==
    /\ pc = "scan" /\ ~Missing
    /\ \A s \in Exists : ~IsTorn(s)
    /\ pc' = "tidy"
    /\ UNCHANGED <<storage, work, index, memory, stops, spilled>>

Empty == {s \in Exists : Captured(s) = {}}

(* An empty shard is the debris of a crash only if it was never checkpointed. *)
Removable(s) == Repairable(s) /\ durable[s] = 0 /\ s \notin baseline

TidyRefused ==
    /\ pc = "tidy" /\ \E s \in Empty : ~Removable(s)
    /\ pc' = "refused" /\ Forget
    /\ UNCHANGED <<storage, work, index, stops, spilled>>

(* unlink, then sync_directory *)
TidyRemove(s) ==
    /\ pc = "tidy" /\ Empty = {s} /\ Removable(s)
    /\ file' = [file EXCEPT ![s] = Absent]
    /\ synced' = [synced EXCEPT ![s] = 0] /\ entry' = entry \ {s}
    /\ paths' = {r \in Exists \ {s} : Size(r) > durable[r]}
    /\ pc' = "sync" /\ resume' = "install"
    /\ UNCHANGED <<linked, work, index, target, todo, group, touched, stops, spilled>>

(* Broken variant: install the index before the recovered bytes are synced. *)
InstallEarly ==
    /\ pc = "tidy" /\ Empty = {}
    /\ index' = Stored(file, Sizes)
    /\ paths' = {r \in Exists : Size(r) > durable[r]}
    /\ pc' = "sync" /\ resume' = "install"
    /\ UNCHANGED <<storage, work, target, todo, group, touched, stops, spilled>>

Tidy ==
    /\ pc = "tidy" /\ Empty = {}
    /\ paths' = {r \in Exists : Size(r) > durable[r]}
    /\ pc' = "sync" /\ resume' = "install"
    /\ UNCHANGED <<storage, work, index, target, todo, group, touched, stops, spilled>>

(* The index of the scanned view replaces whatever index the stage had. *)
Install ==
    /\ pc = "install"
    /\ index' = Stored(file, Sizes)
    /\ pc' = "discover"
    /\ UNCHANGED <<storage, work, memory, stops, spilled>>

(***************************************************************************)
(* checkpoint(paths): sync the shards, the directory, then work.json.      *)
(***************************************************************************)
SyncShard(s) ==
    /\ pc = "sync" /\ s \in paths /\ synced[s] < Size(s)
    /\ synced' = [synced EXCEPT ![s] = Size(s)]
    /\ UNCHANGED <<file, entry, linked, work, index, pc, memory, stops, spilled>>

(* Broken variant: new directory entries are not synced. *)
SkipSyncDirectory ==
    /\ pc = "sync" /\ \A s \in paths : synced[s] = Size(s)
    /\ pc' = "save"
    /\ UNCHANGED <<storage, work, index, memory, stops, spilled>>

SyncDirectory ==
    /\ pc = "sync" /\ paths # {} /\ \A s \in paths : synced[s] = Size(s)
    /\ entry' = Exists /\ pc' = "save"
    /\ UNCHANGED <<file, synced, linked, work, index, memory, stops, spilled>>

(* Broken variant: only the shards of this checkpoint are recorded. *)
SaveOnlyThese ==
    /\ pc = "save"
    /\ durable' = [s \in Shards |-> IF s \in paths THEN Size(s) ELSE 0]
    /\ pc' = resume /\ paths' = {}
    /\ UNCHANGED <<storage, baseline, index, target, todo, group, touched, resume, stops, spilled>>

Save ==
    /\ pc = "save"
    /\ durable' = [s \in Shards |-> IF s \in paths THEN Size(s) ELSE durable[s]]
    /\ pc' = resume /\ paths' = {}
    /\ UNCHANGED <<storage, baseline, index, target, todo, group, touched, resume, stops, spilled>>

(* No path, nothing to record. *)
NoCheckpoint ==
    /\ pc = "sync" /\ paths = {} /\ pc' = resume
    /\ UNCHANGED <<storage, work, index, memory, stops, spilled>>

(***************************************************************************)
(* Acquisition, one URL group after the other.                             *)
(***************************************************************************)
(* Broken variant: retained captures are acquired again. *)
DiscoverAll ==
    /\ pc = "discover"
    /\ todo' = Captures /\ pc' = "group"
    /\ linked' = IF todo' = {} THEN linked ELSE {s \in linked : ~IsTail(s)}
    /\ UNCHANGED <<file, synced, entry, work, index, target, paths, group, touched, resume,
                   stops, spilled>>

(* New captures: the mutable tail is first detached by a synced copy. *)
Discover ==
    /\ pc = "discover"
    /\ todo' = Captures \ index /\ pc' = "group"
    /\ linked' = IF todo' = {} THEN linked ELSE {s \in linked : ~IsTail(s)}
    /\ UNCHANGED <<file, synced, entry, work, index, target, paths, group, touched, resume,
                   stops, spilled>>

(* The next group's captures; none of them when all failed at the source. *)
NextGroup(urls, resolved) ==
    /\ pc = "group" /\ urls # {} /\ urls \subseteq todo /\ resolved \subseteq urls
    /\ todo' = todo \ urls /\ group' = resolved
    /\ pc' = "append"
    /\ UNCHANGED <<storage, work, index, target, paths, touched, resume, stops, spilled>>

(* stream.write: the member is incomplete until the write has returned. *)
BeginWrite(s) ==
    /\ pc = "append" /\ group # {} /\ IsTail(s)
    /\ file' = [file EXCEPT ![s] = IF s \in Exists THEN Append(@, Torn) ELSE <<Torn>>]
    /\ pc' = "writing"
    /\ UNCHANGED <<synced, entry, linked, work, index, memory, stops, spilled>>

(* A new shard starts with its warcinfo; a shard that got a capture is touched. *)
EndWrite(c) ==
    /\ pc = "writing" /\ c \in group
    /\ LET member == IF Size(Newest) = 1 THEN Info ELSE c
       IN  /\ file' = [file EXCEPT ![Newest] = Append(Front(@), member)]
           /\ group' = group \ {member}
           /\ touched' = IF member = Info THEN touched ELSE touched \cup {Newest}
    /\ pc' = "append"
    /\ UNCHANGED <<synced, entry, linked, work, index, target, paths, todo, resume, stops, spilled>>

(* A failed write is rolled back; the year ends and its stage is kept. *)
FailWrite ==
    /\ pc = "writing" /\ stops < MaxStops
    /\ stops' = stops + 1
    /\ file' = [file EXCEPT ![Newest] = Front(@)]
    /\ pc' = "idle" /\ Forget
    /\ UNCHANGED <<synced, entry, linked, work, index, spilled>>

(* Broken variant: the group's earlier shard is not in the checkpoint. *)
EndGroupLastOnly ==
    /\ pc = "append" /\ group = {}
    /\ touched' = {} /\ paths' = IF touched = {} THEN {} ELSE {Newest}
    /\ pc' = "sync" /\ resume' = "group"
    /\ UNCHANGED <<storage, work, index, target, todo, group, stops, spilled>>

(* The group is whole: checkpoint every shard it touched. *)
EndGroup ==
    /\ pc = "append" /\ group = {}
    /\ paths' = touched /\ touched' = {}
    /\ pc' = "sync" /\ resume' = "group"
    /\ UNCHANGED <<storage, work, index, target, todo, group, stops, spilled>>

(* Nothing left to acquire: prepare_commit indexes what was written. *)
Finish ==
    /\ pc = "group" /\ todo = {}
    /\ index' = Stored(file, Sizes)
    /\ pc' = "done"
    /\ UNCHANGED <<storage, work, memory, stops, spilled>>

(***************************************************************************)
(* Interruptions                                                           *)
(***************************************************************************)
Running == pc \notin {"idle", "done", "refused"}

Kill ==
    /\ Running /\ stops < MaxStops
    /\ stops' = stops + 1 /\ pc' = "idle" /\ Forget
    /\ UNCHANGED <<storage, work, index, spilled>>

Unsynced == {s \in Exists : s \notin entry \/ synced[s] < Size(s)}

(* What a power loss may leave of an unsynced shard. *)
Survivors(s) ==
    {SubSeq(file[s], 1, n) : n \in synced[s]..Size(s)}
    \cup {Append(SubSeq(file[s], 1, n), Torn) : n \in synced[s]..(Size(s) - 1)}
    \cup IF s \in entry THEN {} ELSE {Absent}

PowerLoss ==
    /\ stops < MaxStops /\ pc \notin {"done", "refused"}
    /\ stops' = stops + 1
    /\ \E left \in [Unsynced -> UNION {Survivors(s) : s \in Unsynced}] :
          /\ \A s \in Unsynced : left[s] \in Survivors(s)
          /\ file' = [s \in Shards |-> IF s \in Unsynced THEN left[s] ELSE file[s]]
          /\ entry' = {s \in Exists : file'[s] # Absent}
          /\ synced' = [s \in Shards |-> IF s \in entry' THEN Len(file'[s]) ELSE 0]
    /\ spilled' = (spilled \/ Cardinality(Unsynced) > 1)
    /\ pc' = "idle" /\ Forget
    /\ UNCHANGED <<linked, work, index>>

Recovery ==
    \/ ScanRefused \/ Scanned \/ TidyRefused \/ Tidy \/ Install
    \/ \E s \in Shards : Repair(s) \/ TidyRemove(s)

Checkpointing ==
    \/ SyncDirectory \/ Save \/ NoCheckpoint
    \/ \E s \in Shards : SyncShard(s)

Acquisition ==
    \/ Discover \/ EndGroup \/ Finish
    \/ \E urls \in SUBSET todo : \E resolved \in SUBSET urls : NextGroup(urls, resolved)
    \/ \E s \in Shards : BeginWrite(s)
    \/ \E c \in group : EndWrite(c)

OpenAny == \E t \in Targets : Open(t)

Next == OpenAny \/ Recovery \/ Checkpointing \/ Acquisition \/ FailWrite \/ Kill \/ PowerLoss

Spec == Init /\ [][Next]_vars

(* The process keeps running, and an operator resumes an unfinished stage. *)
FairSpec == Spec /\ WF_vars(OpenAny \/ Recovery \/ Checkpointing \/ Acquisition)

----------------------------------------------------------------------------
(***************************************************************************)
(* Properties                                                              *)
(***************************************************************************)

(* Every variable holds a value the code can give it. *)
TypeOK ==
    /\ file \in [Shards -> Seq(Members) \cup {Absent}]
    /\ synced \in [Shards -> Nat] /\ \A s \in Shards : synced[s] <= Size(s)
    /\ entry \subseteq Exists /\ linked \subseteq baseline
    /\ durable \in [Shards -> Nat] /\ baseline \subseteq Shards
    /\ index \subseteq Captures
    /\ pc \in {"idle", "scan", "tidy", "sync", "save", "install", "discover",
               "group", "append", "writing", "done", "refused"}
    /\ target \in Targets /\ paths \subseteq Shards /\ todo \subseteq Captures
    /\ group \subseteq Captures /\ touched \subseteq Shards
    /\ resume \in {"idle", "install", "group"}
    /\ stops \in 0..MaxStops /\ spilled \in BOOLEAN

Checkpointed == Stored(file, durable)

(* work.json never records a byte, or a shard, a power loss could still    *)
(* take away; and whatever the staged index lists, and the resumed         *)
(* inventory therefore skips, is recorded there.  (checkpoint, l.241-256;  *)
(* prepare_inventory, l.225-227)                                           *)
CheckpointOnDisk ==
    \A s \in Shards : durable[s] > 0 => s \in entry /\ synced[s] >= durable[s]
InventoryDurable == index \subseteq Checkpointed
RecordsOnDisk == CheckpointOnDisk /\ InventoryDurable

(* Once a URL group is checkpointed its captures stay in the stage, at     *)
(* every kill, power loss, failed write and repair after it; and a         *)
(* complete capture that is not, of an interrupted group, is lost to a     *)
(* power loss only, never to recovery.  (scan_warcs.py l.111-114)          *)
CapturesKept ==
    [][ /\ Checkpointed \subseteq Checkpointed'
        /\ Stored(file, Sizes) \subseteq Stored(file', Sizes') \/ PowerLoss ]_vars

(* A stage no power loss caught with two shards unsynced is never refused: *)
(* a kill or a failed write at any step, or a power loss while the group   *)
(* was in one shard, leaves something the next run resumes.                *)
Resumable == pc = "refused" => spilled

(* No capture is stored twice, however a group was cut short and retried. *)
StoredOnce ==
    \A s, r \in Exists : \A i \in Captured(s), j \in Captured(r) :
        file[s][i] = file[r][j] => s = r /\ i = j

(* With finitely many interruptions the year is acquired or refused. *)
AcquisitionEnds == <>(pc \in {"done", "refused"})
============================================================================
