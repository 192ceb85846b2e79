-------------------------- MODULE WarcStageProofs --------------------------
EXTENDS WarcStage, FiniteSetTheorems, SequenceTheorems, WellFoundedInduction, TLAPS

(***************************************************************************)
(* WarcStage for every set of captures, number of shards, choice of        *)
(* targets and number of interruptions: what checkpoints promise, in       *)
(* particular across kills and power losses at any step.                   *)
(*                                                                         *)
(* The inductive invariant.  The properties are not inductive alone:       *)
(*   - a checkpoint covers what it should only because every shard with    *)
(*     unrecorded bytes is on its list, or on the list its group gathers   *)
(*     (Covered, PathsReady);                                              *)
(*   - an incomplete member lies after everything recorded (TornLast), so  *)
(*     that cutting it off loses nothing;                                  *)
(*   - captures still to be acquired are stored nowhere (Fresh);           *)
(*   - shards reach the disk in their order (SyncedInOrder), so that one   *)
(*     unsynced shard is the newest, the one a recovery may repair.        *)
(***************************************************************************)

Has(s) == \E i \in 1..Size(s) : file[s][i] \in Captures

(* Only the last member of a shard is incomplete, and it is not recorded. *)
TornLast ==
    \A s \in Exists : \A i \in 1..Size(s) : file[s][i] = Torn =>
        /\ i = Size(s) /\ durable[s] < i
        /\ pc \in {"idle", "scan", "refused"} \/ (pc = "writing" /\ s = Newest)

(* What is recorded of a shard holds a capture; canonical shards are.     *)
RecordedHold ==
    /\ \A s \in Shards : durable[s] > 0 => \E i \in 1..durable[s] : file[s][i] \in Captures
    /\ \A s \in baseline : durable[s] > 0

Unrecorded(s) == Size(s) > durable[s]

(* Whatever is not recorded yet is on the way to it.                      *)
Covered ==
    /\ pc \in {"sync", "save"} => \A s \in Exists : Unrecorded(s) => s \in paths
    /\ pc \in {"install", "discover", "group"} => \A s \in Exists : ~Unrecorded(s)
    /\ pc = "append" => \A s \in Exists : Unrecorded(s) =>
           s \in touched \/ (s = Newest /\ Size(s) = 1 /\ group # {})
    /\ pc = "writing" => \A s \in Exists : Unrecorded(s) => s \in touched \/ s = Newest

(* A checkpoint's shards hold captures, and are synced before it is saved. *)
PathsReady ==
    /\ \A s \in paths \cup touched : s \in Exists /\ Has(s)
    /\ pc \in {"sync", "save"} => resume \in {"install", "group"}
    /\ pc = "save" => \A s \in paths : s \in entry /\ synced[s] = Size(s)

(* What is still to be acquired is not stored.                            *)
Fresh ==
    /\ \A s \in Exists : \A i \in 1..Size(s) : file[s][i] \notin todo \cup group
    /\ todo \cap group = {}
    /\ pc = "discover" => Stored(file, Sizes) \subseteq index
    /\ pc \in {"idle", "scan", "tidy"} => todo = {}
    /\ pc \notin {"append", "writing"} => group = {}

(* A shard without a capture is the newest, and is about to get one.      *)
Started ==
    /\ pc \in {"sync", "save", "install", "discover", "group"} => \A s \in Exists : Has(s)
    /\ pc = "append" => \A s \in Exists : Has(s) \/ (s = Newest /\ Size(s) = 1 /\ group # {})
    /\ pc = "writing" => \A s \in Exists : Has(s) \/ (s = Newest /\ Size(s) <= 2)

(* The member being written is the last one of the newest shard.          *)
Writing ==
    pc = "writing" =>
        /\ Exists # {} /\ group # {} /\ IsTorn(Newest)
        /\ synced[Newest] < Size(Newest) /\ Newest \notin linked

(* Nothing is written through a link to a canonical shard.                *)
LinkedWhole ==
    /\ \A s \in linked : s \in entry /\ synced[s] = Size(s) /\ ~IsTorn(s)
    /\ todo # {} \/ group # {} => \A s \in linked : s # Newest \/ Size(s) >= target

(* No name on the disk is newer than bytes that are not.                  *)
SyncedInOrder ==
    \A s \in entry, r \in Exists : r < s => r \in entry /\ synced[r] = Size(r)

(* At most the newest shard needs a repair, unless two were caught unsynced. *)
OneLoose ==
    ~spilled =>
        /\ pc # "refused"
        /\ pc \in {"idle", "scan", "tidy"} =>
              \A s \in Exists : ~Has(s) \/ IsTorn(s) => s = Newest

IInv ==
    /\ TypeOK /\ RecordsOnDisk /\ StoredOnce
    /\ TornLast /\ RecordedHold /\ Covered /\ PathsReady /\ Fresh /\ Started
    /\ Writing /\ LinkedWhole /\ SyncedInOrder /\ OneLoose

LEMMA MaxOfShards ==
  ASSUME NEW S, S \subseteq Shards, S # {}
  PROVE  Max(S) \in S /\ \A s \in S : s <= Max(S)
<1>0. MaxShards \in Nat
  BY WarcBoundsAssumption
<1> DEFINE T == {MaxShards - s : s \in S}
<1>1. T \subseteq Nat /\ T # {}
  BY <1>0 DEF Shards
<1>2. PICK t \in T : \A u \in T : ~(u < t)
  <2>1. PICK t \in T : \A u \in T : <<u, t>> \notin OpToRel(<, Nat)
    BY <1>1, NatLessThanWellFounded, WFMin
  <2>2. QED BY <2>1, <1>1 DEF OpToRel
<1>3. PICK m \in S : t = MaxShards - m
  OBVIOUS
<1>4. m \in S /\ \A s \in S : s <= m
  <2> SUFFICES ASSUME NEW s \in S PROVE s <= m
    OBVIOUS
  <2>1. MaxShards - s \in T /\ s \in Shards /\ m \in Shards
    OBVIOUS
  <2>2. QED BY <2>1, <1>0, <1>2, <1>3 DEF Shards
<1>5. S \subseteq Nat
  BY DEF Shards
<1>6. \E x \in S : \A y \in S : x >= y
  BY <1>4, <1>5
<1> QED BY <1>6, <1>5 DEF Max

LEMMA SizeFacts ==
  ASSUME TypeOK, NEW s \in Shards
  PROVE  /\ Size(s) \in Nat
         /\ s \in Exists => file[s] \in Seq(Members) /\ Size(s) = Len(file[s])
         /\ s \notin Exists => file[s] = Absent /\ Size(s) = 0
BY DEF TypeOK, Size, Exists

LEMMA NewestFacts ==
  ASSUME Exists # {}
  PROVE  Newest \in Exists /\ Newest \in Shards /\ \A s \in Exists : s <= Newest
<1>1. Exists \subseteq Shards
  BY DEF Exists
<1>2. QED BY <1>1, MaxOfShards DEF Newest

LEMMA NewestIs ==
  ASSUME NEW n \in Exists, \A s \in Exists : s <= n
  PROVE  Newest = n
BY NewestFacts DEF Exists, Shards

LEMMA StoredIff ==
  ASSUME NEW f, NEW upTo, NEW x
  PROVE  x \in Stored(f, upTo) <=>
            x \in Captures /\ \E s \in Shards : f[s] # Absent /\ \E i \in 1..upTo[s] : f[s][i] = x
<1> DEFINE Of(s) == {f[s][i] : i \in 1..upTo[s]}
           R == {r \in Shards : f[r] # Absent}
           U == UNION {Of(s) : s \in R}
<1>1. Stored(f, upTo) = Captures \cap U
  BY DEF Stored
<1>2. x \in U <=> \E s \in R : x \in Of(s)
  <2> HIDE DEF Of, R
  <2> QED OBVIOUS
<1>3. \A s : x \in Of(s) <=> \E i \in 1..upTo[s] : f[s][i] = x
  OBVIOUS
<1>4. \A s : s \in R <=> s \in Shards /\ f[s] # Absent
  OBVIOUS
<1> HIDE DEF Of, R, U
<1>5. x \in Stored(f, upTo) <=> x \in Captures /\ \E s \in Shards : f[s] # Absent /\ x \in Of(s)
  BY <1>1, <1>2, <1>4
<1> QED BY <1>3, <1>5

LEMMA SameFile ==
  ASSUME UNCHANGED file
  PROVE  /\ Exists' = Exists /\ Newest' = Newest /\ Sizes' = Sizes
         /\ \A s \in Shards : /\ Size(s)' = Size(s) /\ IsTorn(s)' = IsTorn(s)
                              /\ Has(s)' = Has(s) /\ Captured(s)' = Captured(s)
BY DEF Exists, Newest, Sizes, Size, IsTorn, Has, Captured

LEMMA InitIInv == Init => IInv
<1> SUFFICES ASSUME Init PROVE IInv
  OBVIOUS
<1>0. MaxShards \in Nat \ {0} /\ MaxStops \in Nat /\ Targets \subseteq Nat \ {0, 1}
      /\ Info \notin Captures /\ Torn \notin Captures /\ Info # Torn /\ Absent \notin Seq(Members)
  BY WarcBoundsAssumption
<1>1. PICK c \in Captures : file = [s \in Shards |-> IF s \in baseline THEN <<Info, c>> ELSE Absent]
  BY DEF Init
<1>2. baseline \subseteq Shards /\ baseline \in {{}, {1}}
  BY <1>0 DEF Init, Shards
<1>3. /\ <<Info, c>> \in Seq(Members) /\ Len(<<Info, c>>) = 2
      /\ <<Info, c>>[1] = Info /\ <<Info, c>>[2] = c
  BY DEF Members
<1>4. /\ Exists = baseline
      /\ \A s \in Shards : Size(s) = IF s \in baseline THEN 2 ELSE 0
      /\ \A s \in baseline : file[s] = <<Info, c>>
      /\ Sizes \in [Shards -> Nat] /\ \A s \in Shards : Sizes[s] = Size(s)
  BY <1>0, <1>1, <1>2, <1>3 DEF Exists, Size, Sizes
<1>5. index \subseteq Captures /\ index = Stored(file, durable)
  BY StoredIff DEF Init
<1>6. TypeOK
  <2>1. file \in [Shards -> Seq(Members) \cup {Absent}]
    BY <1>1, <1>3
  <2>2. synced = Sizes /\ durable = Sizes /\ entry = Exists
    BY <1>4 DEF Init
  <2>3. /\ synced \in [Shards -> Nat] /\ \A s \in Shards : synced[s] <= Size(s)
        /\ durable \in [Shards -> Nat] /\ entry \subseteq Exists
    BY <1>4, <2>2
  <2>4. /\ linked \subseteq baseline /\ target \in Targets /\ paths = {} /\ todo = {} /\ group = {}
        /\ touched = {} /\ resume = "idle" /\ pc = "idle" /\ stops \in 0..MaxStops /\ spilled = FALSE
    BY <1>0 DEF Init
  <2> QED BY <1>2, <1>5, <2>1, <2>3, <2>4 DEF TypeOK
<1>7. RecordsOnDisk
  BY <1>0, <1>2, <1>4, <1>5 DEF Init, RecordsOnDisk, CheckpointOnDisk, InventoryDurable, Checkpointed
<1>8. StoredOnce
  BY <1>0, <1>2, <1>3, <1>4 DEF StoredOnce, Captured
<1>9. \A s \in Exists : Has(s) /\ ~IsTorn(s) /\ Size(s) = 2
  BY <1>0, <1>2, <1>3, <1>4 DEF Has, IsTorn
<1>10. TornLast /\ RecordedHold
  BY <1>0, <1>2, <1>3, <1>4 DEF Init, TornLast, RecordedHold
<1>11. Covered /\ PathsReady /\ Fresh /\ Started /\ Writing
  BY DEF Init, Covered, PathsReady, Fresh, Started, Writing
<1>12. LinkedWhole /\ SyncedInOrder /\ OneLoose
  BY <1>0, <1>2, <1>4, <1>9 DEF Init, LinkedWhole, SyncedInOrder, OneLoose
<1> QED BY <1>6, <1>7, <1>8, <1>10, <1>11, <1>12 DEF IInv

(* A step that leaves the storage and work.json alone keeps what is said   *)
(* of them only.                                                           *)
LEMMA SameStorage ==
  ASSUME IInv, UNCHANGED <<storage, work>>
  PROVE  /\ StoredOnce' /\ RecordedHold' /\ SyncedInOrder' /\ CheckpointOnDisk'
         /\ Checkpointed' = Checkpointed
<1> USE SameFile DEF storage, work
<1>1. StoredOnce'
  BY DEF IInv, StoredOnce, Exists
<1>2. RecordedHold'
  BY DEF IInv, RecordedHold
<1>3. SyncedInOrder'
  BY DEF IInv, SyncedInOrder, Exists, TypeOK
<1>4. CheckpointOnDisk'
  BY DEF IInv, RecordsOnDisk, CheckpointOnDisk
<1>5. Checkpointed' = Checkpointed
  BY DEF Checkpointed, Stored
<1> QED BY <1>1, <1>2, <1>3, <1>4, <1>5

LEMMA OpenKeeps ==
  ASSUME IInv, NEW t \in Targets, Open(t)
  PROVE  IInv'
<1>1. UNCHANGED <<storage, work>> /\ UNCHANGED file
  BY DEF Open, storage
<1>2. TypeOK'
  BY <1>1, SameFile DEF IInv, TypeOK, Open, storage, work, Exists
<1>3. RecordsOnDisk' /\ StoredOnce' /\ RecordedHold' /\ SyncedInOrder'
  BY <1>1, SameStorage DEF IInv, Open, RecordsOnDisk, InventoryDurable
<1>4. TornLast'
  BY <1>1, SameFile DEF IInv, TornLast, Open, work, Exists
<1>5. Covered' /\ PathsReady' /\ Fresh' /\ Started' /\ Writing'
  BY <1>1, SameFile DEF IInv, Open, Covered, PathsReady, Fresh, Started, Writing, Exists
<1>6. LinkedWhole' /\ OneLoose'
  BY <1>1, SameFile DEF IInv, Open, LinkedWhole, OneLoose, storage, Exists, TypeOK, Fresh
<1> QED BY <1>2, <1>3, <1>4, <1>5, <1>6 DEF IInv

LEMMA HasIff ==
  ASSUME NEW s
  PROVE  Captured(s) # {} <=> Has(s)
BY DEF Captured, Has

(* Sizes are ordered: recorded, synced, written. *)
LEMMA SizesOrdered ==
  ASSUME IInv, NEW s \in Shards
  PROVE  /\ Size(s) \in Nat /\ durable[s] \in Nat /\ synced[s] \in Nat
         /\ durable[s] <= synced[s] /\ synced[s] <= Size(s)
         /\ durable[s] > 0 => s \in Exists
BY SizeFacts DEF IInv, TypeOK, RecordsOnDisk, CheckpointOnDisk

LEMMA LinkedRecorded ==
  ASSUME IInv, NEW s \in baseline
  PROVE  s \in Exists /\ durable[s] > 0 /\ Has(s)
BY SizesOrdered DEF IInv, TypeOK, RecordedHold, Has

(* While a run goes on only the newest shard may be torn or without a      *)
(* capture, unless a power loss found two shards unsynced.                 *)
LEMMA LooseIsNewest ==
  ASSUME IInv, ~spilled, pc \notin {"done", "refused"}, NEW s \in Exists, ~Has(s) \/ IsTorn(s)
  PROVE  s = Newest
<1>1. s \in Shards /\ Size(s) \in Nat
  BY SizeFacts DEF IInv, Exists
<1>2. CASE pc \in {"idle", "scan", "tidy"}
  BY <1>2 DEF IInv, OneLoose
<1>3. CASE pc \notin {"idle", "scan", "tidy"} /\ IsTorn(s)
  BY <1>1, <1>3 DEF IInv, TornLast, IsTorn
<1>4. CASE pc \notin {"idle", "scan", "tidy"} /\ ~Has(s)
  BY <1>4 DEF IInv, Started, TypeOK
<1> QED BY <1>2, <1>3, <1>4

(* A run that stops, for whatever reason, with its storage as it is.       *)
LEMMA StopKeeps ==
  ASSUME IInv, UNCHANGED <<storage, work, index, spilled>>, Forget, stops' \in 0..MaxStops,
         \/ pc' = "idle" /\ pc \notin {"done", "refused"}
         \/ pc' = "refused" /\ spilled /\ pc \in {"scan", "tidy"}
  PROVE  IInv'
<1>1. UNCHANGED <<storage, work>> /\ UNCHANGED file
  BY DEF storage
<1>2. TypeOK'
  BY <1>1, SameFile DEF IInv, TypeOK, storage, work, Exists, Forget
<1>3. RecordsOnDisk' /\ StoredOnce' /\ RecordedHold' /\ SyncedInOrder'
  BY <1>1, SameStorage DEF IInv, RecordsOnDisk, InventoryDurable
<1>4. TornLast'
  <2>1. TornLast => \A s \in Exists : \A i \in 1..Size(s) : file[s][i] = Torn =>
                        /\ i = Size(s) /\ durable[s] < i
    BY DEF TornLast
  <2>2. CASE pc' = "idle"
    BY <1>1, <2>1, <2>2, SameFile DEF IInv, TornLast, work, Exists
  <2>3. CASE pc' = "refused"
    BY <1>1, <2>1, <2>3, SameFile DEF IInv, TornLast, work, Exists
  <2> QED BY <2>2, <2>3
<1>5. Covered' /\ PathsReady' /\ Fresh' /\ Started' /\ Writing'
  BY <1>1 DEF IInv, Forget, Covered, PathsReady, Fresh, Started, Writing
<1>6. LinkedWhole'
  BY <1>1, SameFile DEF IInv, LinkedWhole, storage, Forget, TypeOK, Exists
<1>7. OneLoose'
  BY <1>1, SameFile, LooseIsNewest DEF IInv, OneLoose, Exists
<1> QED BY <1>2, <1>3, <1>4, <1>5, <1>6, <1>7 DEF IInv

LEMMA KillKeeps ==
  ASSUME IInv, Kill
  PROVE  IInv'
<1>1. stops' \in 0..MaxStops
  BY WarcBoundsAssumption DEF IInv, TypeOK, Kill
<1> QED BY <1>1, StopKeeps DEF Kill, Running

LEMMA ScanRefusedKeeps ==
  ASSUME IInv, ScanRefused
  PROVE  IInv'
<1>1. ~Missing
  BY SizesOrdered DEF Missing
<1>2. PICK s \in Exists : IsTorn(s) /\ ~Repairable(s)
  BY <1>1 DEF ScanRefused
<1>3. s \notin linked
  BY <1>2 DEF IInv, LinkedWhole
<1>4. spilled
  BY <1>2, <1>3 DEF IInv, OneLoose, Repairable, ScanRefused, TypeOK
<1> QED BY <1>4, StopKeeps DEF ScanRefused, IInv, TypeOK

LEMMA TidyRefusedKeeps ==
  ASSUME IInv, TidyRefused
  PROVE  IInv'
<1>1. PICK s \in Empty : ~Removable(s)
  BY DEF TidyRefused
<1>2. s \in Exists /\ s \in Shards /\ ~Has(s)
  BY HasIff DEF Empty, Exists
<1>3. s \notin baseline /\ s \notin linked
  BY <1>2, LinkedRecorded DEF IInv, TypeOK
<1>4. durable[s] = 0
  BY <1>2, SizesOrdered DEF IInv, RecordedHold, Has
<1>5. spilled
  BY <1>1, <1>2, <1>3, <1>4 DEF IInv, OneLoose, Removable, Repairable, TidyRefused, TypeOK
<1> QED BY <1>5, StopKeeps DEF TidyRefused, IInv, TypeOK

LEMMA ScannedKeeps ==
  ASSUME IInv, Scanned
  PROVE  IInv'
<1>1. UNCHANGED <<storage, work>> /\ UNCHANGED file
  BY DEF Scanned, storage
<1>2. TypeOK'
  BY <1>1, SameFile DEF IInv, TypeOK, Scanned, storage, work, memory, Exists
<1>3. RecordsOnDisk' /\ StoredOnce' /\ RecordedHold' /\ SyncedInOrder'
  BY <1>1, SameStorage DEF IInv, Scanned, RecordsOnDisk, InventoryDurable
<1>4. TornLast'
  <2>1. \A s \in Exists : \A i \in 1..Size(s) : file[s][i] # Torn
    BY SizeFacts DEF IInv, TornLast, Scanned, IsTorn, Exists
  <2> QED BY <1>1, <2>1, SameFile DEF TornLast, Exists
<1>5. Covered' /\ PathsReady' /\ Fresh' /\ Started' /\ Writing'
  BY <1>1, SameFile DEF IInv, Scanned, memory, Covered, PathsReady, Fresh, Started, Writing, storage, work, Exists
<1>6. LinkedWhole' /\ OneLoose'
  BY <1>1, SameFile DEF IInv, LinkedWhole, OneLoose, storage, memory, Scanned, TypeOK, Exists
<1> QED BY <1>2, <1>3, <1>4, <1>5, <1>6 DEF IInv

LEMMA TidyKeeps ==
  ASSUME IInv, Tidy
  PROVE  IInv'
<1>1. UNCHANGED <<storage, work>> /\ UNCHANGED file
  BY DEF Tidy, storage
<1>2. TypeOK'
  BY <1>1, SameFile DEF IInv, TypeOK, Tidy, storage, work, Exists
<1>3. RecordsOnDisk' /\ StoredOnce' /\ RecordedHold' /\ SyncedInOrder'
  BY <1>1, SameStorage DEF IInv, Tidy, RecordsOnDisk, InventoryDurable
<1>4. TornLast'
  BY <1>1, SameFile DEF IInv, TornLast, Tidy, work, Exists
<1>5. \A s \in Exists : Has(s)
  BY HasIff DEF Tidy, Empty
<1>6. Covered' /\ PathsReady'
  BY <1>1, <1>5, SameFile DEF IInv, Tidy, work, Covered, PathsReady, Unrecorded, Exists
<1>7. Fresh' /\ Started' /\ Writing'
  BY <1>1, <1>5, SameFile DEF IInv, Tidy, Fresh, Started, Writing, Exists, TypeOK
<1>8. LinkedWhole' /\ OneLoose'
  BY <1>1, SameFile DEF IInv, Tidy, LinkedWhole, OneLoose, storage, Exists, TypeOK
<1> QED BY <1>2, <1>3, <1>4, <1>6, <1>7, <1>8 DEF IInv

(* When nothing is unrecorded, the checkpoint covers all that is stored.   *)
LEMMA AllRecorded ==
  ASSUME IInv, \A s \in Exists : ~Unrecorded(s)
  PROVE  Stored(file, Sizes) \subseteq Checkpointed
<1> SUFFICES ASSUME NEW x \in Stored(file, Sizes)
             PROVE  x \in Stored(file, durable)
  BY DEF Checkpointed
<1>1. PICK s \in Shards : x \in Captures /\ file[s] # Absent /\ \E i \in 1..Sizes[s] : file[s][i] = x
  BY StoredIff
<1>2. Sizes[s] = Size(s) /\ s \in Exists
  BY <1>1 DEF Sizes, Exists
<1>3. Size(s) <= durable[s] /\ Size(s) \in Nat /\ durable[s] \in Nat
  BY <1>2, SizesOrdered DEF Unrecorded
<1>4. \E i \in 1..durable[s] : file[s][i] = x
  BY <1>1, <1>2, <1>3
<1> QED BY <1>1, <1>4, StoredIff

(* Both indexes the code installs are of a fully recorded inventory.       *)
LEMMA InstallKeeps ==
  ASSUME IInv, Install
  PROVE  IInv'
<1>1. UNCHANGED <<storage, work>> /\ UNCHANGED file
  BY DEF Install, storage
<1>2. index' = Stored(file, Sizes) /\ index' \subseteq Captures
  BY StoredIff DEF Install
<1>3. index' \subseteq Checkpointed
  BY <1>2, AllRecorded DEF IInv, Covered, Install
<1>4. TypeOK'
  BY <1>1, <1>2, SameFile DEF IInv, TypeOK, Install, storage, work, memory, Exists
<1>5. RecordsOnDisk' /\ StoredOnce' /\ RecordedHold' /\ SyncedInOrder'
  BY <1>1, <1>3, SameStorage DEF IInv, RecordsOnDisk, InventoryDurable
<1>6. TornLast'
  BY <1>1, SameFile DEF IInv, TornLast, Install, work, Exists
<1>7. Covered' /\ PathsReady'
  BY <1>1, SameFile DEF IInv, Install, memory, work, Covered, PathsReady, Unrecorded, Exists
<1>8. Stored(file, Sizes)' = Stored(file, Sizes)
  BY <1>1, SameFile DEF Stored
<1>9. Fresh' /\ Started' /\ Writing'
  BY <1>1, <1>2, <1>8, SameFile DEF IInv, Install, memory, Fresh, Started, Writing, Exists, TypeOK
<1>10. LinkedWhole' /\ OneLoose'
  BY <1>1, SameFile DEF IInv, Install, memory, LinkedWhole, OneLoose, storage, Exists, TypeOK
<1> QED BY <1>4, <1>5, <1>6, <1>7, <1>9, <1>10 DEF IInv

LEMMA FinishKeeps ==
  ASSUME IInv, Finish
  PROVE  IInv'
<1>1. UNCHANGED <<storage, work>> /\ UNCHANGED file
  BY DEF Finish, storage
<1>2. index' = Stored(file, Sizes) /\ index' \subseteq Captures
  BY StoredIff DEF Finish
<1>3. index' \subseteq Checkpointed
  BY <1>2, AllRecorded DEF IInv, Covered, Finish
<1>4. TypeOK'
  BY <1>1, <1>2, SameFile DEF IInv, TypeOK, Finish, storage, work, memory, Exists
<1>5. RecordsOnDisk' /\ StoredOnce' /\ RecordedHold' /\ SyncedInOrder'
  BY <1>1, <1>3, SameStorage DEF IInv, RecordsOnDisk, InventoryDurable
<1>6. TornLast'
  BY <1>1, SameFile DEF IInv, TornLast, Finish, work, Exists
<1>7. Covered' /\ PathsReady'
  BY <1>1, SameFile DEF IInv, Finish, memory, work, Covered, PathsReady, Unrecorded, Exists
<1>8. Fresh' /\ Started' /\ Writing'
  BY <1>1, SameFile DEF IInv, Finish, memory, Fresh, Started, Writing, Exists, TypeOK
<1>9. LinkedWhole' /\ OneLoose'
  BY <1>1, SameFile DEF IInv, Finish, memory, LinkedWhole, OneLoose, storage, Exists, TypeOK
<1> QED BY <1>4, <1>5, <1>6, <1>7, <1>8, <1>9 DEF IInv

LEMMA NoCheckpointKeeps ==
  ASSUME IInv, NoCheckpoint
  PROVE  IInv'
<1>1. UNCHANGED <<storage, work>> /\ UNCHANGED file /\ pc' \in {"install", "group"}
  BY DEF NoCheckpoint, storage, IInv, PathsReady
<1>2. TypeOK'
  BY <1>1, SameFile DEF IInv, TypeOK, NoCheckpoint, storage, work, memory, Exists
<1>3. RecordsOnDisk' /\ StoredOnce' /\ RecordedHold' /\ SyncedInOrder'
  BY <1>1, SameStorage DEF IInv, NoCheckpoint, RecordsOnDisk, InventoryDurable
<1>4. TornLast'
  BY <1>1, SameFile DEF IInv, TornLast, NoCheckpoint, work, Exists
<1>5. Covered' /\ PathsReady'
  BY <1>1, SameFile DEF IInv, NoCheckpoint, memory, work, Covered, PathsReady, Unrecorded, Exists
<1>6. Fresh' /\ Started' /\ Writing'
  BY <1>1, SameFile DEF IInv, NoCheckpoint, memory, Fresh, Started, Writing, Exists, TypeOK
<1>7. LinkedWhole' /\ OneLoose'
  BY <1>1, SameFile DEF IInv, NoCheckpoint, memory, LinkedWhole, OneLoose, storage, Exists, TypeOK
<1> QED BY <1>2, <1>3, <1>4, <1>5, <1>6, <1>7 DEF IInv

LEMMA NextGroupKeeps ==
  ASSUME IInv, NEW urls, NEW resolved, NextGroup(urls, resolved)
  PROVE  IInv'
<1>1. UNCHANGED <<storage, work>> /\ UNCHANGED file
  BY DEF NextGroup, storage
<1>2. TypeOK'
  BY <1>1, SameFile DEF IInv, TypeOK, NextGroup, storage, work, Exists
<1>3. RecordsOnDisk' /\ StoredOnce' /\ RecordedHold' /\ SyncedInOrder'
  BY <1>1, SameStorage DEF IInv, NextGroup, RecordsOnDisk, InventoryDurable
<1>4. TornLast'
  BY <1>1, SameFile DEF IInv, TornLast, NextGroup, work, Exists
<1>5. Covered' /\ PathsReady'
  BY <1>1, SameFile DEF IInv, NextGroup, work, storage, Covered, PathsReady, Unrecorded, Exists
<1>6. Fresh' /\ Started' /\ Writing'
  BY <1>1, SameFile DEF IInv, NextGroup, Fresh, Started, Writing, Exists, TypeOK
<1>7. LinkedWhole' /\ OneLoose'
  BY <1>1, SameFile DEF IInv, NextGroup, LinkedWhole, OneLoose, storage, Exists, TypeOK
<1> QED BY <1>2, <1>3, <1>4, <1>5, <1>6, <1>7 DEF IInv

LEMMA EndGroupKeeps ==
  ASSUME IInv, EndGroup
  PROVE  IInv'
<1>1. UNCHANGED <<storage, work>> /\ UNCHANGED file
  BY DEF EndGroup, storage
<1>2. TypeOK'
  BY <1>1, SameFile DEF IInv, TypeOK, EndGroup, storage, work, Exists
<1>3. RecordsOnDisk' /\ StoredOnce' /\ RecordedHold' /\ SyncedInOrder'
  BY <1>1, SameStorage DEF IInv, EndGroup, RecordsOnDisk, InventoryDurable
<1>4. TornLast'
  BY <1>1, SameFile DEF IInv, TornLast, EndGroup, work, Exists
<1>5. Covered' /\ PathsReady'
  BY <1>1, SameFile DEF IInv, EndGroup, work, storage, Covered, PathsReady, Unrecorded, Exists
<1>6. Fresh' /\ Started' /\ Writing'
  BY <1>1, SameFile DEF IInv, EndGroup, Fresh, Started, Writing, Exists, TypeOK
<1>7. LinkedWhole' /\ OneLoose'
  BY <1>1, SameFile DEF IInv, EndGroup, LinkedWhole, OneLoose, storage, Exists, TypeOK
<1> QED BY <1>2, <1>3, <1>4, <1>5, <1>6, <1>7 DEF IInv

LEMMA SyncShardKeeps ==
  ASSUME IInv, NEW s \in Shards, SyncShard(s)
  PROVE  IInv'
<1>1. /\ UNCHANGED <<file, entry, linked, durable, baseline, index, pc, spilled>> /\ UNCHANGED memory
      /\ \A r \in Shards : synced'[r] = IF r = s THEN Size(s) ELSE synced[r]
      /\ synced' \in [Shards -> Nat] /\ UNCHANGED stops
  BY SizeFacts DEF SyncShard, work, IInv, TypeOK
<1>2. TypeOK'
  <2>1. \A r \in Shards : synced'[r] <= Size(r)'
    BY <1>1, SameFile, SizesOrdered
  <2> QED BY <1>1, <2>1, SameFile DEF IInv, TypeOK, memory, Exists
<1>3. CheckpointOnDisk'
  BY <1>1, SizesOrdered DEF IInv, RecordsOnDisk, CheckpointOnDisk
<1>4. RecordsOnDisk'
  BY <1>1, <1>3 DEF IInv, RecordsOnDisk, InventoryDurable, Checkpointed, Stored
<1>5. StoredOnce' /\ RecordedHold'
  BY <1>1, SameFile DEF IInv, StoredOnce, RecordedHold, Exists
<1>6. TornLast'
  BY <1>1, SameFile DEF IInv, TornLast, Exists
<1>7. Covered' /\ PathsReady'
  BY <1>1, SameFile DEF IInv, SyncShard, memory, Covered, PathsReady, Unrecorded, Exists
<1>8. Fresh' /\ Started' /\ Writing'
  BY <1>1, SameFile DEF IInv, SyncShard, memory, Fresh, Started, Writing, Exists, TypeOK
<1>9. LinkedWhole' /\ OneLoose'
  BY <1>1, SameFile DEF IInv, SyncShard, memory, LinkedWhole, OneLoose, Exists, TypeOK
<1>10. SyncedInOrder'
  BY <1>1, SameFile DEF IInv, SyncedInOrder, Exists, TypeOK
<1> QED BY <1>2, <1>4, <1>5, <1>6, <1>7, <1>8, <1>9, <1>10 DEF IInv

(* The directory is synced last, so its entries never run ahead of data.   *)
LEMMA SyncDirectoryKeeps ==
  ASSUME IInv, SyncDirectory
  PROVE  IInv'
<1>1. /\ UNCHANGED <<file, synced, linked, durable, baseline, index, spilled, stops>> /\ UNCHANGED memory
      /\ entry' = Exists /\ pc = "sync" /\ pc' = "save"
  BY DEF SyncDirectory, work
<1>2. TypeOK'
  BY <1>1, SameFile DEF IInv, TypeOK, memory, Exists
<1>3. RecordsOnDisk'
  BY <1>1, SizesOrdered
     DEF IInv, RecordsOnDisk, CheckpointOnDisk, InventoryDurable, Checkpointed, Stored
<1>4. StoredOnce' /\ RecordedHold'
  BY <1>1, SameFile DEF IInv, StoredOnce, RecordedHold, Exists
<1>5. TornLast'
  BY <1>1, SameFile DEF IInv, TornLast, Exists
<1>6. Covered' /\ PathsReady'
  BY <1>1, SameFile DEF IInv, SyncDirectory, memory, Covered, PathsReady, Unrecorded, Exists
<1>7. Fresh' /\ Started' /\ Writing'
  BY <1>1, SameFile DEF IInv, memory, Fresh, Started, Writing, Exists, TypeOK
<1>8. LinkedWhole' /\ OneLoose'
  BY <1>1, SameFile DEF IInv, memory, LinkedWhole, OneLoose, Exists, TypeOK
<1>9. \A r \in Exists : synced[r] = Size(r)
  <2> TAKE r \in Exists
  <2>1. r \in Shards
    BY DEF Exists
  <2>2. CASE r \in paths
    BY <2>2 DEF SyncDirectory
  <2>3. CASE r \notin paths
    BY <1>1, <2>1, <2>3, SizesOrdered DEF IInv, Covered, Unrecorded
  <2> QED BY <2>2, <2>3
<1>10. SyncedInOrder'
  BY <1>1, <1>9, SameFile DEF SyncedInOrder, Exists
<1> QED BY <1>2, <1>3, <1>4, <1>5, <1>6, <1>7, <1>8, <1>10 DEF IInv

LEMMA SaveKeeps ==
  ASSUME IInv, Save
  PROVE  IInv' /\ Checkpointed \subseteq Checkpointed'
<1>1. /\ UNCHANGED <<storage, baseline, index, target, todo, group, touched, resume, stops, spilled>>
      /\ UNCHANGED <<file, synced, entry, linked>>
      /\ pc = "save" /\ pc' = resume /\ pc' \in {"install", "group"} /\ paths' = {}
  BY DEF Save, storage, IInv, PathsReady
<1>2. /\ \A s \in Shards : durable'[s] = IF s \in paths THEN Size(s) ELSE durable[s]
      /\ durable' \in [Shards -> Nat]
  BY SizeFacts DEF Save, IInv, TypeOK
<1>3. \A s \in Shards : durable[s] <= durable'[s] /\ durable'[s] <= Size(s)
  BY <1>2, SizesOrdered
<1>4. TypeOK'
  BY <1>1, <1>2, SameFile DEF IInv, TypeOK, Exists
<1>5. CheckpointOnDisk'
  BY <1>1, <1>2 DEF IInv, RecordsOnDisk, CheckpointOnDisk, PathsReady, TypeOK
<1>6. Checkpointed \subseteq Checkpointed'
  <2> SUFFICES ASSUME NEW x \in Stored(file, durable)
               PROVE  x \in Stored(file', durable')
    BY DEF Checkpointed, Stored
  <2>1. PICK s \in Shards : /\ x \in Captures /\ file[s] # Absent
                            /\ \E i \in 1..durable[s] : file[s][i] = x
    BY StoredIff
  <2>2. file'[s] # Absent /\ \E i \in 1..durable'[s] : file'[s][i] = x
    BY <1>1, <1>2, <1>3, <2>1 DEF IInv, TypeOK
  <2> QED BY <2>1, <2>2, StoredIff
<1>7. RecordsOnDisk'
  BY <1>1, <1>5, <1>6 DEF IInv, RecordsOnDisk, InventoryDurable
<1>8. StoredOnce'
  BY <1>1, SameFile DEF IInv, StoredOnce, Exists
<1>9. RecordedHold'
  <2>1. \A s \in Shards : durable'[s] > 0 => \E i \in 1..durable'[s] : file[s][i] \in Captures
    <3> SUFFICES ASSUME NEW s \in Shards, durable'[s] > 0
                 PROVE  \E i \in 1..durable'[s] : file[s][i] \in Captures
      OBVIOUS
    <3>1. CASE s \in paths
      BY <3>1, <1>2 DEF IInv, PathsReady, Has
    <3>2. CASE s \notin paths
      BY <3>2, <1>2 DEF IInv, RecordedHold
    <3> QED BY <3>1, <3>2
  <2>2. \A s \in baseline : durable'[s] > 0
    BY <1>2, <1>3, SizesOrdered DEF IInv, RecordedHold, TypeOK
  <2> QED BY <1>1, <2>1, <2>2 DEF RecordedHold
<1>10. TornLast'
  <2>1. \A s \in Exists : \A i \in 1..Size(s) : file[s][i] # Torn
    BY <1>1 DEF IInv, TornLast
  <2> QED BY <1>1, <2>1, SameFile DEF TornLast, Exists
<1>11. \A s \in Exists : ~Unrecorded(s)'
  BY <1>1, <1>2, SameFile, SizesOrdered DEF IInv, Covered, Unrecorded, Exists
<1>12. Covered' /\ PathsReady'
  BY <1>1, <1>11, SameFile DEF IInv, Covered, PathsReady, Exists
<1>13. Fresh' /\ Started' /\ Writing'
  BY <1>1, SameFile DEF IInv, Fresh, Started, Writing, Exists, TypeOK
<1>14. LinkedWhole' /\ OneLoose'
  BY <1>1, SameFile DEF IInv, LinkedWhole, OneLoose, Exists, TypeOK
<1>15. SyncedInOrder'
  BY <1>1, SameFile DEF IInv, SyncedInOrder, Exists, TypeOK
<1> QED BY <1>4, <1>6, <1>7, <1>8, <1>9, <1>10, <1>12, <1>13, <1>14, <1>15 DEF IInv

LEMMA DiscoverKeeps ==
  ASSUME IInv, Discover
  PROVE  IInv'
<1>1. /\ UNCHANGED <<file, synced, entry, durable, baseline, index, target, paths, group, touched,
                     resume, stops, spilled>>
      /\ pc = "discover" /\ pc' = "group" /\ todo' = Captures \ index
  BY DEF Discover, work
<1>2. linked' \subseteq linked /\ (todo' # {} => linked' = {s \in linked : ~IsTail(s)})
  BY DEF Discover
<1>3. TypeOK'
  BY <1>1, <1>2, SameFile DEF IInv, TypeOK, Exists
<1>4. RecordsOnDisk'
  BY <1>1 DEF IInv, RecordsOnDisk, CheckpointOnDisk, InventoryDurable, Checkpointed, Stored
<1>5. StoredOnce' /\ RecordedHold'
  BY <1>1, SameFile DEF IInv, StoredOnce, RecordedHold, Exists
<1>6. TornLast'
  BY <1>1, SameFile DEF IInv, TornLast, Exists
<1>7. Covered' /\ PathsReady'
  BY <1>1, SameFile DEF IInv, Covered, PathsReady, Unrecorded, Exists
<1>8. \A s \in Exists : \A i \in 1..Size(s) : file[s][i] \notin todo'
  <2> SUFFICES ASSUME NEW s \in Exists, NEW i \in 1..Size(s), file[s][i] \in Captures
               PROVE  file[s][i] \in index
    BY <1>1
  <2>1. s \in Shards /\ file[s] # Absent /\ i \in 1..Sizes[s]
    BY DEF Exists, Sizes
  <2>2. file[s][i] \in Stored(file, Sizes)
    BY <2>1, StoredIff
  <2> QED BY <1>1, <2>2 DEF IInv, Fresh
<1>9. group = {}
  BY <1>1 DEF IInv, Fresh
<1>10. Fresh' /\ Started' /\ Writing'
  BY <1>1, <1>8, <1>9, SameFile DEF IInv, Fresh, Started, Writing, Exists, TypeOK
<1>11. \A s \in linked' : todo' # {} => s # Newest \/ Size(s) >= target
  <2> SUFFICES ASSUME NEW s \in linked', todo' # {}, s = Newest, ~(Size(s) >= target)
               PROVE  FALSE
    OBVIOUS
  <2>1. s \in Exists /\ ~IsTail(s)
    BY <1>2, LinkedRecorded DEF IInv, TypeOK
  <2>2. target \in Nat /\ Size(s) \in Nat
    BY <2>1, SizesOrdered, WarcBoundsAssumption DEF IInv, TypeOK, Exists
  <2> QED BY <2>1, <2>2 DEF IsTail
<1>12. LinkedWhole' /\ OneLoose'
  BY <1>1, <1>2, <1>9, <1>11, SameFile DEF IInv, LinkedWhole, OneLoose, Exists, TypeOK
<1>13. SyncedInOrder'
  BY <1>1, SameFile DEF IInv, SyncedInOrder, Exists, TypeOK
<1> QED BY <1>3, <1>4, <1>5, <1>6, <1>7, <1>10, <1>12, <1>13 DEF IInv

LEMMA FrontFacts ==
  ASSUME NEW S, NEW f \in Seq(S), Len(f) > 0
  PROVE  /\ Front(f) \in Seq(S) /\ Len(Front(f)) = Len(f) - 1
         /\ \A i \in 1..Len(f) - 1 : Front(f)[i] = f[i]
<1>1. Len(f) \in Nat /\ \A i \in 1..Len(f) : f[i] \in S
  BY LenProperties, ElementOfSeq
<1>2. Front(f) = SubSeq(f, 1, Len(f) - 1)
  BY DEF Front
<1>3. \A i \in 1..Len(f) - 1 : f[i] \in S
  BY <1>1
<1> DEFINE n == Len(f) - 1
<1>4. n \in Nat /\ \A i \in 1..n : f[i] \in S
  BY <1>1, <1>3
<1> HIDE DEF n
<1>5. /\ SubSeq(f, 1, n) \in Seq(S)
      /\ Len(SubSeq(f, 1, n)) = IF 1 <= n THEN n - 1 + 1 ELSE 0
      /\ \A i \in 1..n - 1 + 1 : SubSeq(f, 1, n)[i] = f[1 + i - 1]
  BY <1>4, SubSeqProperties
<1>6. /\ SubSeq(f, 1, n) \in Seq(S) /\ Len(SubSeq(f, 1, n)) = n
      /\ \A i \in 1..n : SubSeq(f, 1, n)[i] = f[i]
  BY <1>4, <1>5
<1> QED BY <1>2, <1>6 DEF n

(* When no member but a torn one is new, and no recorded one is lost, what  *)
(* was recorded and that nothing is stored twice stay true.                *)
LEMMA NothingNew ==
  ASSUME IInv, UNCHANGED work,
         \A s \in Exists' : \A i \in 1..Size(s)' :
             file'[s][i] = Torn \/ (s \in Exists /\ i \in 1..Size(s) /\ file'[s][i] = file[s][i]),
         \A s \in Shards : durable[s] > 0 =>
             s \in Exists' /\ \A i \in 1..durable[s] : file'[s][i] = file[s][i]
  PROVE  /\ StoredOnce' /\ RecordedHold' /\ Checkpointed \subseteq Checkpointed'
         /\ \A s \in Exists' : \A i \in 1..Size(s)' : file'[s][i] \notin todo \cup group
<1>0. Torn \notin Captures /\ todo \subseteq Captures /\ group \subseteq Captures
  BY WarcBoundsAssumption DEF IInv, TypeOK
<1>1. \A s \in Exists' : \A i \in Captured(s)' :
          s \in Exists /\ i \in Captured(s) /\ file'[s][i] = file[s][i]
  BY <1>0 DEF Captured
<1>2. StoredOnce'
  BY <1>1 DEF IInv, StoredOnce
<1>3. RecordedHold'
  BY DEF IInv, RecordedHold, work
<1>4. Checkpointed \subseteq Checkpointed'
  <2> SUFFICES ASSUME NEW x \in Stored(file, durable)
               PROVE  x \in Stored(file', durable)
    BY DEF Checkpointed, Stored, work
  <2>1. PICK s \in Shards : /\ x \in Captures /\ file[s] # Absent
                            /\ \E i \in 1..durable[s] : file[s][i] = x
    BY StoredIff
  <2>2. durable[s] > 0
    BY <2>1 DEF IInv, TypeOK
  <2>3. file'[s] # Absent /\ \E i \in 1..durable[s] : file'[s][i] = x
    BY <2>1, <2>2 DEF Exists
  <2> QED BY <2>1, <2>3, StoredIff
<1>5. \A s \in Exists' : \A i \in 1..Size(s)' : file'[s][i] \notin todo \cup group
  <2> SUFFICES ASSUME NEW s \in Exists', NEW i \in 1..Size(s)'
               PROVE  file'[s][i] \notin todo \cup group
    OBVIOUS
  <2> QED BY <1>0 DEF IInv, Fresh
<1> QED BY <1>2, <1>3, <1>4, <1>5

(* Cutting off the torn member of a shard.                                 *)
LEMMA TornDropped ==
  ASSUME IInv, NEW n \in Exists, IsTorn(n), file' = [file EXCEPT ![n] = Front(file[n])]
  PROVE  /\ n \in Shards /\ file' \in [Shards -> Seq(Members) \cup {Absent}]
         /\ Exists' = Exists /\ Newest' = Newest
         /\ Size(n) \in Nat \ {0} /\ durable[n] < Size(n) /\ Size(n)' = Size(n) - 1 /\ ~IsTorn(n)'
         /\ \A r \in Shards : r # n => Size(r)' = Size(r) /\ file'[r] = file[r] /\ IsTorn(r)' = IsTorn(r)
         /\ \A i \in 1..Size(n) - 1 : file'[n][i] = file[n][i]
         /\ \A r \in Shards : Has(r)' <=> Has(r)
<1>0. Torn \notin Captures /\ Absent \notin Seq(Members)
  BY WarcBoundsAssumption
<1>1. /\ n \in Shards /\ file[n] \in Seq(Members) /\ Size(n) = Len(file[n]) /\ Size(n) \in Nat \ {0}
      /\ file[n][Size(n)] = Torn /\ durable[n] < Size(n)
  BY SizeFacts DEF Exists, IsTorn, IInv, TornLast
<1>2. /\ Front(file[n]) \in Seq(Members) /\ Len(Front(file[n])) = Size(n) - 1
      /\ \A i \in 1..Size(n) - 1 : Front(file[n])[i] = file[n][i]
  BY <1>1, FrontFacts
<1>3. /\ file' \in [Shards -> Seq(Members) \cup {Absent}] /\ file'[n] = Front(file[n])
      /\ \A r \in Shards : r # n => file'[r] = file[r]
  BY <1>1, <1>2 DEF IInv, TypeOK
<1>4. Exists' = Exists /\ Newest' = Newest
  BY <1>0, <1>1, <1>2, <1>3 DEF Exists, Newest
<1>5. Size(n)' = Size(n) - 1 /\ \A r \in Shards : r # n => Size(r)' = Size(r) /\ IsTorn(r)' = IsTorn(r)
  BY <1>0, <1>2, <1>3 DEF Size, IsTorn
<1>6. ~IsTorn(n)'
  BY <1>1, <1>2, <1>3, <1>5 DEF IsTorn, IInv, TornLast
<1>7. Has(n)' <=> Has(n)
  BY <1>0, <1>1, <1>2, <1>3, <1>5 DEF Has
<1>8. \A r \in Shards : Has(r)' <=> Has(r)
  BY <1>3, <1>5, <1>7 DEF Has
<1> QED BY <1>1, <1>2, <1>3, <1>4, <1>5, <1>6, <1>8

LEMMA TornDroppedKeeps ==
  ASSUME IInv, NEW n \in Exists, IsTorn(n), file' = [file EXCEPT ![n] = Front(file[n])], UNCHANGED work
  PROVE  /\ StoredOnce' /\ RecordedHold' /\ Checkpointed \subseteq Checkpointed'
         /\ \A s \in Exists' : \A i \in 1..Size(s)' : file'[s][i] \notin todo \cup group
<1>0. /\ Exists' = Exists /\ Size(n) \in Nat \ {0} /\ durable[n] < Size(n) /\ Size(n)' = Size(n) - 1
      /\ \A r \in Shards : r # n => Size(r)' = Size(r) /\ file'[r] = file[r]
      /\ \A i \in 1..Size(n) - 1 : file'[n][i] = file[n][i]
  BY TornDropped
<1>1. \A s \in Exists' : \A i \in 1..Size(s)' :
          s \in Exists /\ i \in 1..Size(s) /\ file'[s][i] = file[s][i]
  <2> SUFFICES ASSUME NEW s \in Exists, NEW i \in 1..Size(s)'
               PROVE  i \in 1..Size(s) /\ file'[s][i] = file[s][i]
    BY <1>0
  <2>1. s \in Shards /\ Size(s) \in Nat
    BY SizesOrdered DEF Exists
  <2>2. CASE s = n
    BY <2>1, <2>2, <1>0
  <2>3. CASE s # n
    BY <2>1, <2>3, <1>0
  <2> QED BY <2>2, <2>3
<1>2. \A s \in Shards : durable[s] > 0 =>
          s \in Exists' /\ \A i \in 1..durable[s] : file'[s][i] = file[s][i]
  <2> SUFFICES ASSUME NEW s \in Shards, durable[s] > 0
               PROVE  s \in Exists' /\ \A i \in 1..durable[s] : file'[s][i] = file[s][i]
    OBVIOUS
  <2>1. s \in Exists' /\ durable[s] \in Nat
    BY <1>0, SizesOrdered
  <2>2. CASE s = n
    BY <2>1, <2>2, <1>0
  <2>3. CASE s # n
    BY <2>1, <2>3, <1>0
  <2> QED BY <2>1, <2>2, <2>3
<1> QED BY <1>1, <1>2, NothingNew

LEMMA RepairKeeps ==
  ASSUME IInv, NEW s \in Shards, Repair(s)
  PROVE  IInv' /\ Checkpointed \subseteq Checkpointed'
<1>1. /\ s \in Exists /\ IsTorn(s) /\ s = Newest /\ s \notin linked /\ pc = "scan" /\ pc' = pc
      /\ file' = [file EXCEPT ![s] = Front(file[s])]
      /\ synced' = [synced EXCEPT ![s] = Len(Front(file[s]))]
      /\ UNCHANGED <<entry, linked, durable, baseline, index, target, paths, todo, group, touched,
                     resume, stops, spilled>>
  BY DEF Repair, Repairable, Whole, work, memory
<1>2. /\ Size(s) \in Nat \ {0} /\ Size(s)' = Size(s) - 1 /\ durable[s] < Size(s)
      /\ durable[s] \in Nat /\ synced[s] \in Nat
      /\ file' \in [Shards -> Seq(Members) \cup {Absent}] /\ Exists' = Exists /\ Newest' = Newest
      /\ ~IsTorn(s)' /\ \A i \in 1..Size(s) - 1 : file'[s][i] = file[s][i]
  <2>1. durable[s] \in Nat /\ synced[s] \in Nat
    BY <1>1, SizesOrdered
  <2> QED BY <1>1, <2>1, TornDropped
<1>3. /\ \A r \in Shards : r # s => Size(r)' = Size(r) /\ file'[r] = file[r] /\ IsTorn(r)' = IsTorn(r)
      /\ \A r \in Shards : Has(r)' <=> Has(r)
  BY <1>1, TornDropped
<1>4. /\ synced' \in [Shards -> Nat] /\ synced'[s] = Size(s)'
      /\ \A r \in Shards : r # s => synced'[r] = synced[r]
  <2>0. file[s] \in Seq(Members) /\ Size(s) = Len(file[s])
    BY <1>1, SizeFacts DEF IInv
  <2>1. Len(Front(file[s])) = Size(s)' /\ Size(s)' \in Nat
    BY <1>2, <2>0, FrontFacts
  <2> QED BY <1>1, <2>1 DEF IInv, TypeOK
<1>5. StoredOnce' /\ RecordedHold' /\ Checkpointed \subseteq Checkpointed'
      /\ \A r \in Exists' : \A i \in 1..Size(r)' : file'[r][i] \notin todo \cup group
  BY <1>1, TornDroppedKeeps DEF work
<1>6. TypeOK'
  <2>1. \A r \in Shards : synced'[r] <= Size(r)'
    <3> TAKE r \in Shards
    <3>1. CASE r = s
      BY <3>1, <1>2, <1>4
    <3>2. CASE r # s
      BY <3>2, <1>3, <1>4 DEF IInv, TypeOK
    <3> QED BY <3>1, <3>2
  <2> QED BY <1>1, <1>2, <1>4, <2>1 DEF IInv, TypeOK
<1>7. RecordsOnDisk'
  BY <1>1, <1>2, <1>4, <1>5 DEF IInv, RecordsOnDisk, CheckpointOnDisk, InventoryDurable
<1>8. TornLast'
  <2> SUFFICES ASSUME NEW r \in Exists, NEW i \in 1..Size(r)', file'[r][i] = Torn
               PROVE  i = Size(r)' /\ durable[r] < i
    BY <1>1, <1>2 DEF TornLast
  <2>1. r \in Shards
    BY DEF Exists
  <2>2. CASE r = s
    BY <2>2, <1>1, <1>2 DEF IInv, TornLast
  <2>3. CASE r # s
    BY <2>1, <2>3, <1>3 DEF IInv, TornLast
  <2> QED BY <2>2, <2>3
<1>9. Covered' /\ PathsReady' /\ Fresh' /\ Started' /\ Writing'
  BY <1>1, <1>2, <1>3, <1>5 DEF IInv, Covered, PathsReady, Fresh, Started, Writing, Exists
<1>10. LinkedWhole'
  BY <1>1, <1>2, <1>3, <1>4 DEF IInv, LinkedWhole, TypeOK, Fresh, Exists
<1>11. SyncedInOrder'
  BY <1>1, <1>2, <1>3, <1>4 DEF IInv, SyncedInOrder, TypeOK, Exists
<1>12. OneLoose'
  BY <1>1, <1>2, <1>3 DEF IInv, OneLoose, Exists
<1> QED BY <1>5, <1>6, <1>7, <1>8, <1>9, <1>10, <1>11, <1>12 DEF IInv

LEMMA FailWriteKeeps ==
  ASSUME IInv, FailWrite
  PROVE  IInv' /\ Checkpointed \subseteq Checkpointed'
<1>0. Exists # {} /\ Newest \in Shards
  BY NewestFacts DEF FailWrite, IInv, Writing
<1> PICK s \in Shards : s = Newest
  BY <1>0
<1>1. /\ s \in Exists /\ IsTorn(s) /\ s \notin linked /\ pc = "writing" /\ pc' = "idle"
      /\ synced[s] < Size(s)
      /\ file' = [file EXCEPT ![s] = Front(file[s])] /\ Forget
      /\ UNCHANGED <<synced, entry, linked, durable, baseline, index, spilled>>
  BY <1>0, NewestFacts DEF FailWrite, work, IInv, Writing
<1>2. /\ Size(s) \in Nat \ {0} /\ Size(s)' = Size(s) - 1 /\ durable[s] < Size(s)
      /\ durable[s] \in Nat /\ synced[s] \in Nat
      /\ file' \in [Shards -> Seq(Members) \cup {Absent}] /\ Exists' = Exists /\ Newest' = Newest
      /\ ~IsTorn(s)' /\ \A i \in 1..Size(s) - 1 : file'[s][i] = file[s][i]
  <2>1. durable[s] \in Nat /\ synced[s] \in Nat
    BY <1>1, SizesOrdered
  <2> QED BY <1>1, <2>1, TornDropped
<1>3. /\ \A r \in Shards : r # s => Size(r)' = Size(r) /\ file'[r] = file[r] /\ IsTorn(r)' = IsTorn(r)
      /\ \A r \in Shards : Has(r)' <=> Has(r)
  BY <1>1, TornDropped
<1>4. stops' \in 0..MaxStops
  BY WarcBoundsAssumption DEF FailWrite, IInv, TypeOK
<1>5. StoredOnce' /\ RecordedHold' /\ Checkpointed \subseteq Checkpointed'
  BY <1>1, TornDroppedKeeps DEF work
<1>6. TypeOK'
  <2>1. \A r \in Shards : synced'[r] <= Size(r)'
    <3> TAKE r \in Shards
    <3>1. CASE r = s
      BY <3>1, <1>1, <1>2
    <3>2. CASE r # s
      BY <3>2, <1>1, <1>3 DEF IInv, TypeOK
    <3> QED BY <3>1, <3>2
  <2> QED BY <1>1, <1>2, <1>4, <2>1 DEF IInv, TypeOK, Forget
<1>7. RecordsOnDisk'
  BY <1>1, <1>2, <1>5 DEF IInv, RecordsOnDisk, CheckpointOnDisk, InventoryDurable
<1>8. TornLast'
  <2> SUFFICES ASSUME NEW r \in Exists, NEW i \in 1..Size(r)', file'[r][i] = Torn
               PROVE  i = Size(r)' /\ durable[r] < i
    BY <1>1, <1>2 DEF TornLast
  <2>1. r \in Shards
    BY DEF Exists
  <2>2. CASE r = s
    BY <2>2, <1>1, <1>2 DEF IInv, TornLast
  <2>3. CASE r # s
    BY <2>1, <2>3, <1>3 DEF IInv, TornLast
  <2> QED BY <2>2, <2>3
<1>9. Covered' /\ PathsReady' /\ Fresh' /\ Started' /\ Writing'
  BY <1>1 DEF Covered, PathsReady, Fresh, Started, Writing, Forget
<1>10. LinkedWhole'
  BY <1>1, <1>2, <1>3 DEF IInv, LinkedWhole, TypeOK, Forget, Exists
<1>11. SyncedInOrder'
  <2> SUFFICES ASSUME NEW e \in entry, NEW r \in Exists, r < e
               PROVE  r \in entry /\ synced[r] = Size(r)'
    BY <1>1, <1>2 DEF SyncedInOrder
  <2>1. r \in entry /\ synced[r] = Size(r) /\ r \in Shards
    BY DEF IInv, SyncedInOrder, Exists
  <2>2. r # s
    BY <2>1, <1>1, <1>2, SizesOrdered
  <2> QED BY <2>1, <2>2, <1>3
<1>12. OneLoose'
  <2> SUFFICES ASSUME ~spilled, NEW r \in Exists, ~Has(r)' \/ IsTorn(r)'
               PROVE  r = Newest
    BY <1>1, <1>2 DEF OneLoose
  <2> QED BY <1>1, <1>2, <1>3, LooseIsNewest DEF Exists
<1> QED BY <1>5, <1>6, <1>7, <1>8, <1>9, <1>10, <1>11, <1>12 DEF IInv

LEMMA TidyRemoveKeeps ==
  ASSUME IInv, NEW s \in Shards, TidyRemove(s)
  PROVE  IInv' /\ Checkpointed \subseteq Checkpointed'
<1>1. /\ s \in Exists /\ Empty = {s} /\ s = Newest /\ s \notin linked /\ durable[s] = 0 /\ s \notin baseline
      /\ pc = "tidy" /\ pc' = "sync" /\ resume' = "install" /\ entry' = entry \ {s}
      /\ paths' = {r \in Exists \ {s} : Size(r) > durable[r]}
      /\ UNCHANGED <<linked, durable, baseline, index, target, todo, group, touched, stops, spilled>>
  BY DEF TidyRemove, Removable, Repairable, Empty, work
<1>2. /\ file' \in [Shards -> Seq(Members) \cup {Absent}] /\ file'[s] = Absent
      /\ \A r \in Shards : r # s => file'[r] = file[r]
      /\ synced' \in [Shards -> Nat] /\ synced'[s] = 0
      /\ \A r \in Shards : r # s => synced'[r] = synced[r]
  BY DEF TidyRemove, IInv, TypeOK
<1>3. /\ Exists' = Exists \ {s} /\ Size(s)' = 0
      /\ \A r \in Shards : r # s => /\ Size(r)' = Size(r) /\ IsTorn(r)' = IsTorn(r)
                                    /\ Has(r)' = Has(r)
  BY <1>2 DEF Exists, Size, IsTorn, Has
<1>4. \A r \in Exists' : Has(r)
  BY <1>1, <1>3, HasIff DEF Empty
<1>5. ~Has(s)
  BY <1>1, HasIff DEF Empty
<1>6. StoredOnce' /\ RecordedHold' /\ Checkpointed \subseteq Checkpointed'
      /\ \A r \in Exists' : \A i \in 1..Size(r)' : file'[r][i] \notin todo \cup group
  <2>1. \A r \in Exists' : \A i \in 1..Size(r)' :
            r \in Exists /\ i \in 1..Size(r) /\ file'[r][i] = file[r][i]
    BY <1>2, <1>3 DEF Exists
  <2>2. \A r \in Shards : durable[r] > 0 =>
            r \in Exists' /\ \A i \in 1..durable[r] : file'[r][i] = file[r][i]
    BY <1>1, <1>2, <1>3, SizesOrdered
  <2> QED BY <1>1, <2>1, <2>2, NothingNew DEF work
<1>7. TypeOK'
  <2>1. \A r \in Shards : synced'[r] <= Size(r)'
    <3> TAKE r \in Shards
    <3>1. CASE r = s
      BY <3>1, <1>2, <1>3
    <3>2. CASE r # s
      BY <3>2, <1>2, <1>3 DEF IInv, TypeOK
    <3> QED BY <3>1, <3>2
  <2>2. entry' \subseteq Exists' /\ paths' \subseteq Shards
    BY <1>1, <1>3 DEF IInv, TypeOK, Exists
  <2> QED BY <1>1, <1>2, <2>1, <2>2 DEF IInv, TypeOK
<1>8. RecordsOnDisk'
  BY <1>1, <1>2, <1>6 DEF IInv, RecordsOnDisk, CheckpointOnDisk, InventoryDurable
<1>9. TornLast'
  <2>1. \A r \in Exists : \A i \in 1..Size(r) : file[r][i] # Torn
    BY <1>1 DEF IInv, TornLast
  <2> QED BY <2>1, <1>2, <1>3 DEF TornLast, Exists
<1>10. Covered' /\ PathsReady'
  BY <1>5, <1>1, <1>3, <1>4 DEF IInv, Covered, PathsReady, Unrecorded, Exists
<1>11. Fresh' /\ Started' /\ Writing'
  BY <1>1, <1>3, <1>4, <1>6 DEF IInv, Fresh, Started, Writing, Exists
<1>12. LinkedWhole' /\ OneLoose'
  BY <1>1, <1>2, <1>3 DEF IInv, LinkedWhole, OneLoose, Fresh, Exists, TypeOK
<1>13. SyncedInOrder'
  BY <1>1, <1>2, <1>3 DEF IInv, SyncedInOrder, Exists, TypeOK
<1> QED BY <1>6, <1>7, <1>8, <1>9, <1>10, <1>11, <1>12, <1>13 DEF IInv

(* A shard grows by one member, nothing before it changes.                 *)
LEMMA Begun ==
  ASSUME IInv, NEW s \in Shards, BeginWrite(s)
  PROVE  /\ file' \in [Shards -> Seq(Members) \cup {Absent}] /\ file'[s] \in Seq(Members)
         /\ Exists' = Exists \cup {s} /\ Newest' = s
         /\ Size(s) \in Nat /\ Size(s)' = Size(s) + 1 /\ IsTorn(s)' /\ file'[s][Size(s) + 1] = Torn
         /\ \A i \in 1..Size(s) : file'[s][i] = file[s][i]
         /\ \A r \in Shards : r # s => Size(r)' = Size(r) /\ file'[r] = file[r] /\ IsTorn(r)' = IsTorn(r)
         /\ \A r \in Shards : Has(r)' <=> Has(r)
         /\ \/ s = Newest /\ s \in Exists /\ Size(s) < target
            \/ s \notin Exists /\ \A r \in Exists : r < s /\ (r = Newest => Size(r) >= target)
<1>0. Torn \notin Captures /\ Torn \in Members /\ Absent \notin Seq(Members)
  BY WarcBoundsAssumption DEF Members
<1>1. IsTail(s) /\ file' = [file EXCEPT ![s] = IF s \in Exists THEN Append(file[s], Torn) ELSE <<Torn>>]
  BY DEF BeginWrite
<1>2. target \in Nat /\ \A r \in Exists : r \in Shards /\ Size(r) \in Nat
  BY WarcBoundsAssumption, SizesOrdered DEF IInv, TypeOK, Exists
<1>3. \/ s = Newest /\ s \in Exists /\ Size(s) < target
      \/ s \notin Exists /\ \A r \in Exists : r < s /\ (r = Newest => Size(r) >= target)
  <2>1. CASE Exists = {}
    BY <2>1
  <2>2. CASE Exists # {} /\ Size(Newest) < target
    BY <1>1, <2>2, NewestFacts DEF IsTail
  <2>3. CASE Exists # {} /\ ~(Size(Newest) < target)
    <3>1. s = Newest + 1
      BY <1>1, <2>3 DEF IsTail
    <3>2. Newest \in Exists /\ Newest \in Nat /\ \A r \in Exists : r <= Newest /\ r \in Nat
      BY <2>3, NewestFacts DEF Shards, Exists
    <3> QED BY <3>1, <3>2, <2>3, <1>2
  <2> QED BY <2>1, <2>2, <2>3
<1>4. /\ file'[s] \in Seq(Members) /\ Len(file'[s]) = Size(s) + 1 /\ file'[s][Size(s) + 1] = Torn
      /\ \A i \in 1..Size(s) : file'[s][i] = file[s][i]
  <2>1. CASE s \in Exists
    <3>1. file[s] \in Seq(Members) /\ Size(s) = Len(file[s]) /\ file'[s] = Append(file[s], Torn)
      BY <1>1, <2>1, SizeFacts DEF IInv, TypeOK
    <3> QED BY <1>0, <3>1, AppendProperties
  <2>2. CASE s \notin Exists
    <3>1. Size(s) = 0 /\ file'[s] = <<Torn>>
      BY <1>1, <2>2, SizeFacts DEF IInv, TypeOK
    <3> QED BY <1>0, <3>1
  <2> QED BY <2>1, <2>2
<1>5. /\ file' \in [Shards -> Seq(Members) \cup {Absent}] /\ \A r \in Shards : r # s => file'[r] = file[r]
  BY <1>1, <1>4 DEF IInv, TypeOK
<1>6. Exists' = Exists \cup {s}
  BY <1>0, <1>4, <1>5 DEF Exists
<1>7. Newest' = s
  <2>1. s \in Exists' /\ \A r \in Exists' : r <= s
    BY <1>3, <1>6, NewestFacts DEF Shards, Exists
  <2> QED BY <2>1, MaxOfShards DEF Newest, Exists, Shards
<1>8. Size(s)' = Size(s) + 1 /\ \A r \in Shards : r # s => Size(r)' = Size(r) /\ IsTorn(r)' = IsTorn(r)
  BY <1>0, <1>4, <1>5 DEF Size, IsTorn
<1>9. Size(s) \in Nat
  BY SizesOrdered
<1>10. IsTorn(s)'
  BY <1>4, <1>8, <1>9 DEF IsTorn
<1>11. Has(s)' <=> Has(s)
  <2>1. 1..Size(s)' = (1..Size(s)) \cup {Size(s) + 1} /\ Size(s) + 1 \notin 1..Size(s)
    BY <1>8, <1>9
  <2> QED BY <1>0, <1>4, <2>1 DEF Has
<1>12. \A r \in Shards : Has(r)' <=> Has(r)
  BY <1>5, <1>8, <1>11 DEF Has
<1> QED BY <1>3, <1>4, <1>5, <1>6, <1>7, <1>8, <1>9, <1>10, <1>12

LEMMA BeginWriteKeeps ==
  ASSUME IInv, NEW s \in Shards, BeginWrite(s)
  PROVE  IInv' /\ Checkpointed \subseteq Checkpointed'
<1>1. /\ pc = "append" /\ pc' = "writing" /\ group # {}
      /\ UNCHANGED <<synced, entry, linked, durable, baseline, index, target, paths, todo, group,
                     touched, resume, stops, spilled>>
  BY DEF BeginWrite, work, memory
<1>2. /\ file' \in [Shards -> Seq(Members) \cup {Absent}] /\ Exists' = Exists \cup {s} /\ Newest' = s
      /\ Size(s) \in Nat /\ Size(s)' = Size(s) + 1 /\ IsTorn(s)' /\ file'[s][Size(s) + 1] = Torn
      /\ \A i \in 1..Size(s) : file'[s][i] = file[s][i]
      /\ \A r \in Shards : r # s => Size(r)' = Size(r) /\ file'[r] = file[r] /\ IsTorn(r)' = IsTorn(r)
      /\ \A r \in Shards : Has(r)' <=> Has(r)
  BY Begun
<1>3. \/ s = Newest /\ s \in Exists /\ Size(s) < target
      \/ s \notin Exists /\ \A r \in Exists : r < s /\ (r = Newest => Size(r) >= target)
  BY Begun
<1>4. /\ target \in Nat /\ target > 1
      /\ \A r \in Shards : /\ Size(r) \in Nat /\ synced[r] \in Nat /\ durable[r] \in Nat
                           /\ durable[r] <= synced[r] /\ synced[r] <= Size(r)
                           /\ durable[r] > 0 => r \in Exists
  BY WarcBoundsAssumption, SizesOrdered DEF IInv, TypeOK
<1>5. \A r \in Exists : r \in Shards /\ r <= s
  BY <1>3, NewestFacts DEF Exists, Shards
<1>6. StoredOnce' /\ RecordedHold' /\ Checkpointed \subseteq Checkpointed'
      /\ \A r \in Exists' : \A i \in 1..Size(r)' : file'[r][i] \notin todo \cup group
  <2>1. ASSUME NEW r \in Exists', NEW i \in 1..Size(r)'
        PROVE  file'[r][i] = Torn \/ (r \in Exists /\ i \in 1..Size(r) /\ file'[r][i] = file[r][i])
    <3>1. CASE r # s
      BY <3>1, <1>2, <1>5
    <3>2. CASE r = s /\ i = Size(s) + 1
      BY <3>2, <1>2
    <3>3. CASE r = s /\ i # Size(s) + 1
      <4>1. i \in 1..Size(s)
        BY <3>3, <1>2
      <4>2. s \in Exists
        BY <4>1, <1>3, SizeFacts DEF IInv
      <4> QED BY <3>3, <4>1, <4>2, <1>2
    <3> QED BY <3>1, <3>2, <3>3
  <2>2. \A r \in Shards : durable[r] > 0 =>
            r \in Exists' /\ \A i \in 1..durable[r] : file'[r][i] = file[r][i]
    <3> SUFFICES ASSUME NEW r \in Shards, durable[r] > 0, NEW i \in 1..durable[r]
                 PROVE  r \in Exists' /\ file'[r][i] = file[r][i]
      BY <1>4
    <3>1. r \in Exists' /\ i \in 1..Size(r)
      BY <1>2, <1>4
    <3> QED BY <3>1, <1>2
  <2> QED BY <1>1, <2>1, <2>2, NothingNew DEF work
<1>7. TypeOK'
  <2>1. \A r \in Shards : synced'[r] <= Size(r)'
    BY <1>1, <1>2, <1>4
  <2>2. entry' \subseteq Exists'
    BY <1>1, <1>2 DEF IInv, TypeOK
  <2> QED BY <1>1, <1>2, <2>1, <2>2 DEF IInv, TypeOK
<1>8. RecordsOnDisk'
  BY <1>1, <1>2, <1>6 DEF IInv, RecordsOnDisk, CheckpointOnDisk, InventoryDurable
<1>9. TornLast'
  <2>1. \A r \in Exists : \A i \in 1..Size(r) : file[r][i] # Torn
    BY <1>1 DEF IInv, TornLast
  <2> SUFFICES ASSUME NEW r \in Exists', NEW i \in 1..Size(r)', file'[r][i] = Torn
               PROVE  i = Size(r)' /\ durable[r] < i /\ r = s
    BY <1>1, <1>2 DEF TornLast
  <2>2. r = s
    BY <2>1, <1>2, <1>5
  <2>3. i \notin 1..Size(s)
    <3> SUFFICES ASSUME i \in 1..Size(s) PROVE FALSE
      OBVIOUS
    <3>1. s \in Exists
      BY <1>3, SizeFacts DEF IInv
    <3> QED BY <2>1, <2>2, <3>1, <1>2
  <2> QED BY <2>2, <2>3, <1>2, <1>4
<1>10. \A r \in Exists : r # s => r # Newest \/ Size(r) # 1
  BY <1>3, <1>4, <1>5
<1>11. Covered'
  BY <1>1, <1>2, <1>5, <1>10 DEF IInv, Covered, Unrecorded
<1>12. PathsReady'
  BY <1>1, <1>2, <1>5 DEF IInv, PathsReady
<1>13. Started'
  <2> SUFFICES ASSUME NEW r \in Exists'
               PROVE  Has(r)' \/ (r = s /\ Size(r)' <= 2)
    BY <1>1, <1>2 DEF Started
  <2>1. CASE r # s
    BY <2>1, <1>1, <1>2, <1>5, <1>10 DEF IInv, Started
  <2>2. CASE r = s /\ s \in Exists
    BY <2>2, <1>1, <1>2 DEF IInv, Started
  <2>3. CASE r = s /\ s \notin Exists
    BY <2>3, <1>2, SizeFacts DEF IInv
  <2> QED BY <2>1, <2>2, <2>3
<1>14. Fresh'
  BY <1>1, <1>6 DEF IInv, Fresh
<1>15. s \notin linked
  BY <1>1, <1>3, <1>4, LinkedRecorded DEF IInv, LinkedWhole, TypeOK
<1>16. Writing'
  BY <1>1, <1>2, <1>4, <1>15 DEF Writing
<1>17. LinkedWhole'
  BY <1>1, <1>2, <1>15 DEF IInv, LinkedWhole, TypeOK
<1>18. SyncedInOrder'
  <2> SUFFICES ASSUME NEW e \in entry, NEW r \in Exists', r < e
               PROVE  r \in entry /\ synced[r] = Size(r)'
    BY <1>1 DEF SyncedInOrder
  <2>1. e \in Shards /\ e <= s
    BY <1>5 DEF IInv, TypeOK
  <2>2. r # s /\ r \in Exists /\ r \in Shards
    BY <2>1, <1>2, <1>5 DEF Shards
  <2> QED BY <2>2, <1>2 DEF IInv, SyncedInOrder
<1>19. OneLoose'
  BY <1>1 DEF OneLoose, IInv
<1> QED BY <1>6, <1>7, <1>8, <1>9, <1>11, <1>12, <1>13, <1>14, <1>16, <1>17, <1>18, <1>19 DEF IInv

(* The member under way is replaced by the one that was written.           *)
LEMMA Ended ==
  ASSUME IInv, NEW c \in group, EndWrite(c), NEW n \in Shards, n = Newest,
         NEW m, m = IF Size(n) = 1 THEN Info ELSE c
  PROVE  /\ n \in Exists /\ m \in Members \ {Torn} /\ c \in Captures
         /\ file' \in [Shards -> Seq(Members) \cup {Absent}]
         /\ Exists' = Exists /\ Newest' = n
         /\ Size(n) \in Nat \ {0} /\ durable[n] < Size(n)
         /\ \A r \in Shards : Size(r)' = Size(r)
         /\ \A r \in Shards : r # n => file'[r] = file[r]
         /\ file'[n][Size(n)] = m /\ \A i \in 1..Size(n) - 1 : file'[n][i] = file[n][i]
         /\ \A r \in Exists : \A i \in 1..Size(r) : file'[r][i] # Torn
<1>0. Torn \notin Captures /\ Info \in Members /\ Info # Torn /\ Absent \notin Seq(Members)
  BY WarcBoundsAssumption DEF Members
<1>1. /\ pc = "writing" /\ file' = [file EXCEPT ![n] = Append(Front(file[n]), m)]
  BY DEF EndWrite
<1>2. n \in Exists /\ IsTorn(n)
  BY <1>1, NewestFacts DEF IInv, Writing
<1>3. /\ file[n] \in Seq(Members) /\ Size(n) = Len(file[n]) /\ Size(n) \in Nat \ {0}
      /\ file[n][Size(n)] = Torn /\ durable[n] < Size(n)
  BY <1>2, SizeFacts DEF IsTorn, IInv, TornLast
<1>4. c \in Captures /\ m \in Members \ {Torn}
  BY <1>0 DEF IInv, TypeOK, Members
<1>5. /\ Front(file[n]) \in Seq(Members) /\ Len(Front(file[n])) = Size(n) - 1
      /\ \A i \in 1..Size(n) - 1 : Front(file[n])[i] = file[n][i]
  BY <1>3, FrontFacts
<1> DEFINE f == Append(Front(file[n]), m)
<1>6. /\ f \in Seq(Members) /\ Len(f) = Size(n) /\ f[Size(n)] = m
      /\ \A i \in 1..Size(n) - 1 : f[i] = file[n][i]
  BY <1>3, <1>4, <1>5, AppendProperties
<1> HIDE DEF f
<1>7. file' = [file EXCEPT ![n] = f]
  BY <1>1 DEF f
<1>8. /\ file' \in [Shards -> Seq(Members) \cup {Absent}] /\ file'[n] = f
      /\ \A r \in Shards : r # n => file'[r] = file[r]
  BY <1>6, <1>7 DEF IInv, TypeOK
<1>9. Exists' = Exists /\ Newest' = Newest
  BY <1>0, <1>2, <1>6, <1>8 DEF Exists, Newest
<1>10. \A r \in Shards : Size(r)' = Size(r)
  BY <1>0, <1>3, <1>6, <1>8 DEF Size
<1>11. \A r \in Exists : \A i \in 1..Size(r) : file'[r][i] # Torn
  <2> SUFFICES ASSUME NEW r \in Exists, NEW i \in 1..Size(r), file'[r][i] = Torn
               PROVE  FALSE
    OBVIOUS
  <2>1. CASE r # n
    BY <2>1, <1>1, <1>8 DEF IInv, TornLast, Exists
  <2>2. CASE r = n /\ i = Size(n)
    BY <2>2, <1>4, <1>6, <1>8
  <2>3. CASE r = n /\ i # Size(n)
    <3>1. i \in 1..Size(n) - 1
      BY <2>3, <1>3
    <3>2. file[n][i] = Torn
      BY <3>1, <2>3, <1>6, <1>8
    <3> QED BY <3>2, <2>3, <1>2 DEF IInv, TornLast
  <2> QED BY <2>1, <2>2, <2>3
<1> QED BY <1>2, <1>3, <1>4, <1>6, <1>8, <1>9, <1>10, <1>11

LEMMA EndWriteKeeps ==
  ASSUME IInv, NEW c \in group, EndWrite(c)
  PROVE  IInv' /\ Checkpointed \subseteq Checkpointed'
<1>0. Newest \in Shards
  BY NewestFacts DEF EndWrite, IInv, Writing
<1> PICK n \in Shards : n = Newest
  BY <1>0
<1> PICK m : m = IF Size(n) = 1 THEN Info ELSE c
  OBVIOUS
<1>1. /\ n \in Exists /\ m \in Members \ {Torn} /\ c \in Captures
      /\ file' \in [Shards -> Seq(Members) \cup {Absent}]
      /\ Exists' = Exists /\ Newest' = n
      /\ Size(n) \in Nat \ {0} /\ durable[n] < Size(n)
      /\ \A r \in Shards : Size(r)' = Size(r)
      /\ \A r \in Shards : r # n => file'[r] = file[r]
      /\ file'[n][Size(n)] = m /\ \A i \in 1..Size(n) - 1 : file'[n][i] = file[n][i]
      /\ \A r \in Exists : \A i \in 1..Size(r) : file'[r][i] # Torn
  BY Ended
<1>2. Info \notin Captures /\ Torn \notin Captures
  BY WarcBoundsAssumption
<1>3. /\ pc = "writing" /\ pc' = "append" /\ group' = group \ {m}
      /\ touched' = IF m = Info THEN touched ELSE touched \cup {n}
      /\ UNCHANGED <<synced, entry, linked, durable, baseline, index, target, paths, todo, resume,
                     stops, spilled>>
  BY DEF EndWrite, work
<1>4. m = c \/ (m = Info /\ Size(n) = 1 /\ group' = group)
  BY <1>2, <1>3 DEF IInv, TypeOK
<1>5. \A r \in Exists : \A i \in 1..Size(r) :
          (r = n /\ i = Size(n) /\ file'[r][i] = m) \/ file'[r][i] = file[r][i]
  BY <1>1 DEF Exists
<1>6. /\ \A r \in Shards : r # n => (Has(r)' <=> Has(r))
      /\ m = c => Has(n)'
  BY <1>1 DEF Has
<1>7. \A r \in Shards : durable[r] > 0 =>
          r \in Exists /\ \A i \in 1..durable[r] : file'[r][i] = file[r][i]
  <2> SUFFICES ASSUME NEW r \in Shards, durable[r] > 0, NEW i \in 1..durable[r]
               PROVE  r \in Exists /\ file'[r][i] = file[r][i]
    BY SizesOrdered
  <2>1. r \in Exists /\ durable[r] \in Nat
    BY SizesOrdered
  <2> QED BY <2>1, <1>1
<1>8. TypeOK'
  BY <1>1, <1>3 DEF IInv, TypeOK
<1>9. Checkpointed \subseteq Checkpointed'
  <2> SUFFICES ASSUME NEW x \in Stored(file, durable)
               PROVE  x \in Stored(file', durable)
    BY <1>3 DEF Checkpointed, Stored
  <2>1. PICK s \in Shards : /\ x \in Captures /\ file[s] # Absent
                            /\ \E i \in 1..durable[s] : file[s][i] = x
    BY StoredIff
  <2>2. durable[s] > 0
    BY <2>1 DEF IInv, TypeOK
  <2>3. file'[s] # Absent /\ \E i \in 1..durable[s] : file'[s][i] = x
    BY <2>1, <2>2, <1>1, <1>7 DEF Exists
  <2> QED BY <2>1, <2>3, StoredIff
<1>10. RecordsOnDisk'
  BY <1>3, <1>9 DEF IInv, RecordsOnDisk, CheckpointOnDisk, InventoryDurable
<1>11. RecordedHold'
  BY <1>3, <1>7 DEF IInv, RecordedHold
<1>12. \A r \in Exists : \A i \in Captured(r)' :
           \/ i \in Captured(r) /\ file'[r][i] = file[r][i]
           \/ r = n /\ i = Size(n) /\ file'[r][i] = c
  BY <1>1, <1>2, <1>4, <1>5 DEF Captured, Exists
<1>13. \A r \in Exists : \A i \in Captured(r) : file[r][i] # c
  BY DEF IInv, Fresh, Captured
<1>14. StoredOnce'
  BY <1>1, <1>12, <1>13 DEF IInv, StoredOnce
<1>15. TornLast'
  BY <1>1 DEF TornLast, Exists
<1>16. Covered'
  <2> SUFFICES ASSUME NEW r \in Exists, Unrecorded(r)'
               PROVE  r \in touched' \/ (r = n /\ Size(r) = 1 /\ group' # {})
    BY <1>1, <1>3 DEF Covered, Exists
  <2>1. CASE r = n
    BY <2>1, <1>2, <1>3, <1>4, <1>1
  <2>2. CASE r # n
    BY <2>2, <1>1, <1>3 DEF IInv, Covered, Unrecorded, Exists
  <2> QED BY <2>1, <2>2
<1>17. PathsReady'
  <2>1. Has(n) => Has(n)'
    <3>1. file[n][Size(n)] = Torn
      BY <1>3 DEF IInv, Writing, IsTorn
    <3> QED BY <3>1, <1>1, <1>2 DEF Has
  <2>2. \A r \in paths \cup touched' : r \in Exists /\ Has(r)'
    BY <2>1, <1>1, <1>3, <1>4, <1>6 DEF IInv, PathsReady, Exists
  <2> QED BY <2>2, <1>1, <1>3 DEF PathsReady
<1>18. Fresh'
  <2>1. m \notin todo \cup group'
    BY <1>2, <1>3, <1>4 DEF IInv, TypeOK, Fresh
  <2>2. \A r \in Exists : \A i \in 1..Size(r) : file'[r][i] \notin todo \cup group'
    BY <1>3, <1>5, <2>1 DEF IInv, Fresh
  <2> QED BY <1>1, <1>3, <2>2 DEF IInv, Fresh, Exists
<1>19. Started'
  BY <1>1, <1>3, <1>4, <1>6 DEF IInv, Started, Exists
<1>20. Writing'
  BY <1>3 DEF Writing
<1>21. LinkedWhole'
  <2>1. n \notin linked
    BY <1>3 DEF IInv, Writing
  <2>2. \A r \in linked : r \in Shards /\ IsTorn(r)' = IsTorn(r)
    BY <2>1, <1>1 DEF IsTorn, IInv, TypeOK
  <2> QED BY <1>1, <1>3, <2>1, <2>2 DEF IInv, LinkedWhole
<1>22. SyncedInOrder'
  BY <1>1, <1>3 DEF IInv, SyncedInOrder, Exists
<1>23. OneLoose'
  BY <1>3 DEF IInv, OneLoose
<1> QED BY <1>8, <1>9, <1>10, <1>11, <1>14, <1>15, <1>16, <1>17, <1>18, <1>19, <1>20, <1>21, <1>22, <1>23
        DEF IInv

(* What a power loss leaves of one unsynced shard.                         *)
LEMMA SurvivorFacts ==
  ASSUME IInv, NEW s \in Exists, NEW x \in Survivors(s)
  PROVE  \/ x = Absent /\ s \notin entry
         \/ /\ x \in Seq(Members) /\ Len(x) \in Nat /\ synced[s] <= Len(x) /\ Len(x) <= Size(s)
            /\ \A i \in 1..Len(x) : x[i] = file[s][i] \/ (x[i] = Torn /\ i = Len(x) /\ synced[s] < i)
<1>1. /\ s \in Shards /\ file[s] \in Seq(Members) /\ Size(s) = Len(file[s]) /\ Size(s) \in Nat
      /\ synced[s] \in Nat /\ synced[s] <= Size(s)
  BY SizeFacts, SizesOrdered DEF Exists, IInv
<1>2. ASSUME NEW n \in synced[s]..Size(s)
      PROVE  /\ n \in Nat /\ SubSeq(file[s], 1, n) \in Seq(Members) /\ Len(SubSeq(file[s], 1, n)) = n
             /\ \A i \in 1..n : SubSeq(file[s], 1, n)[i] = file[s][i]
  <2>1. n \in Nat /\ \A i \in 1..n : file[s][i] \in Members
    BY <1>1, ElementOfSeq
  <2>2. /\ SubSeq(file[s], 1, n) \in Seq(Members)
        /\ Len(SubSeq(file[s], 1, n)) = IF 1 <= n THEN n - 1 + 1 ELSE 0
        /\ \A i \in 1..n - 1 + 1 : SubSeq(file[s], 1, n)[i] = file[s][1 + i - 1]
    BY <2>1, SubSeqProperties
  <2> QED BY <2>1, <2>2
<1>3. CASE \E n \in synced[s]..Size(s) : x = SubSeq(file[s], 1, n)
  BY <1>1, <1>2, <1>3
<1>4. CASE \E n \in synced[s]..(Size(s) - 1) : x = Append(SubSeq(file[s], 1, n), Torn)
  <2> PICK n \in synced[s]..(Size(s) - 1) : x = Append(SubSeq(file[s], 1, n), Torn)
    BY <1>4
  <2> DEFINE f == SubSeq(file[s], 1, n)
  <2>1. /\ n \in Nat /\ synced[s] <= n /\ n < Size(s) /\ f \in Seq(Members) /\ Len(f) = n
        /\ \A i \in 1..n : f[i] = file[s][i]
    BY <1>1, <1>2
  <2> HIDE DEF f
  <2>2. Torn \in Members
    BY DEF Members
  <2>3. /\ Append(f, Torn) \in Seq(Members) /\ Len(Append(f, Torn)) = n + 1
        /\ Append(f, Torn)[n + 1] = Torn /\ \A i \in 1..n : Append(f, Torn)[i] = file[s][i]
    BY <2>1, <2>2, AppendProperties
  <2>4. x = Append(f, Torn)
    BY DEF f
  <2> QED BY <2>1, <2>3, <2>4, <1>1
<1>5. CASE x = Absent /\ s \notin entry
  BY <1>5
<1> QED BY <1>3, <1>4, <1>5 DEF Survivors

(* ... and of all of them.                                                 *)
LEMMA Lost ==
  ASSUME IInv, PowerLoss
  PROVE  /\ file' \in [Shards -> Seq(Members) \cup {Absent}]
         /\ Exists' \subseteq Exists /\ entry' = Exists' /\ synced' = Sizes'
         /\ \A s \in entry : s \in Exists'
         /\ \A s \in Shards \ Unsynced : file'[s] = file[s]
         /\ \A s \in Exists' : /\ Size(s)' \in Nat /\ synced[s] <= Size(s)' /\ Size(s)' <= Size(s)
                               /\ \A i \in 1..Size(s)' :
                                     \/ file'[s][i] = file[s][i]
                                     \/ file'[s][i] = Torn /\ i = Size(s)' /\ synced[s] < i
<1>0. Absent \notin Seq(Members)
  BY WarcBoundsAssumption
<1>1. PICK left \in [Unsynced -> UNION {Survivors(s) : s \in Unsynced}] :
          /\ \A s \in Unsynced : left[s] \in Survivors(s)
          /\ file' = [s \in Shards |-> IF s \in Unsynced THEN left[s] ELSE file[s]]
          /\ entry' = {s \in Exists : file'[s] # Absent}
          /\ synced' = [s \in Shards |-> IF s \in entry' THEN Len(file'[s]) ELSE 0]
  BY DEF PowerLoss
<1>2. Unsynced \subseteq Exists /\ Exists \subseteq Shards
  BY DEF Unsynced, Exists
<1>3. file \in [Shards -> Seq(Members) \cup {Absent}]
  BY DEF IInv, TypeOK
<1>4. \A s \in Shards : file'[s] = IF s \in Unsynced THEN left[s] ELSE file[s]
  BY <1>1
<1>5. \A s \in Unsynced :
          \/ file'[s] = Absent /\ s \notin entry
          \/ /\ file'[s] \in Seq(Members) /\ Len(file'[s]) \in Nat
             /\ synced[s] <= Len(file'[s]) /\ Len(file'[s]) <= Size(s)
             /\ \A i \in 1..Len(file'[s]) :
                   \/ file'[s][i] = file[s][i]
                   \/ file'[s][i] = Torn /\ i = Len(file'[s]) /\ synced[s] < i
  BY <1>1, <1>2, <1>4, SurvivorFacts
<1>6. file' \in [Shards -> Seq(Members) \cup {Absent}]
  BY <1>1, <1>2, <1>3, <1>4, <1>5
<1>7. Exists' \subseteq Exists /\ entry' = Exists'
  BY <1>1, <1>2, <1>4 DEF Exists
<1>8. \A s \in Exists' : Size(s)' = Len(file'[s])
  BY DEF Exists, Size
<1>9. synced' = Sizes'
  BY <1>1, <1>7 DEF Sizes, Size, Exists
<1>10. \A s \in entry : s \in Exists'
  BY <1>0, <1>2, <1>4, <1>5 DEF Exists, IInv, TypeOK
<1>11. ASSUME NEW s \in Exists'
       PROVE  /\ Size(s)' \in Nat /\ synced[s] <= Size(s)' /\ Size(s)' <= Size(s)
              /\ \A i \in 1..Size(s)' :
                    \/ file'[s][i] = file[s][i]
                    \/ file'[s][i] = Torn /\ i = Size(s)' /\ synced[s] < i
  <2>1. s \in Exists /\ s \in Shards /\ file'[s] # Absent
    BY <1>2, <1>7 DEF Exists
  <2>2. CASE s \in Unsynced
    BY <2>1, <2>2, <1>5, <1>8
  <2>3. CASE s \notin Unsynced
    <3>1. file'[s] = file[s] /\ Size(s)' = Size(s)
      BY <2>1, <2>3, <1>4 DEF Size
    <3> QED BY <2>1, <3>1, SizesOrdered
  <2> QED BY <2>2, <2>3
<1> QED BY <1>4, <1>6, <1>7, <1>9, <1>10, <1>11

LEMMA OnlyNewestUnsynced ==
  ASSUME IInv, ~(Cardinality(Unsynced) > 1), NEW s \in Unsynced
  PROVE  \A r \in Exists : r <= s
<1> SUFFICES ASSUME NEW r \in Exists, s < r
             PROVE  FALSE
  BY DEF Unsynced, Exists, Shards
<1>1. s \in Exists /\ s \in Shards /\ r \in Shards /\ s # r
  BY DEF Unsynced, Exists, Shards
<1>2. r \notin entry
  BY <1>1, SizesOrdered DEF IInv, SyncedInOrder, Unsynced
<1>3. r \in Unsynced
  BY <1>2 DEF Unsynced
<1>4. IsFiniteSet(Unsynced)
  <2>1. MaxShards \in Int /\ 1 \in Int
    BY WarcBoundsAssumption
  <2>2. IsFiniteSet(1..MaxShards)
    BY <2>1, FS_Interval
  <2>3. Unsynced \in SUBSET (1..MaxShards)
    BY DEF Unsynced, Exists, Shards
  <2> QED BY <2>2, <2>3, FS_Subset
<1>5. Cardinality({s}) = 1 /\ IsFiniteSet({s})
  BY FS_Singleton
<1>6. Cardinality({s} \cup {r}) = 2 /\ IsFiniteSet({s} \cup {r})
  <2>1. r \notin {s}
    BY <1>1
  <2> QED BY <1>5, <2>1, FS_AddElement
<1>7. Cardinality({s} \cup {r}) <= Cardinality(Unsynced) /\ Cardinality(Unsynced) \in Nat
  BY <1>3, <1>4, FS_Subset, FS_CardinalityType
<1> QED BY <1>6, <1>7

LEMMA PowerLossKeeps ==
  ASSUME IInv, PowerLoss
  PROVE  IInv' /\ Checkpointed \subseteq Checkpointed'
<1>1. /\ file' \in [Shards -> Seq(Members) \cup {Absent}]
      /\ Exists' \subseteq Exists /\ entry' = Exists' /\ synced' = Sizes'
      /\ \A s \in entry : s \in Exists'
      /\ \A s \in Shards \ Unsynced : file'[s] = file[s]
      /\ \A s \in Exists' : /\ Size(s)' \in Nat /\ synced[s] <= Size(s)' /\ Size(s)' <= Size(s)
                            /\ \A i \in 1..Size(s)' :
                                  \/ file'[s][i] = file[s][i]
                                  \/ file'[s][i] = Torn /\ i = Size(s)' /\ synced[s] < i
  BY Lost
<1>2. /\ pc \notin {"done", "refused"} /\ pc' = "idle" /\ Forget
      /\ spilled' = (spilled \/ Cardinality(Unsynced) > 1)
      /\ UNCHANGED <<linked, durable, baseline, index>>
  BY DEF PowerLoss, work
<1>3. stops' \in 0..MaxStops /\ spilled' \in BOOLEAN
  BY WarcBoundsAssumption, <1>2 DEF PowerLoss, IInv, TypeOK
<1>4. \A s \in Shards : /\ durable[s] \in Nat /\ synced[s] \in Nat /\ Size(s) \in Nat
                        /\ durable[s] <= synced[s] /\ synced[s] <= Size(s)
                        /\ durable[s] > 0 => s \in entry
  BY SizesOrdered DEF IInv, RecordsOnDisk, CheckpointOnDisk
<1>5. \A s \in Exists' : s \in Exists /\ s \in Shards
  BY <1>1 DEF Exists
<1>6. synced' \in [Shards -> Nat] /\ \A s \in Shards : synced'[s] = Size(s)'
  <2>1. \A s \in Shards : s \notin Exists' => Size(s)' = 0
    BY DEF Exists, Size
  <2>2. synced' = [s \in Shards |-> Size(s)']
    BY <1>1 DEF Sizes
  <2> QED BY <1>1, <2>1, <2>2
<1>7. StoredOnce' /\ RecordedHold' /\ Checkpointed \subseteq Checkpointed'
  <2>1. \A s \in Exists' : \A i \in 1..Size(s)' :
            file'[s][i] = Torn \/ (s \in Exists /\ i \in 1..Size(s) /\ file'[s][i] = file[s][i])
    BY <1>1, <1>4, <1>5
  <2>2. \A s \in Shards : durable[s] > 0 =>
            s \in Exists' /\ \A i \in 1..durable[s] : file'[s][i] = file[s][i]
    <3> SUFFICES ASSUME NEW s \in Shards, durable[s] > 0, NEW i \in 1..durable[s]
                 PROVE  s \in Exists' /\ file'[s][i] = file[s][i]
      BY <1>1, <1>4
    <3>1. s \in Exists'
      BY <1>1, <1>4
    <3>2. i \in Nat /\ i <= synced[s] /\ i \in 1..Size(s)'
      BY <3>1, <1>1, <1>4
    <3> QED BY <3>1, <3>2, <1>1, <1>4
  <2> QED BY <1>2, <2>1, <2>2, NothingNew DEF work
<1>8. TypeOK'
  BY <1>1, <1>2, <1>3, <1>6 DEF IInv, TypeOK, Forget
<1>9. CheckpointOnDisk'
  BY <1>1, <1>2, <1>4, <1>6 DEF CheckpointOnDisk
<1>10. RecordsOnDisk'
  BY <1>2, <1>7, <1>9 DEF IInv, RecordsOnDisk, InventoryDurable
<1>11. TornLast'
  <2> SUFFICES ASSUME NEW s \in Exists', NEW i \in 1..Size(s)', file'[s][i] = Torn
               PROVE  i = Size(s)' /\ durable[s] < i
    BY <1>2 DEF TornLast
  <2>1. s \in Exists /\ s \in Shards /\ i \in Nat /\ i <= Size(s)' /\ i <= Size(s) /\ i \in 1..Size(s)
    BY <1>1, <1>4, <1>5
  <2>2. CASE file'[s][i] = file[s][i]
    <3>1. i = Size(s) /\ durable[s] < i
      BY <2>1, <2>2 DEF IInv, TornLast
    <3> QED BY <3>1, <2>1, <1>1, <1>4
  <2>3. CASE i = Size(s)' /\ synced[s] < i
    BY <2>1, <2>3, <1>4
  <2> QED BY <2>2, <2>3, <1>1
<1>12. Covered' /\ PathsReady' /\ Fresh' /\ Started' /\ Writing'
  BY <1>2 DEF Covered, PathsReady, Fresh, Started, Writing, Forget
<1>13. \A s \in linked : s \in Exists' /\ ~IsTorn(s)' /\ s \in Shards
  <2> TAKE s \in linked
  <2>1. s \in Shards /\ s \in entry /\ s \in Exists /\ synced[s] = Size(s) /\ ~IsTorn(s)
    BY LinkedRecorded DEF IInv, TypeOK, LinkedWhole
  <2>2. s \notin Unsynced
    BY <2>1, <1>4 DEF Unsynced
  <2>3. file'[s] = file[s]
    BY <2>1, <2>2, <1>1
  <2> QED BY <2>1, <2>3, <1>1 DEF IsTorn, Size
<1>14. LinkedWhole'
  BY <1>1, <1>2, <1>6, <1>13 DEF LinkedWhole, Forget
<1>15. SyncedInOrder'
  BY <1>1, <1>5, <1>6 DEF SyncedInOrder
<1>16. OneLoose'
  <2> SUFFICES ASSUME ~spilled', NEW s \in Exists', ~Has(s)' \/ IsTorn(s)'
               PROVE  s = Newest'
    BY <1>2 DEF OneLoose
  <2>1. s \in Exists /\ s \in Shards
    BY <1>5
  <2>2. \A r \in Exists : r <= s
    <3>1. CASE s \in Unsynced
      BY <3>1, <1>2, OnlyNewestUnsynced
    <3>2. CASE s \notin Unsynced
      <4>1. file'[s] = file[s]
        BY <2>1, <3>2, <1>1
      <4>2. ~Has(s) \/ IsTorn(s)
        BY <4>1 DEF Has, IsTorn, Size
      <4>3. s = Newest
        BY <2>1, <4>2, <1>2, LooseIsNewest
      <4> QED BY <4>3, <2>1, NewestFacts
    <3> QED BY <3>1, <3>2
  <2>3. \A r \in Exists' : r <= s
    BY <2>2, <1>1
  <2>4. Exists' \subseteq Shards /\ Newest' = Max(Exists')
    BY DEF Exists, Newest
  <2>5. Newest' \in Exists' /\ \A r \in Exists' : r <= Newest'
    BY <2>4, MaxOfShards
  <2> QED BY <2>3, <2>4, <2>5 DEF Shards
<1> QED BY <1>7, <1>8, <1>10, <1>11, <1>12, <1>14, <1>15, <1>16 DEF IInv

LEMMA SameRecord ==
  ASSUME UNCHANGED <<file, durable>>
  PROVE  Checkpointed \subseteq Checkpointed'
BY DEF Checkpointed, Stored

(* Every step keeps the invariant, and every URL group that was            *)
(* checkpointed.                                                           *)
LEMMA NextKeeps ==
  ASSUME IInv, [Next]_vars
  PROVE  IInv' /\ Checkpointed \subseteq Checkpointed'
<1>1. CASE UNCHANGED vars
  <2>1. UNCHANGED <<storage, work, index, pc, memory, stops, spilled>>
        /\ UNCHANGED <<file, synced, entry, linked, durable, baseline, target, paths, todo, group,
                       touched, resume>>
    BY <1>1 DEF vars, storage, work, memory
  <2>2. TypeOK' /\ RecordsOnDisk' /\ StoredOnce' /\ TornLast' /\ RecordedHold'
    BY <2>1, SameFile, SameStorage
       DEF IInv, TypeOK, Exists, RecordsOnDisk, InventoryDurable, TornLast
  <2>3. Stored(file, Sizes)' = Stored(file, Sizes)
    BY <2>1, SameFile DEF Stored
  <2>4. Fresh'
    BY <2>1, <2>3, SameFile DEF IInv, Fresh, Exists
  <2>5. Started'
    BY <2>1, SameFile DEF IInv, Started, Exists
  <2>6. Writing'
    BY <2>1 DEF IInv, Writing, IsTorn, Size, Newest, Exists
  <2>7. Covered' /\ PathsReady'
    BY <2>1, SameFile DEF IInv, Covered, Unrecorded, PathsReady, Exists
  <2>8. LinkedWhole' /\ SyncedInOrder' /\ OneLoose'
    BY <2>1, SameFile, SameStorage DEF IInv, LinkedWhole, OneLoose, Exists, TypeOK
  <2> QED BY <2>1, <2>2, <2>4, <2>5, <2>6, <2>7, <2>8, SameRecord DEF IInv
<1>2. CASE OpenAny
  BY <1>2, OpenKeeps, SameRecord DEF OpenAny, Open, storage, work
<1>3. CASE ScanRefused \/ Scanned \/ TidyRefused \/ Tidy \/ Install
  BY <1>3, ScanRefusedKeeps, ScannedKeeps, TidyRefusedKeeps, TidyKeeps, InstallKeeps, SameRecord
     DEF ScanRefused, Scanned, TidyRefused, Tidy, Install, storage, work
<1>4. CASE \E s \in Shards : Repair(s) \/ TidyRemove(s)
  BY <1>4, RepairKeeps, TidyRemoveKeeps
<1>5. CASE Checkpointing
  BY <1>5, SyncDirectoryKeeps, SaveKeeps, NoCheckpointKeeps, SyncShardKeeps, SameRecord
     DEF Checkpointing, SyncDirectory, NoCheckpoint, SyncShard, storage, work
<1>6. CASE Discover \/ EndGroup \/ Finish
  BY <1>6, DiscoverKeeps, EndGroupKeeps, FinishKeeps, SameRecord
     DEF Discover, EndGroup, Finish, storage, work
<1>7. CASE \E urls \in SUBSET todo : \E resolved \in SUBSET urls : NextGroup(urls, resolved)
  BY <1>7, NextGroupKeeps, SameRecord DEF NextGroup, storage, work
<1>8. CASE \E s \in Shards : BeginWrite(s)
  BY <1>8, BeginWriteKeeps
<1>9. CASE \E c \in group : EndWrite(c)
  BY <1>9, EndWriteKeeps
<1>10. CASE FailWrite
  BY <1>10, FailWriteKeeps
<1>11. CASE Kill
  BY <1>11, KillKeeps, SameRecord DEF Kill, storage, work
<1>12. CASE PowerLoss
  BY <1>12, PowerLossKeeps
<1> QED BY <1>1, <1>2, <1>3, <1>4, <1>5, <1>6, <1>7, <1>8, <1>9, <1>10, <1>11, <1>12
        DEF Next, Recovery, Acquisition

LEMMA IInvAlways == Spec => []IInv
<1>1. IInv /\ [Next]_vars => IInv'
  BY NextKeeps
<1> QED BY InitIInv, <1>1, PTL DEF Spec

(* The stage's storage, its record and the run's memory hold what the code *)
(* can put there.                                                          *)
THEOREM WarcTypeCorrect == Spec => []TypeOK
<1>1. IInv => TypeOK
  BY DEF IInv
<1> QED BY <1>1, IInvAlways, PTL

(* work.json and the staged index never run ahead of the disk.             *)
(* (checkpoint, prepare_inventory)                                         *)
THEOREM RecordsAlwaysOnDisk == Spec => []RecordsOnDisk
<1>1. IInv => RecordsOnDisk
  BY DEF IInv
<1> QED BY <1>1, IInvAlways, PTL

(* No capture is ever stored twice. (prepare_inventory, write_captures)    *)
THEOREM NothingStoredTwice == Spec => []StoredOnce
<1>1. IInv => StoredOnce
  BY DEF IInv
<1> QED BY <1>1, IInvAlways, PTL

(* A stage is refused only after a power loss that found two shards with   *)
(* unsynced bytes. (scan_warcs, prepare_inventory)                         *)
THEOREM StageResumable == Spec => []Resumable
<1>1. IInv => Resumable
  BY DEF IInv, OneLoose, Resumable
<1> QED BY <1>1, IInvAlways, PTL

LEMMA StillStored ==
  ASSUME \A s \in Exists : \A i \in Captured(s) :
             s \in Exists' /\ i \in Captured(s)' /\ file'[s][i] = file[s][i]
  PROVE  Stored(file, Sizes) \subseteq Stored(file', Sizes')
<1> SUFFICES ASSUME NEW x \in Stored(file, Sizes)
             PROVE  x \in Stored(file', Sizes')
  OBVIOUS
<1>1. PICK s \in Shards : x \in Captures /\ file[s] # Absent /\ \E i \in 1..Sizes[s] : file[s][i] = x
  BY StoredIff
<1>2. Sizes[s] = Size(s) /\ Sizes'[s] = Size(s)' /\ s \in Exists
  BY <1>1 DEF Sizes, Exists
<1>3. PICK i \in 1..Size(s) : file[s][i] = x
  BY <1>1, <1>2
<1>4. file'[s] # Absent /\ i \in 1..Sizes'[s] /\ file'[s][i] = x
  BY <1>1, <1>2, <1>3 DEF Captured, Exists
<1> QED BY <1>1, <1>4, StoredIff

(* Only a power loss takes a complete capture away.                        *)
LEMMA OnlyPowerLossForgets ==
  ASSUME IInv, [Next]_vars, ~PowerLoss
  PROVE  Stored(file, Sizes) \subseteq Stored(file', Sizes')
<1> SUFFICES ASSUME NEW s \in Exists, NEW i \in Captured(s)
             PROVE  s \in Exists' /\ i \in Captured(s)' /\ file'[s][i] = file[s][i]
  BY StillStored
<1>1. s \in Shards /\ i \in 1..Size(s) /\ file[s][i] \in Captures /\ Size(s) \in Nat
  BY SizesOrdered DEF Exists, Captured
<1>2. Torn \notin Captures
  BY WarcBoundsAssumption
<1>3. CASE UNCHANGED file
  BY <1>3, <1>1, SameFile
<1>4. ASSUME NEW n \in Exists, IsTorn(n), file' = [file EXCEPT ![n] = Front(file[n])]
      PROVE  s \in Exists' /\ i \in Captured(s)' /\ file'[s][i] = file[s][i]
  <2>1. /\ Exists' = Exists /\ Size(n)' = Size(n) - 1
        /\ \A r \in Shards : r # n => Size(r)' = Size(r) /\ file'[r] = file[r]
        /\ \A j \in 1..Size(n) - 1 : file'[n][j] = file[n][j]
    BY <1>4, TornDropped
  <2>2. s = n => i # Size(n)
    BY <1>1, <1>2, <1>4 DEF IsTorn
  <2> QED BY <1>1, <2>1, <2>2 DEF Captured
<1>5. CASE \E n \in Shards : Repair(n)
  BY <1>4, <1>5 DEF Repair, Whole
<1>6. CASE FailWrite
  BY <1>4, <1>6, NewestFacts DEF FailWrite, IInv, Writing
<1>7. CASE \E n \in Shards : TidyRemove(n)
  <2> PICK n \in Shards : TidyRemove(n)
    BY <1>7
  <2>1. s # n
    BY DEF TidyRemove, Empty
  <2>2. file'[s] = file[s]
    BY <1>1, <2>1 DEF TidyRemove, IInv, TypeOK
  <2> QED BY <1>1, <2>2 DEF Exists, Captured, Size
<1>8. CASE \E n \in Shards : BeginWrite(n)
  <2> PICK n \in Shards : BeginWrite(n)
    BY <1>8
  <2>1. /\ Exists' = Exists \cup {n} /\ Size(n) \in Nat /\ Size(n)' = Size(n) + 1
        /\ \A j \in 1..Size(n) : file'[n][j] = file[n][j]
        /\ \A r \in Shards : r # n => Size(r)' = Size(r) /\ file'[r] = file[r]
    BY Begun
  <2> QED BY <1>1, <2>1 DEF Captured
<1>9. CASE \E c \in group : EndWrite(c)
  <2> PICK c \in group : EndWrite(c)
    BY <1>9
  <2>1. Newest \in Shards /\ IsTorn(Newest)
    BY NewestFacts DEF EndWrite, IInv, Writing
  <2> PICK n \in Shards : n = Newest
    BY <2>1
  <2>2. /\ Exists' = Exists /\ \A r \in Shards : Size(r)' = Size(r)
        /\ \A r \in Shards : r # n => file'[r] = file[r]
        /\ \A j \in 1..Size(n) - 1 : file'[n][j] = file[n][j]
    BY Ended
  <2>3. s = n => i # Size(n)
    BY <1>1, <1>2, <2>1 DEF IsTorn
  <2> QED BY <1>1, <2>2, <2>3 DEF Captured
<1>10. CASE UNCHANGED vars \/ OpenAny \/ Kill \/ Checkpointing
  BY <1>3, <1>10 DEF vars, OpenAny, Open, Kill, Checkpointing, SyncDirectory, Save, NoCheckpoint,
                     SyncShard, storage
<1>11. CASE ScanRefused \/ Scanned \/ TidyRefused \/ Tidy \/ Install
  BY <1>3, <1>11 DEF ScanRefused, Scanned, TidyRefused, Tidy, Install, storage
<1>12. CASE \/ Discover \/ EndGroup \/ Finish
            \/ \E urls \in SUBSET todo : \E resolved \in SUBSET urls : NextGroup(urls, resolved)
  BY <1>3, <1>12 DEF Discover, EndGroup, Finish, NextGroup, storage
<1> QED BY <1>5, <1>6, <1>7, <1>8, <1>9, <1>10, <1>11, <1>12 DEF Next, Recovery, Acquisition

(* What a URL group's checkpoint recorded stays, whatever happens; what it *)
(* has not recorded yet is lost to a power loss only. (scan_warcs)         *)
THEOREM CapturesAlwaysKept == Spec => CapturesKept
<1>1. IInv /\ [Next]_vars =>
        [ /\ Checkpointed \subseteq Checkpointed'
          /\ Stored(file, Sizes) \subseteq Stored(file', Sizes') \/ PowerLoss ]_vars
  BY NextKeeps, OnlyPowerLossForgets
<1> QED BY <1>1, IInvAlways, PTL DEF Spec, CapturesKept
=============================================================================
