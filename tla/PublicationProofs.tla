-------------------------- MODULE PublicationProofs --------------------------
(***************************************************************************)
(* Theorems about Publication, for any WARCs and caches, any additions to  *)
(* them, and any interruptions and outside writes: the receipt stays true, *)
(* the published index honest, nobody's additions are overwritten, and no  *)
(* local file is lost.                                                     *)
(***************************************************************************)
EXTENDS Publication, SequenceTheorems, TLAPS

(* All but the index only ever grow: one holds at least what another did.  *)
Grown == Objects \ {Index}
Holds(new, old) == \A f \in Grown : IsPrefix(Stored(old[f]), Stored(new[f]))
HoldsWherePresent(new, old) ==
    \A f \in Grown : new[f] # Absent => IsPrefix(Stored(old[f]), Stored(new[f]))

(* Where a command is past its preflight; and where no generation is open. *)
Opened == {"purge", "clear", "year", "cache", "acquire", "commit", "promote", "finish",
           "publish", "publishdata", "upload", "verify"}
WithoutGeneration == {"preflight", "purge", "clear", "year", "cache", "acquire", "publish",
            "publishdata", "upload", "verify", "restoring", "evicting"}
Sending == {"upload", "verify"}

CommandInv ==
    pc \in {"recover", "generation", "preflight"} => command \in {"fetch", "reset", "sync"}

(* A generation is open from its record to its end, and its files and what *)
(* it would go back to extend what they would replace.                     *)
GenerationInv ==
    /\ pc \in WithoutGeneration => generation = None
    /\ pc \in {"commit", "promote", "finish"} => generation # None
    /\ generation # None => HoldsWherePresent(generation.previous, baseline)
    /\ pc = "commit" => HoldsWherePresent(generation.files, local)

(* What ready.json would promote extends the local files; until it has     *)
(* been promoted no other command gets past its first step.  A year being  *)
(* acquired has a stage.                                                   *)
ReadyInv ==
    /\ ready # None => /\ staging /\ HoldsWherePresent(ready, local)
                       /\ pc \in {"promote", "idle", "recover", "restore", "evict"}
    /\ pc = "promote" => ready # None
    /\ pc \in {"acquire", "cache", "commit"} \/ (pc \in Sending /\ after = "acquire") => staging

(* Intentions extend what is published; after a preflight so do the local  *)
(* files.  A reset has forgotten what it purges before it purges it.       *)
ReceiptInv ==
    /\ HoldsWherePresent(pending, baseline)
    /\ pc \in Opened => Holds(local, baseline)
    /\ pc \in {"purge", "clear"} => \A f \in Data : baseline[f] = Absent

(* While a generation is open nothing has been uploaded since the bucket   *)
(* was last compared with the receipt.                                     *)
TruthInv ==
    /\ ReceiptTruthful
    /\ outside = 0 /\ generation # None => remote = baseline

(* What is queued is here and intended.  An index in the queue is honest   *)
(* about the local WARCs, and those no longer in the queue are published.  *)
QueueInv ==
    /\ pc \in Sending => \A f \in queue : local[f] # Absent /\ pending[f] = local[f]
    /\ pc = "cache" => queue \subseteq Caches /\ \A f \in queue : local[f] # Absent
    /\ pc = "publishdata" \/ (pc \in Sending /\ (after = "publishdata" \/ Index \in queue)) =>
           Honest(local)
    /\ pc \in Sending /\ Index \in queue =>
           \A w \in Warcs \ queue : Listed(w) => remote[w] = local[w]

EvictInv == pc = "evicting" => \A f \in Has(local) : remote[f] = local[f]

IInv ==
    /\ TypeOK /\ CommandInv /\ GenerationInv /\ ReadyInv /\ ReceiptInv
    /\ TruthInv /\ QueueInv /\ EvictInv

----------------------------------------------------------------------------
(***************************************************************************)
(* Sequences, and views of objects                                         *)
(***************************************************************************)
LEMMA Kinds ==
    /\ Index \in Objects /\ Grown \subseteq Objects /\ Warcs \subseteq Grown /\ Caches \subseteq Grown
    /\ Objects = Data \cup Caches /\ Data \cap Caches = {} /\ Warcs \cap Caches = {}
    /\ Index \in Data /\ Index \notin Warcs /\ Index \notin Caches /\ Index \notin Grown
    /\ Absent \notin Records /\ Absent \notin Listings
    /\ \A f \in Grown : f \in Objects /\ f # Index
    /\ \A f \in Objects : f = Index \/ f \in Grown
  BY ObjectsAssumption DEF Objects, Data, Grown

LEMMA GenerationIsSome == None \notin [previous : Views, files : Views] /\ None \notin Views
  BY ObjectsAssumption

(* A prefix is shorter and agrees as far as it goes. *)
LEMMA PrefixMeans ==
    ASSUME NEW s \in Records, NEW t \in Records
    PROVE  IsPrefix(s, t) <=> Len(s) <= Len(t) /\ \A i \in 1..Len(s) : s[i] = t[i]
<1>1. /\ Len(s) \in Nat /\ Len(t) \in Nat
      /\ \A i \in 1..Len(s) : s[i] \in {Here, There}
      /\ \A i \in 1..Len(t) : t[i] \in {Here, There}
  BY DEF Records
<1>2. /\ SubSeq(s, 1, Len(s)) \in Seq({Here, There}) /\ Len(SubSeq(s, 1, Len(s))) = Len(s)
      /\ \A i \in 1..Len(s) : SubSeq(s, 1, Len(s))[i] = s[i]
  <2>1. \A i \in 1..Len(s) : s[i] \in {Here, There}
    BY <1>1
  <2>2. /\ SubSeq(s, 1, Len(s)) \in Seq({Here, There})
        /\ Len(SubSeq(s, 1, Len(s))) = IF 1 <= Len(s) THEN Len(s) - 1 + 1 ELSE 0
        /\ \A i \in 1..(Len(s) - 1 + 1) : SubSeq(s, 1, Len(s))[i] = s[1 + i - 1]
    BY <1>1, <2>1, SubSeqProperties
  <2> QED BY <1>1, <2>2
<1>3. CASE Len(s) <= Len(t)
  <2>1. \A i \in 1..Len(s) : t[i] \in {Here, There}
    BY <1>1, <1>3
  <2>2. /\ SubSeq(t, 1, Len(s)) \in Seq({Here, There})
        /\ Len(SubSeq(t, 1, Len(s))) = IF 1 <= Len(s) THEN Len(s) - 1 + 1 ELSE 0
        /\ \A i \in 1..(Len(s) - 1 + 1) : SubSeq(t, 1, Len(s))[i] = t[1 + i - 1]
    BY <1>1, <2>1, SubSeqProperties
  <2>3. /\ SubSeq(t, 1, Len(s)) \in Seq({Here, There}) /\ Len(SubSeq(t, 1, Len(s))) = Len(s)
        /\ \A i \in 1..Len(s) : SubSeq(t, 1, Len(s))[i] = t[i]
    BY <1>1, <2>2
  <2>4. ASSUME \A i \in 1..Len(s) : s[i] = t[i]
        PROVE  SubSeq(s, 1, Len(s)) = SubSeq(t, 1, Len(s))
    <3>1. \A i \in 1..Len(s) : SubSeq(s, 1, Len(s))[i] = SubSeq(t, 1, Len(s))[i]
      BY <1>2, <2>3, <2>4
    <3> QED BY <1>2, <2>3, <3>1, SeqEqual
  <2>5. ASSUME SubSeq(s, 1, Len(s)) = SubSeq(t, 1, Len(s)), NEW i \in 1..Len(s) PROVE s[i] = t[i]
    BY <1>2, <2>3, <2>5
  <2> QED BY <1>3, <2>4, <2>5 DEF IsPrefix
<1> QED BY <1>3 DEF IsPrefix

LEMMA PrefixItself == ASSUME NEW s \in Records PROVE IsPrefix(s, s)
  BY PrefixMeans DEF Records

LEMMA PrefixThrough ==
    ASSUME NEW s \in Records, NEW t \in Records, NEW u \in Records, IsPrefix(s, t), IsPrefix(t, u)
    PROVE  IsPrefix(s, u)
<1>1. /\ Len(s) \in Nat /\ Len(t) \in Nat /\ Len(u) \in Nat
      /\ Len(s) <= Len(t) /\ \A i \in 1..Len(s) : s[i] = t[i]
      /\ Len(t) <= Len(u) /\ \A i \in 1..Len(t) : t[i] = u[i]
  BY PrefixMeans DEF Records
<1>2. Len(s) <= Len(u) /\ \A i \in 1..Len(s) : s[i] = u[i]
  BY <1>1
<1> QED BY <1>2, PrefixMeans

LEMMA EmptyPrefix == <<>> \in Records /\ \A s \in Records : IsPrefix(<<>>, s)
<1>1. <<>> \in Records /\ Len(<<>>) = 0
  BY DEF Records
<1>2. ASSUME NEW s \in Records PROVE IsPrefix(<<>>, s)
  <2>1. Len(s) \in Nat
    BY DEF Records
  <2>2. Len(<<>>) <= Len(s) /\ \A i \in 1..Len(<<>>) : <<>>[i] = s[i]
    BY <1>1, <2>1
  <2> QED BY <1>1, <2>2, PrefixMeans
<1> QED BY <1>1, <1>2

LEMMA LongerPrefix ==
    ASSUME NEW s \in Records, NEW n \in Nat
    PROVE  s \o [i \in 1..n |-> Here] \in Records /\ IsPrefix(s, s \o [i \in 1..n |-> Here])
<1> DEFINE t == [i \in 1..n |-> Here]
<1>1. t \in Seq({Here, There})
  <2>1. \A i \in 1..n : t[i] \in {Here, There}
    OBVIOUS
  <2>2. t \in [1..n -> {Here, There}]
    OBVIOUS
  <2> QED BY <2>2, SeqDef
<1> HIDE DEF t
<1>2. /\ s \o t \in Seq({Here, There}) /\ Len(s \o t) = Len(s) + Len(t)
      /\ \A i \in 1..(Len(s) + Len(t)) : (s \o t)[i] = IF i <= Len(s) THEN s[i] ELSE t[i - Len(s)]
  BY <1>1, ConcatProperties DEF Records
<1>3. Len(s) \in Nat /\ Len(t) \in Nat
  BY <1>1 DEF Records
<1>4. Len(s) <= Len(s \o t) /\ \A i \in 1..Len(s) : s[i] = (s \o t)[i]
  BY <1>2, <1>3
<1>5. s \o t \in Records
  BY <1>2 DEF Records
<1>6. IsPrefix(s, s \o t)
  BY <1>4, <1>5, PrefixMeans
<1> QED BY <1>5, <1>6 DEF t

(* What a view has at an object, and which functions are views. *)
Kind(f) == IF f = Index THEN Listings ELSE Records

LEMMA ViewHas ==
    ASSUME NEW v \in Views
    PROVE  /\ v = [f \in Objects |-> v[f]]
           /\ \A f \in Objects : v[f] = Absent \/ v[f] \in Kind(f)
  BY DEF Views, Kind

LEMMA IsView ==
    ASSUME NEW v, v = [f \in Objects |-> v[f]], \A f \in Objects : v[f] = Absent \/ v[f] \in Kind(f)
    PROVE  v \in Views
<1>1. \A f \in Objects : v[f] \in Contents
  BY DEF Kind, Contents
<1>2. v \in [Objects -> Contents]
  BY <1>1
<1> QED BY <1>2 DEF Views, Kind

LEMMA StoredIsRecords == ASSUME NEW v \in Views, NEW f \in Grown PROVE Stored(v[f]) \in Records
  BY ViewHas, Kinds, EmptyPrefix DEF Kind, Stored

LEMMA PresentIsRecords ==
    ASSUME NEW v \in Views, NEW f \in Grown, v[f] # Absent
    PROVE  v[f] \in Records /\ Stored(v[f]) = v[f]
  BY ViewHas, Kinds DEF Kind, Stored

LEMMA NothingIsView == Nothing \in Views
  BY IsView DEF Nothing

LEMMA UpdatedIsView ==
    ASSUME NEW v \in Views, NEW new \in Views
    PROVE  Updated(v, new) \in Views
  BY IsView, ViewHas DEF Updated

LEMMA OnlyIsView == ASSUME NEW v \in Views, NEW keep PROVE Only(v, keep) \in Views
  BY IsView, ViewHas DEF Only

LEMMA ExceptIsView ==
    ASSUME NEW v \in Views, NEW f \in Objects, NEW x, x = Absent \/ x \in Kind(f)
    PROVE  [v EXCEPT ![f] = x] \in Views
<1> DEFINE w == [v EXCEPT ![f] = x]
<1>1. w = [g \in Objects |-> w[g]] /\ \A g \in Objects : w[g] = IF g = f THEN x ELSE v[g]
  BY ViewHas
<1>2. \A g \in Objects : w[g] = Absent \/ w[g] \in Kind(g)
  BY <1>1, ViewHas
<1> HIDE DEF w
<1>3. w \in Views
  BY <1>1, <1>2, IsView
<1> QED BY <1>3 DEF w

LEMMA ScanIsListing == ASSUME NEW v \in Views PROVE Scan(v) \in Listings
<1>1. \A w \in Warcs : Stored(v[w]) \in Records
  BY StoredIsRecords, Kinds
<1> QED BY <1>1 DEF Scan, Listings

LEMMA MoreIsLonger ==
    ASSUME NEW v \in Views, NEW f \in Grown, NEW n \in Nat
    PROVE  /\ More(v, f, n) \in Records
           /\ IsPrefix(Stored(v[f]), More(v, f, n)) /\ Stored(More(v, f, n)) = More(v, f, n)
<1>1. Stored(v[f]) \in Records
  BY StoredIsRecords
<1>2. More(v, f, n) \in Records /\ IsPrefix(Stored(v[f]), More(v, f, n))
  BY <1>1, LongerPrefix DEF More
<1> QED BY <1>2, Kinds DEF Stored

(* The artifacts of a year extend the local files they replace. *)
LEMMA ArtifactsExtend ==
    ASSUME local \in Views, NEW growth \in [Warcs -> 0..MaxRecords]
    PROVE  Artifacts(growth) \in Views /\ HoldsWherePresent(Artifacts(growth), local)
<1> DEFINE grown == [f \in Objects |-> IF f \in Warcs /\ growth[f] > 0
                                       THEN More(local, f, growth[f]) ELSE Absent]
           all == Promoted(grown)
           index == IF \E w \in Warcs : all[w] # Absent THEN Scan(all) ELSE Absent
           x == IF index = local[Index] THEN Absent ELSE index
<1>1. \A w \in Warcs : growth[w] \in Nat
  BY BoundsAssumption
<1>2. \A w \in Warcs : /\ More(local, w, growth[w]) \in Records
                       /\ IsPrefix(Stored(local[w]), More(local, w, growth[w]))
                       /\ Stored(More(local, w, growth[w])) = More(local, w, growth[w])
  BY <1>1, MoreIsLonger, Kinds
<1>3. grown \in Views
  <2>1. \A f \in Objects : grown[f] = Absent \/ grown[f] \in Kind(f)
    BY <1>2, Kinds DEF Kind
  <2>2. grown = [f \in Objects |-> grown[f]]
    OBVIOUS
  <2> HIDE DEF grown
  <2> QED BY <2>1, <2>2, IsView
<1>4. all \in Views
  BY <1>3, UpdatedIsView DEF Promoted
<1>5. x = Absent \/ x \in Kind(Index)
  BY <1>4, ScanIsListing DEF Kind
<1>6. Artifacts(growth) = [grown EXCEPT ![Index] = x]
  BY DEF Artifacts
<1>7. Artifacts(growth) \in Views
  <2> HIDE DEF grown, x
  <2>1. [grown EXCEPT ![Index] = x] \in Views
    BY <1>3, <1>5, ExceptIsView, Kinds
  <2> QED BY <1>6, <2>1
<1>8. \A f \in Grown : Artifacts(growth)[f] = grown[f]
  BY <1>6, Kinds
<1>9. HoldsWherePresent(Artifacts(growth), local)
  BY <1>2, <1>8, Kinds DEF HoldsWherePresent
<1> QED BY <1>7, <1>9

(* What holds at least as much, through another view and through updates. *)
LEMMA HoldsThrough ==
    ASSUME NEW a \in Views, NEW b \in Views, NEW c \in Views, Holds(b, a)
    PROVE  /\ Holds(c, b) => Holds(c, a)
           /\ HoldsWherePresent(c, b) => HoldsWherePresent(c, a)
<1>1. \A f \in Grown : /\ Stored(a[f]) \in Records /\ Stored(b[f]) \in Records
                       /\ Stored(c[f]) \in Records
  BY StoredIsRecords
<1>2. \A f \in Grown : IsPrefix(Stored(a[f]), Stored(b[f]))
  BY DEF Holds
<1>3. \A f \in Grown : IsPrefix(Stored(b[f]), Stored(c[f])) => IsPrefix(Stored(a[f]), Stored(c[f]))
  BY <1>1, <1>2, PrefixThrough
<1> QED BY <1>3 DEF Holds, HoldsWherePresent

LEMMA HoldsUpdated ==
    ASSUME NEW v \in Views, NEW new \in Views, HoldsWherePresent(new, v)
    PROVE  Holds(Updated(v, new), v)
<1> SUFFICES ASSUME NEW f \in Grown PROVE IsPrefix(Stored(v[f]), Stored(Updated(v, new)[f]))
  BY DEF Holds
<1>1. Updated(v, new)[f] = IF new[f] # Absent THEN new[f] ELSE v[f]
  BY Kinds DEF Updated
<1>2. IsPrefix(Stored(v[f]), Stored(v[f]))
  BY StoredIsRecords, PrefixItself
<1> QED BY <1>1, <1>2 DEF HoldsWherePresent

LEMMA HoldsPart ==
    ASSUME NEW v \in Views, NEW new \in Views, NEW keep, HoldsWherePresent(new, v)
    PROVE  HoldsWherePresent(Only(new, keep), v)
  BY Kinds DEF HoldsWherePresent, Only

LEMMA HoldsJoined ==
    ASSUME NEW v \in Views, NEW old \in Views, NEW new \in Views,
           HoldsWherePresent(old, v), HoldsWherePresent(new, v)
    PROVE  HoldsWherePresent(Updated(old, new), v)
  BY Kinds DEF HoldsWherePresent, Updated

----------------------------------------------------------------------------
(***************************************************************************)
(* The invariant holds initially and is kept by every action               *)
(***************************************************************************)
LEMMA InitIInv == Init => IInv
<1> SUFFICES ASSUME Init PROVE IInv
  OBVIOUS
<1>1. /\ local = Nothing /\ remote = Nothing /\ baseline = Nothing /\ pending = Nothing
      /\ generation = None /\ ready = None /\ staging = FALSE /\ fetched = FALSE
      /\ pc = "idle" /\ command = "sync" /\ seen = {} /\ queue = {} /\ after = "idle"
      /\ crashes = 0 /\ outside = 0
  BY DEF Init
<1>2. TypeOK
  <2>1. crashes \in 0..MaxCrashes /\ outside \in 0..MaxOutside
    BY <1>1, BoundsAssumption
  <2> QED BY <1>1, <2>1, NothingIsView DEF TypeOK, Steps, Commands
<1>3. HoldsWherePresent(pending, baseline)
  BY <1>1, Kinds DEF HoldsWherePresent, Nothing
<1>4. ReceiptTruthful
  BY <1>1 DEF ReceiptTruthful, Has, Nothing
<1> QED BY <1>1, <1>2, <1>3, <1>4 DEF IInv, CommandInv, GenerationInv, ReadyInv, ReceiptInv,
           TruthInv, QueueInv, EvictInv, Sending, WithoutGeneration, Opened

(* The files of this workstation, the bucket and the receipt. *)
Files == <<local, remote, baseline, pending, generation, ready>>

(* A command that ends, or dies, leaves the files: they are all that the   *)
(* invariant is about when nothing runs.                                   *)
LEMMA EndKeeps ==
    ASSUME IInv, End, UNCHANGED Files, staging' = staging, outside' = outside,
           fetched' \in BOOLEAN, crashes' \in 0..MaxCrashes
    PROVE  IInv'
<1>1. /\ UNCHANGED <<local, remote, baseline, pending, generation, ready>>
      /\ pc' = "idle" /\ command' = "sync" /\ seen' = {} /\ queue' = {} /\ after' = "idle"
  BY DEF End, Files
<1>2. TypeOK'
  BY <1>1 DEF IInv, TypeOK, Steps, Commands
<1>3. ReceiptTruthful'
  BY <1>1 DEF IInv, TruthInv, ReceiptTruthful
<1>4. CommandInv' /\ GenerationInv' /\ ReadyInv'
  BY <1>1 DEF IInv, CommandInv, GenerationInv, ReadyInv, WithoutGeneration, Sending
<1>5. ReceiptInv' /\ TruthInv'
  BY <1>1, <1>3 DEF IInv, ReceiptInv, TruthInv, Opened
<1>6. QueueInv' /\ EvictInv'
  BY <1>1 DEF QueueInv, EvictInv, Sending
<1> QED BY <1>2, <1>4, <1>5, <1>6 DEF IInv

(* A step of a command that changes no file. *)
LEMMA StepKeeps ==
    ASSUME IInv, UNCHANGED Files, staging' \in {staging, TRUE}, UNCHANGED counters,
           fetched' \in BOOLEAN, command' \in Commands, seen' \subseteq Caches,
           queue' \in {{}, queue}, after' \in {"idle", "acquire", "publishdata"},
           pc' \in Steps \ {"commit", "promote", "finish", "cache", "evicting"},
           pc' \notin Sending, pc' = "acquire" => staging', ready # None => pc' \in {"idle", "recover", "restore", "evict"},
           pc' \in {"recover", "generation", "preflight"} => command' \in {"fetch", "reset", "sync"},
           pc' \in WithoutGeneration => generation = None,
           pc' \in Opened => pc \in Opened,
           pc' \in {"purge", "clear"} => pc \in {"purge", "clear"},
           pc' = "publishdata" => Honest(local)
    PROVE  IInv'
<1>1. /\ UNCHANGED <<local, remote, baseline, pending, generation, ready>>
      /\ UNCHANGED <<crashes, outside>>
  BY DEF Files, counters
<1>2. TypeOK'
  BY <1>1 DEF IInv, TypeOK
<1>3. ReceiptTruthful'
  BY <1>1 DEF IInv, TruthInv, ReceiptTruthful
<1>4. CommandInv' /\ GenerationInv' /\ ReadyInv'
  BY <1>1 DEF IInv, TypeOK, CommandInv, GenerationInv, ReadyInv, Sending
<1>5. ReceiptInv' /\ TruthInv'
  BY <1>1, <1>3 DEF IInv, ReceiptInv, TruthInv
<1>6. QueueInv' /\ EvictInv'
  BY <1>1 DEF QueueInv, EvictInv, Sending
<1> QED BY <1>2, <1>4, <1>5, <1>6 DEF IInv

LEMMA StartKeeps == ASSUME IInv, NEW c \in Commands, Start(c) PROVE IInv'
<1>1. /\ pc = "idle" /\ UNCHANGED Files /\ UNCHANGED counters /\ UNCHANGED <<staging, fetched>>
      /\ command' = c /\ pc' = IF c \in {"restore", "evict"} THEN c ELSE "recover"
      /\ UNCHANGED <<seen, queue, after>>
  BY DEF Start, Files, receipt, stageDisk
<1>2. fetched' \in BOOLEAN /\ seen' \subseteq Caches /\ after' \in {"idle", "acquire", "publishdata"}
  BY <1>1 DEF IInv, TypeOK
<1>3. pc' \in {"restore", "evict", "recover"} /\ (pc' = "recover" => c \in {"fetch", "reset", "sync"})
  BY <1>1 DEF Commands
<1> QED BY <1>1, <1>2, <1>3, StepKeeps DEF Steps, Sending, WithoutGeneration, Opened

LEMMA RefusedKeeps ==
    ASSUME IInv, GenerationRefused \/ PreflightRefused \/ PublishRefused \/ Evicted
    PROVE  IInv'
<1>1. End /\ UNCHANGED Files /\ UNCHANGED counters /\ UNCHANGED <<staging, fetched>>
  BY DEF GenerationRefused, PreflightRefused, PublishRefused, Evicted, Files, receipt, stageDisk
<1>2. fetched' \in BOOLEAN /\ crashes' \in 0..MaxCrashes /\ outside' = outside
  BY <1>1 DEF IInv, TypeOK, counters
<1> QED BY <1>1, <1>2, EndKeeps

LEMMA CrashKeeps == ASSUME IInv, Crash PROVE IInv'
<1>1. /\ End /\ UNCHANGED Files /\ UNCHANGED <<staging, fetched, outside>>
      /\ crashes < MaxCrashes /\ crashes' = crashes + 1
  BY DEF Crash, Files, receipt, stageDisk
<1>2. fetched' \in BOOLEAN /\ crashes' \in 0..MaxCrashes
  BY <1>1, BoundsAssumption DEF IInv, TypeOK
<1> QED BY <1>1, <1>2, EndKeeps

LEMMA RestoreKeeps == ASSUME IInv, Restore PROVE IInv'
<1>1. /\ pc = "restore" /\ UNCHANGED Files /\ UNCHANGED counters /\ UNCHANGED staging
      /\ \/ Restorable /\ fetched' = TRUE /\ pc' = "restoring" /\ UNCHANGED process
         \/ End /\ UNCHANGED fetched
  BY DEF Restore, Files, receipt, stageDisk
<1>2. CASE End /\ UNCHANGED fetched
  BY <1>1, <1>2, EndKeeps DEF IInv, TypeOK, counters
<1>3. CASE Restorable /\ fetched' = TRUE /\ pc' = "restoring" /\ UNCHANGED process
  <2>1. generation = None /\ ready = None
    BY <1>3 DEF Restorable, Unresolved, IInv, ReadyInv
  <2>2. /\ command' \in Commands /\ seen' \subseteq Caches /\ queue' = queue
        /\ after' \in {"idle", "acquire", "publishdata"}
    BY <1>3 DEF IInv, TypeOK, process
  <2> QED BY <1>1, <1>3, <2>1, <2>2, StepKeeps DEF Steps, Sending, Opened
<1> QED BY <1>1, <1>2, <1>3

LEMMA EvictKeeps == ASSUME IInv, Evict PROVE IInv'
<1>1. /\ pc = "evict" /\ UNCHANGED <<local, remote, baseline, pending, generation, ready, staging>>
      /\ UNCHANGED <<fetched, crashes, outside>>
      /\ \/ Evictable /\ pc' = "evicting" /\ UNCHANGED <<command, seen, queue, after>>
         \/ End
  BY DEF Evict, receipt, stageDisk, counters, process
<1>2. CASE End
  BY <1>1, <1>2, EndKeeps DEF IInv, TypeOK, Files
<1>3. CASE Evictable /\ pc' = "evicting" /\ UNCHANGED <<command, seen, queue, after>>
  <2>1. generation = None /\ ready = None
    BY <1>3 DEF Evictable, Unresolved, IInv, ReadyInv
  <2>2. TypeOK'
    BY <1>1, <1>3 DEF IInv, TypeOK, Steps
  <2>3. ReceiptTruthful'
    BY <1>1 DEF IInv, TruthInv, ReceiptTruthful
  <2>4. CommandInv' /\ GenerationInv' /\ ReadyInv'
    BY <1>1, <1>3, <2>1 DEF IInv, CommandInv, GenerationInv, ReadyInv, Sending
  <2>5. ReceiptInv' /\ TruthInv'
    BY <1>1, <1>3, <2>3 DEF IInv, ReceiptInv, TruthInv, Opened
  <2>6. EvictInv'
    BY <1>1, <1>3 DEF EvictInv, Evictable
  <2>7. QueueInv'
    BY <1>1, <1>3 DEF QueueInv, Sending
  <2> QED BY <2>2, <2>4, <2>5, <2>6, <2>7 DEF IInv
<1> QED BY <1>1, <1>2, <1>3

(* Cleared, OpenStage, YearFails and the end of a batch of uploads. *)
LEMMA MoveKeeps == ASSUME IInv, Cleared \/ OpenStage \/ YearFails PROVE IInv'
<1>1. /\ pc \in {"clear", "year", "cache", "acquire", "commit"}
      /\ UNCHANGED Files /\ UNCHANGED counters /\ staging' \in {staging, TRUE}
      /\ UNCHANGED <<fetched, command, seen, after>> /\ queue' \in {{}, queue}
      /\ \/ pc = "clear" /\ pc' = "year"
         \/ pc = "year" /\ pc' = "acquire" /\ staging' = TRUE
         \/ pc' = "failed"
  BY DEF Cleared, OpenStage, YearFails, Files, receipt, stageDisk, process
<1>2. /\ fetched' \in BOOLEAN /\ command' \in Commands /\ seen' \subseteq Caches
      /\ after' \in {"idle", "acquire", "publishdata"}
  BY <1>1 DEF IInv, TypeOK
<1>3. ready = None /\ (pc \in {"clear", "year"} => generation = None)
  BY <1>1 DEF IInv, ReadyInv, GenerationInv, WithoutGeneration
<1> QED BY <1>1, <1>2, <1>3, StepKeeps DEF Steps, Sending, Opened, WithoutGeneration

LEMMA UploadedKeeps == ASSUME IInv, Uploaded PROVE IInv'
<1>1. /\ pc = "upload" /\ UNCHANGED Files /\ UNCHANGED counters /\ UNCHANGED <<staging, fetched>>
      /\ \/ after = "idle" /\ End
         \/ after # "idle" /\ pc' = after /\ after' = "idle" /\ UNCHANGED <<command, seen, queue>>
  BY DEF Uploaded, Files, receipt, stageDisk
<1>2. CASE End
  BY <1>1, <1>2, EndKeeps DEF IInv, TypeOK, counters
<1>3. CASE after # "idle" /\ pc' = after /\ after' = "idle" /\ UNCHANGED <<command, seen, queue>>
  <2>1. /\ pc' \in {"acquire", "publishdata"} /\ fetched' \in BOOLEAN /\ command' \in Commands
        /\ seen' \subseteq Caches
    BY <1>1, <1>3 DEF IInv, TypeOK
  <2>2. ready = None /\ generation = None
    BY <1>1 DEF IInv, ReadyInv, GenerationInv, WithoutGeneration
  <2>3. pc' = "publishdata" => Honest(local)
    BY <1>1, <1>3 DEF IInv, QueueInv, Sending
  <2>4. pc' = "acquire" => staging'
    BY <1>1, <1>3 DEF IInv, ReadyInv, Sending
  <2> QED BY <1>1, <1>3, <2>1, <2>2, <2>3, <2>4, StepKeeps DEF Steps, Sending, Opened, WithoutGeneration
<1> QED BY <1>1, <1>2, <1>3

LEMMA RecoverKeeps == ASSUME IInv, Recover PROVE IInv'
<1>1. /\ pc = "recover" /\ pc' = "generation"
      /\ UNCHANGED <<remote, baseline, pending, generation, fetched, command, seen, queue, after, crashes, outside>>
      /\ \/ ready = None /\ UNCHANGED <<local, staging, ready>>
         \/ ready # None /\ local' = Promoted(ready) /\ ready' = None /\ staging' = FALSE
  BY DEF Recover, receipt, stageDisk, process, counters
<1>2. local' \in Views /\ staging' \in BOOLEAN /\ ready' = None
  BY <1>1, UpdatedIsView DEF IInv, TypeOK, Promoted
<1>3. TypeOK'
  BY <1>1, <1>2 DEF IInv, TypeOK, Steps
<1>4. ReceiptTruthful'
  BY <1>1 DEF IInv, TruthInv, ReceiptTruthful
<1>5. CommandInv' /\ GenerationInv' /\ ReadyInv'
  BY <1>1, <1>2 DEF IInv, CommandInv, GenerationInv, ReadyInv, Sending, WithoutGeneration
<1>6. ReceiptInv' /\ TruthInv'
  BY <1>1, <1>4 DEF IInv, ReceiptInv, TruthInv, Opened
<1>7. QueueInv' /\ EvictInv'
  BY <1>1 DEF QueueInv, EvictInv, Sending
<1> QED BY <1>3, <1>5, <1>6, <1>7 DEF IInv

(* A lost generation gives back the intentions it found: nothing had been  *)
(* uploaded since.                                                         *)
LEMMA SettleKeeps == ASSUME IInv, GenerationInPlace \/ GenerationNeverStarted PROVE IInv'
<1>1. /\ pc \in {"generation", "failed"} /\ generation' = None
      /\ UNCHANGED <<local, remote, baseline, staging, ready, fetched, crashes, outside>>
      /\ \/ UNCHANGED pending
         \/ generation # None /\ pending' = generation.previous
      /\ \/ pc = "generation" /\ pc' = "preflight" /\ UNCHANGED <<command, seen, queue, after>>
         \/ End
  BY DEF GenerationInPlace, GenerationNeverStarted, Settling, Settled, receipt, stageDisk, process, counters
<1>2. ready = None
  BY <1>1 DEF IInv, ReadyInv
<1>3. pending' \in Views /\ HoldsWherePresent(pending', baseline)
  BY <1>1 DEF IInv, TypeOK, ReceiptInv, GenerationInv
<1>4. TypeOK'
  BY <1>1, <1>3 DEF IInv, TypeOK, Steps, Commands, End
<1>5. ReceiptTruthful'
  <2>1. CASE UNCHANGED pending
    BY <1>1, <2>1 DEF IInv, TruthInv, ReceiptTruthful
  <2>2. CASE generation # None
    BY <1>1, <2>2 DEF IInv, TruthInv, ReceiptTruthful, Has
  <2> QED BY <1>1, <2>1, <2>2
<1>6. CommandInv' /\ GenerationInv' /\ ReadyInv'
  BY <1>1, <1>2 DEF IInv, CommandInv, GenerationInv, ReadyInv, Sending, End
<1>7. ReceiptInv' /\ TruthInv'
  BY <1>1, <1>3, <1>5 DEF ReceiptInv, TruthInv, Opened, End
<1>8. QueueInv' /\ EvictInv'
  BY <1>1 DEF QueueInv, EvictInv, Sending, End
<1> QED BY <1>4, <1>6, <1>7, <1>8 DEF IInv

(* What preflight accepts, object by object: the receipt becomes what the  *)
(* bucket holds, and the local files hold at least that.                   *)
LEMMA PreflightSettles ==
    ASSUME IInv, Preflight, NEW f \in Objects
    PROVE  /\ baseline'[f] = (IF f \in Scope THEN remote[f] ELSE Absent)
           /\ pending'[f] = Absent \/ (pending'[f] = pending[f] /\ f \in Scope /\ baseline'[f] = baseline[f])
           /\ baseline'[f] # Absent =>
                 local[f] = baseline'[f] \/ (local[f] = pending[f] /\ local[f] # Absent /\ baseline'[f] = baseline[f])
<1>1. /\ baseline' = Updated(Known, Bucket) /\ pending' = StillPending /\ PreflightAccepts
  BY DEF Preflight
<1>2. /\ Known[f] = (IF f \in Scope THEN baseline[f] ELSE Absent)
      /\ Bucket[f] = (IF f \in Scope THEN remote[f] ELSE Absent)
      /\ Intended[f] = (IF f \in Scope THEN pending[f] ELSE Absent)
  BY DEF Known, Bucket, Intended, Only
<1>3. /\ baseline'[f] = (IF Bucket[f] # Absent THEN Bucket[f] ELSE Known[f])
      /\ pending'[f] = (IF f \in Objects \ Adopted THEN Intended[f] ELSE Absent)
  BY <1>1 DEF Updated, StillPending, Only
<1>4. Known[f] # Absent => Bucket[f] # Absent
  BY <1>1 DEF PreflightAccepts, Has
<1>5. Bucket[f] # Absent => Acceptable(f)
  BY <1>1 DEF PreflightAccepts, Has
<1>6. f \in Adopted <=> Bucket[f] # Absent /\ Known[f] # Bucket[f]
  BY DEF Adopted, Has
<1>7. baseline'[f] = Bucket[f]
  BY <1>3, <1>4
<1>8. baseline'[f] = (IF f \in Scope THEN remote[f] ELSE Absent)
  BY <1>2, <1>7
<1>9. pending'[f] = Absent \/ (pending'[f] = pending[f] /\ f \in Scope /\ baseline'[f] = baseline[f])
  BY <1>2, <1>3, <1>4, <1>6, <1>7
<1>10. baseline'[f] # Absent =>
          local[f] = baseline'[f] \/ (local[f] = pending[f] /\ local[f] # Absent /\ baseline'[f] = baseline[f])
  BY <1>2, <1>5, <1>7 DEF Acceptable
<1> QED BY <1>8, <1>9, <1>10

LEMMA PreflightKeeps == ASSUME IInv, Preflight PROVE IInv'
<1>1. /\ pc = "preflight" /\ pc' = (CASE command = "fetch" -> "year" [] command = "reset" -> "purge"
                                      [] command = "sync" -> "publish")
      /\ baseline' = Updated(Known, Bucket) /\ pending' = StillPending
      /\ UNCHANGED <<local, remote, generation, staging, ready, fetched, command, seen, queue, after, crashes, outside>>
  BY DEF Preflight, stageDisk, process, counters
<1>2. command \in {"fetch", "reset", "sync"} /\ generation = None /\ ready = None
  BY <1>1 DEF IInv, CommandInv, GenerationInv, ReadyInv, WithoutGeneration
<1>3. pc' \in {"year", "purge", "publish"} /\ (pc' = "purge" => command = "reset")
  BY <1>1, <1>2
<1>4. baseline' \in Views /\ pending' \in Views
  BY <1>1, UpdatedIsView, OnlyIsView DEF IInv, TypeOK, Known, Bucket, StillPending, Intended
<1>5. TypeOK'
  BY <1>1, <1>3, <1>4 DEF IInv, TypeOK, Steps
<1>6. HoldsWherePresent(pending', baseline')
  BY PreflightSettles, Kinds DEF IInv, ReceiptInv, HoldsWherePresent
<1>7. Holds(local, baseline')
  <2> SUFFICES ASSUME NEW f \in Grown PROVE IsPrefix(Stored(baseline'[f]), Stored(local[f]))
    BY DEF Holds
  <2>1. Stored(local[f]) \in Records
    BY StoredIsRecords DEF IInv, TypeOK
  <2>2. CASE baseline'[f] = Absent
    BY <2>1, <2>2, EmptyPrefix DEF Stored
  <2>3. CASE local[f] = baseline'[f]
    BY <2>1, <2>3, PrefixItself
  <2>4. CASE local[f] = pending[f] /\ local[f] # Absent /\ baseline'[f] = baseline[f]
    BY <2>4 DEF IInv, ReceiptInv, HoldsWherePresent
  <2> QED BY <2>2, <2>3, <2>4, PreflightSettles, Kinds
<1>8. pc' = "purge" => \A f \in Data : baseline'[f] = Absent
  BY <1>3, PreflightSettles, Kinds DEF Scope
<1>9. ReceiptTruthful'
  BY <1>1, PreflightSettles DEF ReceiptTruthful, Has
<1>10. CommandInv' /\ GenerationInv' /\ ReadyInv'
  BY <1>1, <1>2, <1>3 DEF CommandInv, GenerationInv, ReadyInv, Sending
<1>11. ReceiptInv' /\ TruthInv'
  BY <1>1, <1>2, <1>3, <1>6, <1>7, <1>8, <1>9 DEF ReceiptInv, TruthInv
<1>12. QueueInv' /\ EvictInv'
  BY <1>3 DEF QueueInv, EvictInv, Sending
<1> QED BY <1>5, <1>10, <1>11, <1>12 DEF IInv

(***************************************************************************)
(* A reset                                                                 *)
(***************************************************************************)
LEMMA PurgeKeeps == ASSUME IInv, NEW f \in Data, Purge(f) PROVE IInv'
<1>1. /\ pc = "purge" /\ remote' = [remote EXCEPT ![f] = Absent]
      /\ UNCHANGED <<local, baseline, pending, generation, staging, ready, fetched, pc, command, seen, queue, after, crashes, outside>>
  BY DEF Purge, receipt, stageDisk, process, counters
<1>2. generation = None
  BY <1>1 DEF IInv, GenerationInv, WithoutGeneration
<1>3. remote' \in Views /\ \A g \in Objects \ {f} : remote'[g] = remote[g]
  BY <1>1, ExceptIsView, ViewHas, Kinds DEF IInv, TypeOK
<1>4. TypeOK'
  BY <1>1, <1>3 DEF IInv, TypeOK
<1>5. ReceiptTruthful'
  BY <1>1, <1>3 DEF IInv, TruthInv, ReceiptInv, ReceiptTruthful, Has
<1>6. CommandInv' /\ GenerationInv' /\ ReadyInv'
  BY <1>1 DEF IInv, CommandInv, GenerationInv, ReadyInv, Sending
<1>7. ReceiptInv' /\ TruthInv'
  BY <1>1, <1>2, <1>5 DEF IInv, ReceiptInv, TruthInv
<1>8. QueueInv' /\ EvictInv'
  BY <1>1 DEF QueueInv, EvictInv, Sending
<1> QED BY <1>4, <1>6, <1>7, <1>8 DEF IInv

LEMMA ResetReceiptKeeps == ASSUME IInv, ResetReceipt PROVE IInv'
<1>1. /\ pc = "purge" /\ pc' = "clear"
      /\ baseline' = Only(baseline, Caches) /\ pending' = Only(pending, Caches)
      /\ UNCHANGED <<local, remote, generation, staging, ready, fetched, command, seen, queue, after, crashes, outside>>
  BY DEF ResetReceipt, stageDisk, process, counters
<1>2. generation = None /\ ready = None
  BY <1>1 DEF IInv, GenerationInv, ReadyInv, WithoutGeneration
<1>3. /\ baseline' \in Views /\ pending' \in Views
      /\ \A f \in Objects : /\ baseline'[f] = (IF f \in Caches THEN baseline[f] ELSE Absent)
                            /\ pending'[f] = (IF f \in Caches THEN pending[f] ELSE Absent)
  BY <1>1, OnlyIsView DEF IInv, TypeOK, Only
<1>4. TypeOK'
  BY <1>1, <1>3 DEF IInv, TypeOK, Steps
<1>5. HoldsWherePresent(pending', baseline')
  BY <1>3, Kinds DEF IInv, ReceiptInv, HoldsWherePresent
<1>6. Holds(local, baseline')
  <2> SUFFICES ASSUME NEW f \in Grown PROVE IsPrefix(Stored(baseline'[f]), Stored(local[f]))
    BY DEF Holds
  <2>1. Stored(local[f]) \in Records
    BY StoredIsRecords DEF IInv, TypeOK
  <2>2. CASE baseline'[f] = Absent
    BY <2>1, <2>2, EmptyPrefix DEF Stored
  <2>3. CASE baseline'[f] = baseline[f]
    BY <1>1, <2>3 DEF IInv, ReceiptInv, Opened, Holds
  <2> QED BY <1>3, <2>2, <2>3, Kinds
<1>7. ReceiptTruthful'
  BY <1>1, <1>3 DEF IInv, TruthInv, ReceiptTruthful, Has
<1>8. CommandInv' /\ GenerationInv' /\ ReadyInv'
  BY <1>1, <1>2 DEF CommandInv, GenerationInv, ReadyInv, Sending
<1>9. ReceiptInv' /\ TruthInv'
  BY <1>1, <1>2, <1>3, <1>5, <1>6, <1>7, Kinds DEF ReceiptInv, TruthInv
<1>10. QueueInv' /\ EvictInv'
  BY <1>1 DEF QueueInv, EvictInv, Sending
<1> QED BY <1>4, <1>8, <1>9, <1>10 DEF IInv

LEMMA ClearKeeps == ASSUME IInv, Clear PROVE IInv'
<1>1. /\ pc = "clear" /\ staging' \in {staging, FALSE}
      /\ UNCHANGED <<remote, baseline, pending, generation, ready, fetched, pc, command, seen, queue, after, crashes, outside>>
      /\ \/ UNCHANGED local
         \/ \E f \in Data : local' = [local EXCEPT ![f] = Absent]
  BY DEF Clear, receipt, process, counters
<1>2. generation = None /\ ready = None
  BY <1>1 DEF IInv, GenerationInv, ReadyInv, WithoutGeneration
<1>3. local' \in Views /\ \A g \in Objects \ Data : local'[g] = local[g]
  BY SMTT(30), <1>1, ExceptIsView, ViewHas, Kinds DEF IInv, TypeOK
<1>4. TypeOK'
  BY <1>1, <1>3 DEF IInv, TypeOK
<1>5. Holds(local', baseline)
  <2> SUFFICES ASSUME NEW f \in Grown PROVE IsPrefix(Stored(baseline[f]), Stored(local'[f]))
    BY DEF Holds
  <2>1. CASE f \in Data
    BY <1>1, <1>3, <2>1, StoredIsRecords, EmptyPrefix DEF IInv, ReceiptInv, Stored
  <2>2. CASE f \notin Data
    BY <1>1, <1>3, <2>2, Kinds DEF IInv, ReceiptInv, Opened, Holds
  <2> QED BY <2>1, <2>2
<1>6. ReceiptTruthful'
  BY <1>1 DEF IInv, TruthInv, ReceiptTruthful
<1>7. CommandInv' /\ GenerationInv' /\ ReadyInv'
  BY <1>1, <1>2 DEF CommandInv, GenerationInv, ReadyInv, Sending
<1>8. ReceiptInv' /\ TruthInv'
  BY <1>1, <1>2, <1>5, <1>6 DEF IInv, ReceiptInv, TruthInv
<1>9. QueueInv' /\ EvictInv'
  BY <1>1 DEF QueueInv, EvictInv, Sending
<1> QED BY <1>4, <1>7, <1>8, <1>9 DEF IInv

(***************************************************************************)
(* A year of a fetch                                                       *)
(***************************************************************************)
(* Local files that grow hold what the bucket held. *)
LEMMA GrowthHolds ==
    ASSUME IInv, pc \in Opened, local' \in Views, Holds(local', local)
    PROVE  Holds(local', baseline)
  BY HoldsThrough DEF IInv, TypeOK, ReceiptInv

LEMMA UseCacheKeeps == ASSUME IInv, NEW d \in Caches, UseCache(d) PROVE IInv' /\ Holds(local', local)
<1>1. /\ pc = "acquire" /\ pc' = "cache" /\ seen' = seen \cup {d} /\ queue' = {d}
      /\ UNCHANGED <<remote, baseline, pending, generation, staging, ready, fetched, command, after, crashes, outside>>
      /\ \/ local[d] # Absent /\ UNCHANGED local
         \/ local' = [local EXCEPT ![d] = More(local, d, 1)]
  BY DEF UseCache, receipt, stageDisk, counters
<1>2. /\ More(local, d, 1) \in Records /\ Stored(More(local, d, 1)) = More(local, d, 1)
      /\ IsPrefix(Stored(local[d]), More(local, d, 1))
  BY MoreIsLonger, Kinds DEF IInv, TypeOK
<1>3. local' \in Views /\ local'[d] # Absent /\ \A g \in Objects \ {d} : local'[g] = local[g]
  <2>1. local \in Views /\ d \in Objects /\ d # Index /\ d \in Caches
    BY Kinds DEF IInv, TypeOK
  <2>2. [local EXCEPT ![d] = More(local, d, 1)] \in Views
    BY <1>2, <2>1, ExceptIsView DEF Kind
  <2>3. More(local, d, 1) # Absent
    BY <1>2, Kinds
  <2>4. local = [f \in Objects |-> local[f]]
    BY <2>1, ViewHas
  <2> QED BY <1>1, <2>1, <2>2, <2>3, <2>4
<1>4. Holds(local', local)
  <2>1. \A f \in Grown : IsPrefix(Stored(local[f]), Stored(local[f]))
    BY StoredIsRecords, PrefixItself DEF IInv, TypeOK
  <2>2. local' = local \/ local'[d] = More(local, d, 1)
    BY <1>1, ViewHas, Kinds DEF IInv, TypeOK
  <2> QED BY <1>2, <1>3, <2>1, <2>2, Kinds DEF Holds
<1>5. Holds(local', baseline)
  BY <1>1, <1>3, <1>4, GrowthHolds DEF Opened
<1>6. generation = None /\ ready = None /\ staging
  BY <1>1 DEF IInv, GenerationInv, ReadyInv, WithoutGeneration
<1>7. TypeOK'
  BY <1>1, <1>3, Kinds DEF IInv, TypeOK, Steps
<1>8. ReceiptTruthful'
  BY <1>1 DEF IInv, TruthInv, ReceiptTruthful
<1>9. CommandInv' /\ GenerationInv' /\ ReadyInv'
  BY <1>1, <1>6 DEF CommandInv, GenerationInv, ReadyInv, Sending
<1>10. ReceiptInv' /\ TruthInv'
  BY <1>1, <1>5, <1>6, <1>8 DEF IInv, ReceiptInv, TruthInv
<1>11. QueueInv' /\ EvictInv'
  BY <1>1, <1>3 DEF QueueInv, EvictInv, Sending
<1> QED BY <1>4, <1>7, <1>9, <1>10, <1>11 DEF IInv

(* Only the index is rebuilt. *)
LEMMA ReconcileIndexKeeps ==
    ASSUME IInv, ReconcileIndex
    PROVE  IInv' /\ \A f \in Grown : local'[f] = local[f]
<1>1. /\ pc = "year" /\ End
      /\ UNCHANGED <<remote, baseline, pending, generation, staging, ready, fetched, crashes, outside>>
      /\ \/ UNCHANGED local
         \/ local' = [local EXCEPT ![Index] = Scan(local)]
  BY DEF ReconcileIndex, receipt, stageDisk, counters
<1>2. ready = None
  BY <1>1 DEF IInv, ReadyInv
<1>3. local' \in Views /\ \A f \in Grown : local'[f] = local[f]
  BY <1>1, ScanIsListing, ExceptIsView, ViewHas, Kinds DEF IInv, TypeOK, Kind
<1>4. TypeOK'
  BY <1>1, <1>3 DEF IInv, TypeOK, End, Steps, Commands
<1>5. ReceiptTruthful'
  BY <1>1 DEF IInv, TruthInv, ReceiptTruthful
<1>6. CommandInv' /\ GenerationInv' /\ ReadyInv'
  BY <1>1, <1>2 DEF IInv, CommandInv, GenerationInv, ReadyInv, Sending, End, WithoutGeneration
<1>7. ReceiptInv' /\ TruthInv'
  BY <1>1, <1>5 DEF IInv, ReceiptInv, TruthInv, End, Opened
<1>8. QueueInv' /\ EvictInv'
  BY <1>1 DEF QueueInv, EvictInv, Sending, End
<1> QED BY <1>3, <1>4, <1>6, <1>7, <1>8 DEF IInv

(* The bucket is as the receipt says when a generation is recorded, and    *)
(* the old intentions are kept with it.                                    *)
LEMMA RecordGenerationKeeps ==
    ASSUME IInv, NEW growth \in [Warcs -> 0..MaxRecords], RecordGeneration(growth)
    PROVE  IInv'
<1> DEFINE files == Artifacts(growth)
<1>1. /\ pc = "acquire" /\ pc' = "commit" /\ remote = baseline
      /\ generation' = [previous |-> pending, files |-> files]
      /\ pending' = Updated(pending, files)
      /\ UNCHANGED <<local, remote, baseline, staging, ready, fetched, command, seen, queue, after, crashes, outside>>
  BY DEF RecordGeneration, RemoteUnchanged, stageDisk, process, counters
<1>2. files \in Views /\ HoldsWherePresent(files, local)
  BY ArtifactsExtend DEF IInv, TypeOK
<1> HIDE DEF files
<1>3. local \in Views /\ baseline \in Views /\ pending \in Views
  BY DEF IInv, TypeOK
<1>4. Holds(local, baseline) /\ HoldsWherePresent(pending, baseline) /\ ready = None /\ staging
  BY <1>1 DEF IInv, ReceiptInv, ReadyInv, Opened
<1>5. HoldsWherePresent(files, baseline)
  BY <1>2, <1>3, <1>4, HoldsThrough
<1>6. pending' \in Views /\ HoldsWherePresent(pending', baseline)
  BY <1>1, <1>2, <1>3, <1>4, <1>5, UpdatedIsView, HoldsJoined
<1>7. /\ generation' \in [previous : Views, files : Views] /\ generation' # None
      /\ generation'.previous = pending /\ generation'.files = files
  BY <1>1, <1>2, <1>3, GenerationIsSome
<1>8. TypeOK'
  BY <1>1, <1>6, <1>7 DEF IInv, TypeOK, Steps
<1>9. ReceiptTruthful'
  BY <1>1 DEF ReceiptTruthful, Has
<1>10. CommandInv' /\ GenerationInv' /\ ReadyInv'
  BY <1>1, <1>2, <1>4, <1>7 DEF CommandInv, GenerationInv, ReadyInv, Sending, WithoutGeneration
<1>11. ReceiptInv' /\ TruthInv'
  BY <1>1, <1>4, <1>6, <1>9 DEF ReceiptInv, TruthInv
<1>12. QueueInv' /\ EvictInv'
  BY <1>1 DEF QueueInv, EvictInv, Sending
<1> QED BY <1>8, <1>10, <1>11, <1>12 DEF IInv

LEMMA CommitKeeps == ASSUME IInv, Commit PROVE IInv'
<1>1. /\ pc = "commit" /\ UNCHANGED <<local, remote, baseline, pending, generation, fetched>>
      /\ UNCHANGED <<command, seen, queue, after, crashes, outside>>
      /\ \/ staging' = FALSE /\ pc' = "finish" /\ UNCHANGED ready
         \/ ready' = generation.files /\ pc' = "promote" /\ UNCHANGED staging
  BY DEF Commit, receipt, process, counters
<1>2. generation # None /\ ready = None /\ HoldsWherePresent(generation.files, local)
  BY <1>1 DEF IInv, GenerationInv, ReadyInv
<1>3. generation.files \in Views /\ generation.files # None
  BY <1>2, GenerationIsSome DEF IInv, TypeOK
<1>4. TypeOK'
  BY <1>1, <1>3 DEF IInv, TypeOK, Steps
<1>5. ReceiptTruthful'
  BY <1>1 DEF IInv, TruthInv, ReceiptTruthful
<1>6. CommandInv' /\ GenerationInv'
  BY <1>1, <1>2 DEF IInv, CommandInv, GenerationInv, WithoutGeneration
<1>7. ReceiptInv' /\ TruthInv'
  BY <1>1, <1>5 DEF IInv, ReceiptInv, TruthInv, Opened
<1>8. QueueInv' /\ EvictInv'
  BY <1>1 DEF QueueInv, EvictInv, Sending
<1>9. ReadyInv'
  BY <1>1, <1>2, <1>3 DEF IInv, GenerationInv, ReadyInv, Sending
<1> QED BY <1>4, <1>6, <1>7, <1>8, <1>9 DEF IInv

LEMMA PromoteKeeps == ASSUME IInv, Promote PROVE IInv' /\ Holds(local', local)
<1>1. /\ pc = "promote" /\ pc' = "finish" /\ local' = Promoted(ready) /\ ready' = None /\ staging' = FALSE
      /\ UNCHANGED <<remote, baseline, pending, generation, fetched, command, seen, queue, after, crashes, outside>>
  BY DEF Promote, receipt, process, counters
<1>2. /\ ready \in Views /\ HoldsWherePresent(ready, local) /\ generation # None
      /\ local \in Views /\ baseline \in Views
  BY <1>1 DEF IInv, TypeOK, ReadyInv, GenerationInv
<1>3. local' \in Views /\ Holds(local', local)
  BY <1>1, <1>2, UpdatedIsView, HoldsUpdated DEF Promoted
<1>4. Holds(local', baseline)
  BY <1>1, <1>3, GrowthHolds DEF Opened
<1>5. TypeOK'
  BY <1>1, <1>3 DEF IInv, TypeOK, Steps
<1>6. ReceiptTruthful'
  BY <1>1 DEF IInv, TruthInv, ReceiptTruthful
<1>7. CommandInv' /\ GenerationInv' /\ ReadyInv'
  BY <1>1, <1>2 DEF IInv, CommandInv, GenerationInv, ReadyInv, Sending, WithoutGeneration
<1>8. ReceiptInv' /\ TruthInv'
  BY <1>1, <1>4, <1>6 DEF IInv, ReceiptInv, TruthInv
<1>9. QueueInv' /\ EvictInv'
  BY <1>1 DEF QueueInv, EvictInv, Sending
<1> QED BY <1>3, <1>5, <1>7, <1>8, <1>9 DEF IInv

(* What ready.json says extends the local files, also after a crash. *)
LEMMA RecoverHolds == ASSUME IInv, Recover PROVE Holds(local', local)
<1>1. local \in Views /\ ready \in Views \cup {None}
  BY DEF IInv, TypeOK
<1>2. CASE ready = None
  <2>1. local' = local
    BY <1>2 DEF Recover
  <2>2. \A f \in Grown : IsPrefix(Stored(local[f]), Stored(local[f]))
    BY <1>1, StoredIsRecords, PrefixItself
  <2> QED BY <2>1, <2>2 DEF Holds
<1>3. CASE ready # None
  <2>1. local' = Promoted(ready) /\ HoldsWherePresent(ready, local) /\ ready \in Views
    BY <1>1, <1>3 DEF Recover, IInv, ReadyInv
  <2> QED BY <1>1, <2>1, HoldsUpdated DEF Promoted
<1> QED BY <1>2, <1>3

LEMMA FinishKeeps == ASSUME IInv, FinishGeneration PROVE IInv'
<1>1. /\ pc = "finish" /\ generation' = None
      /\ UNCHANGED <<local, remote, baseline, pending, staging, ready, fetched, crashes, outside>>
      /\ \/ pc' = "publish" /\ UNCHANGED <<command, seen, queue, after>>
         \/ End
  BY DEF FinishGeneration, stageDisk, process, counters
<1>2. ready = None
  BY <1>1 DEF IInv, ReadyInv
<1>3. TypeOK'
  BY <1>1 DEF IInv, TypeOK, Steps, Commands, End
<1>4. ReceiptTruthful'
  BY <1>1 DEF IInv, TruthInv, ReceiptTruthful
<1>5. CommandInv' /\ GenerationInv' /\ ReadyInv'
  BY <1>1, <1>2 DEF IInv, CommandInv, GenerationInv, ReadyInv, Sending, End
<1>6. ReceiptInv' /\ TruthInv'
  BY <1>1, <1>4 DEF IInv, ReceiptInv, TruthInv, End, Opened
<1>7. QueueInv' /\ EvictInv'
  BY <1>1 DEF QueueInv, EvictInv, Sending, End
<1> QED BY <1>3, <1>5, <1>6, <1>7 DEF IInv

(***************************************************************************)
(* Publishing                                                              *)
(***************************************************************************)
(* A valid archive with an index is honest; an honest index lists records  *)
(* only of WARCs that are there.                                           *)
LEMMA ValidIsHonest == ASSUME Valid(local) PROVE Honest(local)
  BY Kinds DEF Valid, Honest, Has

LEMMA ListedIsPresent ==
    ASSUME local \in Views, Honest(local), NEW w \in Warcs, Listed(w)
    PROVE  w \in Has(local)
<1>1. local[Index] \in Listings /\ local[Index][w] # <<>> /\ local[Index][w] \in Records
  BY ViewHas, Kinds DEF Listed, Kind, Listings
<1>2. IsPrefix(local[Index][w], Stored(local[w]))
  BY DEF Honest, Listed
<1>3. ASSUME local[w] = Absent PROVE FALSE
  <2>1. IsPrefix(local[Index][w], <<>>)
    BY <1>2, <1>3 DEF Stored
  <2>2. Len(local[Index][w]) <= 0 /\ Len(local[Index][w]) \in Nat
    <3>1. Len(<<>>) = 0 /\ Len(local[Index][w]) \in Nat
      BY <1>1 DEF Records
    <3>2. Len(local[Index][w]) <= Len(<<>>)
      BY <2>1 DEF IsPrefix
    <3> QED BY <3>1, <3>2
  <2>3. local[Index][w] = <<>>
    <3>1. Len(local[Index][w]) = 0
      BY <2>2
    <3> QED BY <1>1, <3>1 DEF Records
  <2> QED BY <1>1, <2>3
<1> QED BY <1>3, Kinds DEF Has

(* Intentions are recorded of what is here and extends what is published. *)
LEMMA IntendKeeps ==
    ASSUME IInv, NEW files \in SUBSET Objects, files \subseteq Has(local), Intend(files),
           pc \in {"cache", "publish", "publishdata"}, pc' = "upload",
           files # {} => remote = baseline,
           UNCHANGED <<local, remote, baseline, generation, staging, ready, fetched>>,
           UNCHANGED <<command, seen, crashes, outside>>,
           queue' = files, after' \in {"idle", "acquire", "publishdata"},
           after' = "acquire" => pc = "cache",
           after' = "publishdata" \/ Index \in files => Honest(local),
           Index \in files => \A w \in Warcs \ files : ~Listed(w)
    PROVE  IInv'
<1>1. /\ local \in Views /\ baseline \in Views /\ pending \in Views /\ remote \in Views
      /\ generation = None /\ ready = None /\ Holds(local, baseline)
      /\ HoldsWherePresent(pending, baseline) /\ (pc = "cache" => staging)
  BY DEF IInv, TypeOK, GenerationInv, ReadyInv, ReceiptInv, WithoutGeneration, Opened
<1>2. pending' = Updated(pending, Only(local, files))
  BY DEF Intend
<1>3. Only(local, files) \in Views /\ HoldsWherePresent(local, baseline)
  BY <1>1, OnlyIsView DEF Holds, HoldsWherePresent
<1>4. pending' \in Views /\ HoldsWherePresent(pending', baseline)
  BY <1>1, <1>2, <1>3, UpdatedIsView, HoldsPart, HoldsJoined
<1>5. \A f \in Objects : pending'[f] = IF f \in files THEN local[f] ELSE pending[f]
  BY <1>2 DEF Updated, Only, Has
<1>6. TypeOK'
  BY <1>1, <1>4 DEF IInv, TypeOK, Steps
<1>7. ReceiptTruthful'
  <2>1. CASE files = {}
    BY <1>5, <2>1 DEF IInv, TruthInv, ReceiptTruthful, Has
  <2>2. CASE files # {}
    BY <2>2 DEF ReceiptTruthful, Has
  <2> QED BY <2>1, <2>2
<1>8. CommandInv' /\ GenerationInv' /\ ReadyInv'
  BY <1>1 DEF CommandInv, GenerationInv, ReadyInv, Sending
<1>9. ReceiptInv' /\ TruthInv'
  BY <1>1, <1>4, <1>7 DEF ReceiptInv, TruthInv
<1>10. \A f \in queue' : local'[f] # Absent /\ pending'[f] = local'[f]
  BY <1>5 DEF Has
<1>11. Index \in queue' => \A w \in Warcs \ queue' : ~Listed(w)'
  BY DEF Listed
<1>12. QueueInv' /\ EvictInv'
  BY <1>10, <1>11 DEF QueueInv, EvictInv
<1> QED BY <1>6, <1>8, <1>9, <1>12 DEF IInv

LEMMA PublishCacheKeeps == ASSUME IInv, PublishCache PROVE IInv'
<1>1. /\ pc = "cache" /\ pc' = "upload" /\ remote = baseline /\ Intend(queue)
      /\ UNCHANGED <<local, remote, baseline, generation, staging, ready, fetched>>
      /\ UNCHANGED <<command, seen, crashes, outside>> /\ queue' = queue /\ after' = "acquire"
  BY DEF PublishCache, RemoteUnchanged, stageDisk, counters
<1>2. queue \subseteq Caches /\ queue \subseteq Has(local) /\ Index \notin queue /\ queue \in SUBSET Objects
  BY <1>1, Kinds DEF IInv, QueueInv, Has
<1> QED BY <1>1, <1>2, IntendKeeps

LEMMA PublishCachesKeeps == ASSUME IInv, PublishCaches PROVE IInv'
<1>1. /\ pc = "publish" /\ pc' = "upload" /\ Intend(CacheFiles) /\ Publishable
      /\ CacheFiles # {} => remote = baseline
      /\ UNCHANGED <<local, remote, baseline, generation, staging, ready, fetched>>
      /\ UNCHANGED <<command, seen, crashes, outside>> /\ queue' = CacheFiles /\ after' = "publishdata"
  BY DEF PublishCaches, PublishBatch, RemoteUnchanged, stageDisk, counters
<1>2. CacheFiles \subseteq Has(local) /\ Index \notin CacheFiles /\ CacheFiles \in SUBSET Objects
  BY Kinds DEF CacheFiles
<1>3. Honest(local)
  BY <1>1, ValidIsHonest DEF Publishable
<1> QED BY <1>1, <1>2, <1>3, IntendKeeps

LEMMA PublishDataKeeps == ASSUME IInv, PublishData PROVE IInv'
<1>1. /\ pc = "publishdata" /\ pc' = "upload" /\ Intend(DataFiles)
      /\ DataFiles # {} => remote = baseline
      /\ UNCHANGED <<local, remote, baseline, generation, staging, ready, fetched>>
      /\ UNCHANGED <<command, seen, crashes, outside>> /\ queue' = DataFiles /\ after' = "idle"
  BY DEF PublishData, PublishBatch, RemoteUnchanged, stageDisk, counters
<1>2. DataFiles \subseteq Has(local) /\ DataFiles \in SUBSET Objects
  BY Kinds DEF DataFiles
<1>3. Honest(local) /\ local \in Views
  BY <1>1 DEF IInv, QueueInv, TypeOK
<1>4. \A w \in Warcs \ DataFiles : ~Listed(w)
  BY <1>3, ListedIsPresent, Kinds DEF DataFiles, Data
<1> QED BY <1>1, <1>2, <1>3, <1>4, IntendKeeps

(* An uploaded file is a queued one: here, intended, and no less than what *)
(* the receipt, and so the bucket, has.                                    *)
LEMMA QueuedFile ==
    ASSUME IInv, NEW f \in queue, pc \in Sending
    PROVE  /\ f \in Objects /\ local[f] # Absent /\ pending[f] = local[f]
           /\ local[f] \in Kind(f)
           /\ generation = None /\ ready = None
           /\ f # Index => IsPrefix(Stored(baseline[f]), Stored(local[f]))
<1>1. f \in Objects /\ local \in Views
  BY DEF IInv, TypeOK
<1>2. local[f] # Absent /\ pending[f] = local[f]
  BY DEF IInv, QueueInv
<1>3. local[f] \in Kind(f)
  BY <1>1, <1>2, ViewHas
<1>4. generation = None /\ ready = None /\ Holds(local, baseline)
  BY DEF IInv, GenerationInv, ReadyInv, ReceiptInv, Sending, WithoutGeneration, Opened
<1> QED BY <1>1, <1>2, <1>3, <1>4, Kinds DEF Holds

LEMMA UploadKeeps == ASSUME IInv, NEW f \in Objects, Upload(f) PROVE IInv'
<1>1. /\ pc = "upload" /\ pc' = "verify" /\ f \in queue /\ InOrder(f) /\ remote = baseline
      /\ remote' = [remote EXCEPT ![f] = local[f]]
      /\ UNCHANGED <<local, baseline, pending, generation, staging, ready, fetched>>
      /\ UNCHANGED <<command, seen, queue, after, crashes, outside>>
  BY DEF Upload, RemoteUnchanged, receipt, stageDisk, process, counters
<1>2. /\ local[f] # Absent /\ pending[f] = local[f] /\ local[f] \in Kind(f)
      /\ generation = None /\ ready = None
  BY <1>1, QueuedFile DEF Sending
<1>3. remote' \in Views /\ remote'[f] = local[f] /\ \A g \in Objects \ {f} : remote'[g] = remote[g]
  BY <1>1, <1>2, ExceptIsView, ViewHas DEF IInv, TypeOK
<1>4. TypeOK'
  BY <1>1, <1>3 DEF IInv, TypeOK, Steps
<1>5. ReceiptTruthful'
  BY <1>1, <1>2, <1>3 DEF ReceiptTruthful, Has
<1>6. CommandInv' /\ GenerationInv' /\ ReadyInv'
  BY <1>1, <1>2 DEF IInv, CommandInv, GenerationInv, ReadyInv, Sending
<1>7. ReceiptInv' /\ TruthInv'
  BY <1>1, <1>2, <1>5 DEF IInv, ReceiptInv, TruthInv, Opened
<1>8. ASSUME Index \in queue, NEW w \in Warcs \ queue, Listed(w) PROVE remote'[w] = local[w]
  BY <1>1, <1>3, <1>8, Kinds DEF IInv, QueueInv, Sending
<1>9. QueueInv'
  BY <1>1, <1>8 DEF IInv, QueueInv, Sending, Listed
<1>10. EvictInv'
  BY <1>1 DEF EvictInv
<1> QED BY <1>4, <1>6, <1>7, <1>9, <1>10 DEF IInv

(* A file leaves the queue when the bucket has it, whether it was uploaded *)
(* now or before.                                                          *)
LEMMA RecordedKeeps == ASSUME IInv, NEW f \in Objects, Skip(f) \/ Verify(f) PROVE IInv'
<1>1. /\ pc \in Sending /\ pc' = "upload" /\ f \in queue /\ InOrder(f) /\ queue' = queue \ {f}
      /\ pending' = [pending EXCEPT ![f] = Absent]
      /\ UNCHANGED <<local, remote, generation, staging, ready, fetched>>
      /\ UNCHANGED <<command, seen, after, crashes, outside>>
      /\ \/ remote = baseline /\ baseline[f] = pending[f] /\ UNCHANGED baseline
         \/ remote[f] = pending[f] /\ baseline' = [baseline EXCEPT ![f] = remote[f]]
  BY DEF Skip, Verify, Recorded, RemoteUnchanged, Sending, stageDisk, counters
<1>2. /\ local[f] # Absent /\ pending[f] = local[f] /\ local[f] \in Kind(f)
      /\ generation = None /\ ready = None
  BY <1>1, QueuedFile
<1>3. /\ local \in Views /\ remote \in Views /\ baseline \in Views /\ pending \in Views
  BY DEF IInv, TypeOK
<1>4. remote[f] = local[f]
  BY <1>1, <1>2
<1>5. /\ pending' \in Views /\ pending'[f] = Absent
      /\ \A g \in Objects \ {f} : pending'[g] = pending[g]
  BY <1>1, <1>3, ExceptIsView, ViewHas
<1>6. /\ baseline' \in Views /\ baseline'[f] = local[f]
      /\ \A g \in Objects \ {f} : baseline'[g] = baseline[g]
  <2>1. CASE UNCHANGED baseline /\ baseline[f] = pending[f]
    BY <1>2, <1>3, <2>1
  <2>2. CASE baseline' = [baseline EXCEPT ![f] = remote[f]]
    BY <1>2, <1>3, <1>4, <2>2, ExceptIsView, ViewHas
  <2> QED BY <1>1, <2>1, <2>2
<1>7. TypeOK'
  BY <1>1, <1>5, <1>6 DEF IInv, TypeOK, Steps
<1>8. HoldsWherePresent(pending', baseline')
  BY <1>5, <1>6, Kinds DEF IInv, ReceiptInv, HoldsWherePresent
<1>9. Holds(local, baseline')
  <2>1. Holds(local, baseline)
    BY <1>1 DEF IInv, ReceiptInv, Sending, Opened
  <2>2. f \in Grown => IsPrefix(Stored(local[f]), Stored(local[f]))
    BY <1>3, StoredIsRecords, PrefixItself
  <2> QED BY <1>6, <2>1, <2>2, Kinds DEF Holds
<1>10. ReceiptTruthful'
  <2> SUFFICES ASSUME outside = 0, NEW g \in Objects, baseline'[g] # Absent
               PROVE  remote[g] \in {baseline'[g], pending'[g]} \ {Absent}
    BY <1>1 DEF ReceiptTruthful, Has
  <2>1. CASE g = f
    BY <1>2, <1>4, <1>6, <2>1
  <2>2. CASE g # f
    BY <1>5, <1>6, <2>2 DEF IInv, TruthInv, ReceiptTruthful, Has
  <2> QED BY <2>1, <2>2
<1>11. CommandInv' /\ GenerationInv' /\ ReadyInv'
  BY <1>1, <1>2 DEF IInv, CommandInv, GenerationInv, ReadyInv, Sending
<1>12. ReceiptInv' /\ TruthInv'
  BY <1>1, <1>2, <1>8, <1>9, <1>10 DEF ReceiptInv, TruthInv
<1>13. \A g \in queue' : local[g] # Absent /\ pending'[g] = local[g]
  <2>1. \A g \in queue : g \in Objects /\ local[g] # Absent /\ pending[g] = local[g]
    BY <1>1, QueuedFile
  <2> QED BY <1>1, <1>5, <2>1
<1>14. ASSUME Index \in queue' PROVE \A w \in Warcs \ queue' : Listed(w) => remote[w] = local[w]
  <2>1. \A w \in Warcs \ queue : Listed(w) => remote[w] = local[w]
    BY <1>1, <1>14 DEF IInv, QueueInv
  <2> QED BY <1>1, <1>4, <2>1
<1>15. QueueInv'
  <2>1. after = "publishdata" \/ Index \in queue' => Honest(local)
    BY <1>1 DEF IInv, QueueInv
  <2> QED BY <1>1, <1>13, <1>14, <2>1 DEF QueueInv, Listed, Sending
<1>16. EvictInv'
  BY <1>1 DEF EvictInv
<1> QED BY <1>7, <1>11, <1>12, <1>15, <1>16 DEF IInv

(***************************************************************************)
(* Restoring and evicting, and somebody else                               *)
(***************************************************************************)
LEMMA RestoreFileKeeps ==
    ASSUME IInv, NEW f \in Objects, RestoreFile(f)
    PROVE  IInv' /\ Holds(local', local)
<1>1. /\ pc = "restoring" /\ remote[f] # Absent /\ local[f] = Absent
      /\ local' = [local EXCEPT ![f] = remote[f]]
      /\ UNCHANGED <<remote, baseline, pending, generation, staging, ready, fetched>>
      /\ UNCHANGED <<pc, command, seen, queue, after, crashes, outside>>
  BY DEF RestoreFile, receipt, stageDisk, process, counters
<1>2. generation = None /\ ready = None /\ local \in Views /\ remote \in Views
  BY <1>1 DEF IInv, TypeOK, GenerationInv, ReadyInv, WithoutGeneration
<1>3. local' \in Views /\ local'[f] = remote[f] /\ \A g \in Objects \ {f} : local'[g] = local[g]
  BY <1>1, <1>2, ExceptIsView, ViewHas
<1>4. Holds(local', local)
  <2> SUFFICES ASSUME NEW g \in Grown PROVE IsPrefix(Stored(local[g]), Stored(local'[g]))
    BY DEF Holds
  <2>1. CASE g = f
    <3>1. Stored(local[g]) = <<>>
      BY <1>1, <2>1 DEF Stored
    <3>2. Stored(local'[g]) \in Records
      BY <1>3, StoredIsRecords
    <3> QED BY <3>1, <3>2, EmptyPrefix
  <2>2. CASE g # f
    BY <1>2, <1>3, <2>2, Kinds, StoredIsRecords, PrefixItself
  <2> QED BY <2>1, <2>2
<1>5. TypeOK'
  BY <1>1, <1>3 DEF IInv, TypeOK
<1>6. ReceiptTruthful'
  BY <1>1 DEF IInv, TruthInv, ReceiptTruthful
<1>7. CommandInv' /\ GenerationInv' /\ ReadyInv'
  BY <1>1, <1>2 DEF CommandInv, GenerationInv, ReadyInv, Sending
<1>8. ReceiptInv' /\ TruthInv'
  BY <1>1, <1>2, <1>6 DEF IInv, ReceiptInv, TruthInv, Opened
<1>9. QueueInv' /\ EvictInv'
  BY <1>1 DEF QueueInv, EvictInv, Sending
<1> QED BY <1>4, <1>5, <1>7, <1>8, <1>9 DEF IInv

LEMMA RestoredKeeps == ASSUME IInv, Restored PROVE IInv'
<1>1. /\ pc = "restoring" /\ End /\ baseline' = remote /\ pending' = Nothing /\ fetched' = FALSE
      /\ UNCHANGED <<local, remote, generation, staging, ready, crashes, outside>>
  BY DEF Restored, stageDisk, counters
<1>2. generation = None /\ ready = None
  BY <1>1 DEF IInv, GenerationInv, ReadyInv, WithoutGeneration
<1>3. TypeOK'
  BY <1>1, NothingIsView DEF IInv, TypeOK, End, Steps, Commands
<1>4. HoldsWherePresent(pending', baseline')
  BY <1>1, Kinds DEF HoldsWherePresent, Nothing
<1>5. ReceiptTruthful'
  BY <1>1 DEF ReceiptTruthful, Has
<1>6. CommandInv' /\ GenerationInv' /\ ReadyInv'
  BY <1>1, <1>2 DEF CommandInv, GenerationInv, ReadyInv, Sending, End
<1>7. ReceiptInv' /\ TruthInv'
  BY <1>1, <1>2, <1>4, <1>5 DEF ReceiptInv, TruthInv, Opened, End
<1>8. QueueInv' /\ EvictInv'
  BY <1>1 DEF QueueInv, EvictInv, Sending, End
<1> QED BY <1>3, <1>6, <1>7, <1>8 DEF IInv

(* What is removed is in the bucket. *)
LEMMA EvictFileKeeps ==
    ASSUME IInv, EvictFile
    PROVE  IInv' /\ \A f \in Objects : local'[f] = local[f] \/ remote[f] = local[f]
<1>1. /\ pc = "evicting" /\ baseline' \in {baseline, Nothing}
      /\ UNCHANGED <<remote, pending, generation, staging, ready, fetched>>
      /\ UNCHANGED <<pc, command, seen, queue, after, crashes, outside>>
      /\ \/ UNCHANGED local
         \/ \E f \in Has(local) : local' = [local EXCEPT ![f] = Absent]
  BY DEF EvictFile, stageDisk, process, counters
<1>2. generation = None /\ ready = None
  BY <1>1 DEF IInv, GenerationInv, ReadyInv, WithoutGeneration
<1>3. /\ local' \in Views
      /\ \A g \in Objects : local'[g] = local[g] \/ (local'[g] = Absent /\ g \in Has(local))
  <2>1. CASE UNCHANGED local
    BY <2>1 DEF IInv, TypeOK
  <2>2. ASSUME NEW f \in Has(local), local' = [local EXCEPT ![f] = Absent]
        PROVE  /\ local' \in Views
               /\ \A g \in Objects : local'[g] = local[g] \/ (local'[g] = Absent /\ g \in Has(local))
    BY <2>2, ExceptIsView, ViewHas DEF IInv, TypeOK, Has
  <2> QED BY <1>1, <2>1, <2>2
<1>4. \A f \in Objects : local'[f] = local[f] \/ remote[f] = local[f]
  BY <1>1, <1>3 DEF IInv, EvictInv
<1>5. TypeOK'
  BY <1>1, <1>3, NothingIsView DEF IInv, TypeOK
<1>6. HoldsWherePresent(pending, Nothing)
  <2>1. pending \in Views
    BY DEF IInv, TypeOK
  <2>2. \A f \in Grown : Nothing[f] = Absent /\ Stored(pending[f]) \in Records
    BY <2>1, StoredIsRecords, Kinds DEF Nothing
  <2> QED BY <2>2, EmptyPrefix DEF HoldsWherePresent, Stored
<1>7. ReceiptTruthful'
  BY <1>1 DEF IInv, TruthInv, ReceiptTruthful, Has, Nothing
<1>8. CommandInv' /\ GenerationInv' /\ ReadyInv'
  BY <1>1, <1>2 DEF CommandInv, GenerationInv, ReadyInv, Sending
<1>9. ReceiptInv' /\ TruthInv'
  BY <1>1, <1>2, <1>6, <1>7 DEF IInv, ReceiptInv, TruthInv, Opened
<1>10. QueueInv'
  BY <1>1 DEF QueueInv, Sending
<1>11. EvictInv'
  BY <1>1, <1>3 DEF IInv, EvictInv, Has
<1> QED BY <1>4, <1>5, <1>8, <1>9, <1>10, <1>11 DEF IInv

(* Somebody else writes only where no command relies on what it has read.  *)
LEMMA OutsiderKeeps == ASSUME IInv, Outsider PROVE IInv'
<1>1. /\ pc \in {"idle", "year", "acquire"} /\ outside < MaxOutside /\ outside' = outside + 1
      /\ UNCHANGED <<local, baseline, pending, generation, staging, ready, fetched>>
      /\ UNCHANGED <<pc, command, seen, queue, after, crashes>>
      /\ \E f \in Objects :
            \/ f # Index /\ remote' = [remote EXCEPT ![f] = Append(Stored(remote[f]), There)]
            \/ f = Index /\ remote' = [remote EXCEPT ![f] = Scan(remote)]
            \/ remote' = [remote EXCEPT ![f] = Absent]
  BY DEF Outsider, receipt, stageDisk, process
<1>2. remote \in Views /\ outside \in Nat /\ outside' \in 0..MaxOutside
  BY <1>1, BoundsAssumption DEF IInv, TypeOK
<1>3. remote' \in Views
  <2> PICK f \in Objects :
            \/ f # Index /\ remote' = [remote EXCEPT ![f] = Append(Stored(remote[f]), There)]
            \/ f = Index /\ remote' = [remote EXCEPT ![f] = Scan(remote)]
            \/ remote' = [remote EXCEPT ![f] = Absent]
    BY <1>1
  <2>1. f # Index => Append(Stored(remote[f]), There) \in Records
    BY <1>2, StoredIsRecords, Kinds DEF Records
  <2>2. Scan(remote) \in Listings
    BY <1>2, ScanIsListing
  <2> QED BY <1>2, <2>1, <2>2, ExceptIsView DEF Kind
<1>4. TypeOK'
  BY <1>1, <1>2, <1>3 DEF IInv, TypeOK
<1>5. outside' # 0
  BY <1>1, <1>2
<1>6. CommandInv' /\ GenerationInv' /\ ReadyInv'
  BY <1>1 DEF IInv, CommandInv, GenerationInv, ReadyInv, Sending
<1>7. ReceiptInv' /\ TruthInv'
  BY <1>1, <1>5 DEF IInv, ReceiptInv, TruthInv, ReceiptTruthful, Opened
<1>8. QueueInv' /\ EvictInv'
  BY <1>1 DEF QueueInv, EvictInv, Sending
<1> QED BY <1>4, <1>6, <1>7, <1>8 DEF IInv

----------------------------------------------------------------------------
(***************************************************************************)
(* The theorems                                                            *)
(***************************************************************************)
LEMMA NextKeeps == ASSUME IInv, [Next]_vars PROVE IInv'
<1>1. CASE \E c \in Commands : Start(c)  BY <1>1, StartKeeps
<1>2. CASE Opening
  BY <1>2, RecoverKeeps, SettleKeeps, RefusedKeeps, PreflightKeeps DEF Opening
<1>3. CASE Resetting
  BY <1>3, PurgeKeeps, ResetReceiptKeeps, ClearKeeps, MoveKeeps DEF Resetting
<1>4. CASE Year
  BY <1>4, UseCacheKeeps, ReconcileIndexKeeps, PublishCacheKeeps, MoveKeeps, RecordGenerationKeeps,
     CommitKeeps, PromoteKeeps, FinishKeeps DEF Year
<1>5. CASE Publishing
  BY <1>5, PublishCachesKeeps, PublishDataKeeps, RefusedKeeps, UploadedKeeps, UploadKeeps, RecordedKeeps
     DEF Publishing
<1>6. CASE Restoring  BY <1>6, RestoreKeeps, RestoredKeeps, RestoreFileKeeps DEF Restoring
<1>7. CASE Evicting  BY <1>7, EvictKeeps, EvictFileKeeps, RefusedKeeps DEF Evicting
<1>8. CASE Crash  BY <1>8, CrashKeeps
<1>9. CASE Outsider  BY <1>9, OutsiderKeeps
<1>10. CASE UNCHANGED vars
  <2>1. /\ UNCHANGED <<local, remote, baseline, pending, generation, staging, ready, fetched>>
        /\ UNCHANGED <<pc, command, seen, queue, after, crashes, outside>>
    BY <1>10 DEF vars, receipt, stageDisk, process, counters
  <2>2. TypeOK' /\ CommandInv' /\ GenerationInv' /\ ReadyInv'
    BY <2>1 DEF IInv, TypeOK, CommandInv, GenerationInv, ReadyInv
  <2>3. ReceiptInv' /\ TruthInv'
    BY <2>1 DEF IInv, ReceiptInv, TruthInv, ReceiptTruthful
  <2>4. QueueInv' /\ EvictInv'
    BY <2>1 DEF IInv, QueueInv, EvictInv, Listed, Has
  <2> QED BY <2>2, <2>3, <2>4 DEF IInv
<1> QED BY <1>1, <1>2, <1>3, <1>4, <1>5, <1>6, <1>7, <1>8, <1>9, <1>10 DEF Next, CommandStep

(* The strengthened invariant holds in every run. *)
THEOREM Invariance == Spec => []IInv
<1>1. IInv /\ [Next]_vars => IInv'
  BY NextKeeps
<1> QED BY InitIInv, <1>1, PTL DEF Spec

(* Every variable holds a value the code can give it: whatever is          *)
(* interrupted, no file, intention or receipt entry is anything but a view *)
(* of WARCs, caches and an index.                                          *)
THEOREM PublicationTypeCorrect == Spec => []TypeOK
<1>1. IInv => TypeOK
  BY DEF IInv
<1> QED BY <1>1, Invariance, PTL

(* The saved receipt tells the truth while nobody else writes.             *)
(* (BucketStorage: publish_files, recover_generation, preflight)           *)
THEOREM ReceiptAlwaysTruthful == Spec => []ReceiptTruthful
<1>1. IInv => ReceiptTruthful
  BY DEF IInv, TruthInv
<1> QED BY <1>1, Invariance, PTL

----------------------------------------------------------------------------
(* Steps that touch the bucket, and steps that touch the local files. *)
LEMMA WhoWritesBucket ==
    ASSUME [Next]_vars, remote' # remote
    PROVE  (\E f \in Objects : Upload(f)) \/ (pc = "purge" /\ \E f \in Data : Purge(f)) \/ Outsider
<1>1. ~\E c \in Commands : Start(c)
  BY DEF Start
<1>2. ~Opening
  BY DEF Opening, Recover, GenerationInPlace, GenerationNeverStarted, GenerationRefused,
         Preflight, PreflightRefused
<1>3. Resetting => pc = "purge" /\ \E f \in Data : Purge(f)
  BY DEF Resetting, Purge, ResetReceipt, Clear, Cleared
<1>4. ~Year
  BY DEF Year, UseCache, ReconcileIndex, PublishCache, OpenStage, YearFails, RecordGeneration,
         Commit, Promote, FinishGeneration
<1>5. Publishing => \E f \in Objects : Upload(f)
  BY DEF Publishing, PublishCaches, PublishData, PublishBatch, PublishRefused, Uploaded, Skip,
         Verify, Recorded
<1>6. ~Restoring /\ ~Evicting
  BY DEF Restoring, Restore, RestoreFile, Restored, Evicting, Evict, EvictFile, Evicted
<1>7. ~Crash
  BY DEF Crash
<1>8. ~UNCHANGED vars
  BY DEF vars
<1> QED BY <1>1, <1>2, <1>3, <1>4, <1>5, <1>6, <1>7, <1>8 DEF Next, CommandStep

LEMMA WhoWritesFiles ==
    ASSUME [Next]_vars, local' # local
    PROVE  \/ Recover \/ Clear \/ (\E d \in Caches : UseCache(d)) \/ ReconcileIndex \/ Promote
           \/ (\E f \in Objects : RestoreFile(f)) \/ EvictFile
<1>1. ~\E c \in Commands : Start(c)
  BY DEF Start
<1>2. Opening => Recover
  BY DEF Opening, GenerationInPlace, GenerationNeverStarted, GenerationRefused,
         Preflight, PreflightRefused
<1>3. Resetting => Clear
  BY DEF Resetting, Purge, ResetReceipt, Cleared
<1>4. Year => (\E d \in Caches : UseCache(d)) \/ ReconcileIndex \/ Promote
  BY DEF Year, PublishCache, OpenStage, YearFails, RecordGeneration, Commit, FinishGeneration
<1>5. ~Publishing
  BY DEF Publishing, PublishCaches, PublishData, PublishBatch, PublishRefused, Uploaded, Upload, Skip,
         Verify, Recorded
<1>6. Restoring => \E f \in Objects : RestoreFile(f)
  BY DEF Restoring, Restore, Restored
<1>7. Evicting => EvictFile
  BY DEF Evicting, Evict, Evicted
<1>8. ~Crash /\ ~Outsider
  BY DEF Crash, Outsider
<1>9. ~UNCHANGED vars
  BY DEF vars
<1> QED BY <1>1, <1>2, <1>3, <1>4, <1>5, <1>6, <1>7, <1>8, <1>9 DEF Next, CommandStep

(* An upload puts there what was there and more. *)
LEMMA UploadGrows ==
    ASSUME IInv, NEW f \in Objects, Upload(f), NEW g \in Grown
    PROVE  IsPrefix(Stored(remote[g]), Stored(remote'[g]))
<1>1. /\ f \in queue /\ pc \in Sending /\ remote = baseline /\ remote \in Views
      /\ remote' = [remote EXCEPT ![f] = local[f]]
  BY DEF Upload, RemoteUnchanged, Sending, IInv, TypeOK
<1>2. CASE g = f
  <2>1. IsPrefix(Stored(baseline[f]), Stored(local[f]))
    BY <1>1, <1>2, QueuedFile, Kinds
  <2>2. remote'[f] = local[f]
    BY <1>1, ViewHas
  <2> QED BY <1>1, <1>2, <2>1, <2>2
<1>3. CASE g # f
  BY <1>1, <1>3, ViewHas, Kinds, StoredIsRecords, PrefixItself
<1> QED BY <1>2, <1>3

(* An index goes up last, and its WARCs never shrink. *)
LEMMA UploadStaysHonest ==
    ASSUME IInv, NEW f \in Objects, Upload(f), Honest(remote)
    PROVE  Honest(remote')
<1>1. /\ f \in queue /\ pc \in Sending /\ InOrder(f) /\ remote \in Views /\ local \in Views
      /\ remote' = [remote EXCEPT ![f] = local[f]]
  BY DEF Upload, Sending, IInv, TypeOK
<1>2. remote'[f] = local[f] /\ \A g \in Objects \ {f} : remote'[g] = remote[g]
  BY <1>1, ViewHas
<1> SUFFICES ASSUME remote'[Index] # Absent, NEW w \in Warcs
             PROVE  IsPrefix(remote'[Index][w], Stored(remote'[w]))
  BY DEF Honest
<1>3. CASE f = Index
  <2>1. queue = {Index} /\ Honest(local) /\ remote'[Index] = local[Index] /\ remote'[w] = remote[w]
    BY <1>1, <1>2, <1>3, Kinds DEF InOrder, IInv, QueueInv
  <2>2. IsPrefix(local[Index][w], Stored(local[w])) /\ local[Index] \in Listings
    BY <1>1, <2>1, ViewHas, Kinds DEF Honest, Kind
  <2>3. CASE Listed(w)
    <3>1. remote[w] = local[w]
      BY <1>1, <1>3, <2>1, <2>3, Kinds DEF IInv, QueueInv
    <3> QED BY <2>1, <2>2, <3>1
  <2>4. CASE ~Listed(w)
    <3>1. local[Index][w] = <<>>
      BY <2>1, <2>4 DEF Listed
    <3>2. Stored(remote[w]) \in Records
      BY <1>1, StoredIsRecords, Kinds
    <3> QED BY <2>1, <3>1, <3>2, EmptyPrefix
  <2> QED BY <2>3, <2>4
<1>4. CASE f # Index
  <2>1. remote'[Index] = remote[Index] /\ remote[Index] \in Listings
    BY <1>1, <1>2, <1>4, ViewHas, Kinds DEF Kind
  <2>2. IsPrefix(remote[Index][w], Stored(remote[w])) /\ remote[Index][w] \in Records
    BY <2>1 DEF Honest, Listings
  <2>3. IsPrefix(Stored(remote[w]), Stored(remote'[w]))
    BY UploadGrows, Kinds
  <2>4. remote' \in Views
    BY UploadKeeps DEF IInv, TypeOK
  <2>5. Stored(remote[w]) \in Records /\ Stored(remote'[w]) \in Records
    BY <1>1, <2>4, StoredIsRecords, Kinds
  <2> QED BY <2>1, <2>2, <2>3, <2>5, PrefixThrough
<1> QED BY <1>3, <1>4

(* This program never makes the published index list records that the      *)
(* published WARCs do not hold, a reset's purge excepted.  (publish)       *)
THEOREM RemoteAlwaysHonest == Spec => RemoteStaysHonest
<1>1. IInv /\ [Next]_vars
        => [Honest(remote) /\ outside' = outside => Honest(remote') \/ pc = "purge"]_vars
  <2> SUFFICES ASSUME IInv, [Next]_vars, Honest(remote), outside' = outside
               PROVE  Honest(remote') \/ pc = "purge"
    OBVIOUS
  <2>1. CASE remote' = remote
    BY <2>1
  <2>2. CASE remote' # remote
    <3>1. ~Outsider
      BY DEF Outsider, IInv, TypeOK
    <3> QED BY <2>2, <3>1, WhoWritesBucket, UploadStaysHonest
  <2> QED BY <2>1, <2>2
<1> QED BY <1>1, Invariance, PTL DEF Spec, RemoteStaysHonest

(* An upload never destroys what somebody else added to an object.         *)
(* (preflight, assert_remote_unchanged)                                    *)
THEOREM NoUpdateIsLost == Spec => NoLostUpdate
<1>1. IInv /\ [Next]_vars
        => [outside' = outside /\ pc # "purge" =>
              \A f \in Objects \ {Index} : IsPrefix(Stored(remote[f]), Stored(remote'[f]))]_vars
  <2> SUFFICES ASSUME IInv, [Next]_vars, outside' = outside, pc # "purge", NEW f \in Grown
               PROVE  IsPrefix(Stored(remote[f]), Stored(remote'[f]))
    BY DEF Grown
  <2>1. CASE remote' = remote
    BY <2>1, StoredIsRecords, PrefixItself DEF IInv, TypeOK
  <2>2. CASE remote' # remote
    <3>1. ~Outsider
      BY DEF Outsider, IInv, TypeOK
    <3> QED BY <2>2, <3>1, WhoWritesBucket, UploadGrows
  <2> QED BY <2>1, <2>2
<1> QED BY <1>1, Invariance, PTL DEF Spec, NoLostUpdate

(* Local WARCs and caches only grow, unless the bucket has them or the     *)
(* user asked for a reset.  (YearStage.recover, evict_local, restore)      *)
THEOREM NothingIsLost == Spec => NothingLost
<1>1. IInv /\ [Next]_vars
        => [pc = "clear" \/ \A f \in Objects \ {Index} :
              \/ IsPrefix(Stored(local[f]), Stored(local'[f]))
              \/ remote[f] = local[f]]_vars
  <2> SUFFICES ASSUME IInv, [Next]_vars, pc # "clear", NEW f \in Grown
               PROVE  IsPrefix(Stored(local[f]), Stored(local'[f])) \/ remote[f] = local[f]
    BY DEF Grown
  <2>1. IsPrefix(Stored(local[f]), Stored(local[f]))
    BY StoredIsRecords, PrefixItself DEF IInv, TypeOK
  <2>2. CASE local' = local
    BY <2>1, <2>2
  <2>3. CASE Recover
    BY <2>3, RecoverHolds DEF Holds
  <2>4. CASE \E d \in Caches : UseCache(d)
    BY <2>4, UseCacheKeeps DEF Holds
  <2>5. CASE ReconcileIndex
    BY <2>1, <2>5, ReconcileIndexKeeps
  <2>6. CASE Promote
    BY <2>6, PromoteKeeps DEF Holds
  <2>7. CASE \E g \in Objects : RestoreFile(g)
    BY <2>7, RestoreFileKeeps DEF Holds
  <2>8. CASE EvictFile
    BY <2>1, <2>8, EvictFileKeeps, Kinds
  <2>9. ~Clear
    BY DEF Clear
  <2> QED BY <2>2, <2>3, <2>4, <2>5, <2>6, <2>7, <2>8, <2>9, WhoWritesFiles
<1> QED BY <1>1, Invariance, PTL DEF Spec, NothingLost
============================================================================
