------------------------ MODULE CrawlDiscoveryProofs ------------------------
(***************************************************************************)
(* Theorems about CrawlDiscovery, for any records, page counts, changes of *)
(* the index and stops.                                                    *)
(***************************************************************************)
EXTENDS CrawlDiscovery, SequenceTheorems, TLAPS

(* A listing asked under one unit from the first page to the last. *)
Whole(c) == c.rows = [i \in 1..c.pages |-> [record |-> c.record, pages |-> c.pages]]
Fresh == pc \in {"load", "manifest"} \/ (pc = "clear" /\ after = "manifest")

StateInv ==
    /\ index \in Answers /\ unit \in Units /\ torn \in BOOLEAN
    /\ manifest \in Units \cup {Absent} /\ page \in [Pages -> Units \cup {Absent}]
    /\ pc \in {"idle", "load", "manifest", "pages", "clear", "tell", "refused"}
    /\ after \in {"tell", "manifest"}

(* A run collects pages of the unit it asks, and starts again with none. *)
RowsInv ==
    /\ Fresh => rows = <<>>
    /\ pc = "pages" => \E n \in 0..unit.pages : rows = [i \in 1..n |-> unit]
    /\ \A c \in {cache, told} : c # Absent => Whole(c)

(* The page files are of the count the manifest names, except while they   *)
(* are being removed or after a stop in that.                              *)
PagesInv ==
    /\ pc = "pages" => manifest = unit
    /\ ~torn /\ pc # "clear" =>
          \A q \in Pages : page[q] # Absent => manifest # Absent /\ page[q].pages = manifest.pages
    /\ pc = "refused" => torn

IInv == StateInv /\ RowsInv /\ PagesInv

----------------------------------------------------------------------------
LEMMA Marks == MaxPages \in Nat \ {0} /\ Absent \notin Units /\ Invalid \notin Nat
  BY DiscoveryAssumption

LEMMA UnitIsRecord ==
    ASSUME NEW u \in Units PROVE u = [record |-> u.record, pages |-> u.pages] /\ u.pages \in 0..MaxPages
  BY DEF Units

(* Pages of one unit, one more page of it. *)
LEMMA OneMore ==
    ASSUME NEW n \in Nat, NEW u, rows = [i \in 1..n |-> u]
    PROVE  Len(rows) = n /\ Append(rows, u) = [i \in 1..(n + 1) |-> u]
  <1>1. rows \in Seq({u}) /\ Len(rows) = n
    OBVIOUS
  <1>2. Append(rows, u) \in Seq({u}) /\ Len(Append(rows, u)) = n + 1
    BY <1>1
  <1>3. \A i \in 1..(n + 1) : Append(rows, u)[i] = u
    BY <1>1
  <1>4. DOMAIN Append(rows, u) = 1..(n + 1)
    BY <1>1, <1>2
  <1>5. Append(rows, u) = [i \in 1..(n + 1) |-> Append(rows, u)[i]]
    BY <1>1, <1>2, <1>4
  <1> QED  BY <1>1, <1>3, <1>5

LEMMA InitIInv == Init => IInv
  BY Marks DEF Init, IInv, StateInv, RowsInv, PagesInv, Fresh, Answers

LEMMA StartKeeps == ASSUME IInv, Start \/ Reindex PROVE IInv'
  <1>1. CASE Start
    <2>1. unit' \in Units
      BY <1>1 DEF Start, IInv, StateInv, Answers, Units
    <2> QED  BY <1>1, <2>1 DEF Start, IInv, StateInv, RowsInv, PagesInv, Fresh, Whole, world, files, history
  <1>2. CASE Reindex
    BY <1>2 DEF Reindex, IInv, StateInv, RowsInv, PagesInv, Fresh, Whole, files, memory, history
  <1> QED  BY <1>1, <1>2

LEMMA LoadKeeps == ASSUME IInv, UseCache \/ AskCount \/ BadCount \/ Obsolete PROVE IInv'
  <1>1. CASE UseCache
    BY <1>1 DEF UseCache, IInv, StateInv, RowsInv, PagesInv, Fresh, Whole, world, files, history
  <1>2. CASE BadCount
    BY <1>2 DEF BadCount, IInv, StateInv, RowsInv, PagesInv, Fresh, Whole, world, files, memory, history
  <1>3. CASE Obsolete
    BY <1>3 DEF Obsolete, IInv, StateInv, RowsInv, PagesInv, Fresh, Whole, world, files, history
  <1>4. CASE AskCount
    <2>1. index \in Units
      BY <1>4 DEF AskCount, IInv, StateInv, Answers
    <2>2. unit' \in Units
      BY <1>4, <2>1 DEF AskCount, IInv, StateInv, Units
    <2> QED  BY <1>4, <2>2 DEF AskCount, IInv, StateInv, RowsInv, PagesInv, Fresh, Whole, world, files, history
  <1> QED  BY <1>1, <1>2, <1>3, <1>4

LEMMA WriteManifestKeeps == ASSUME IInv, WriteManifest PROVE IInv'
  <1>1. /\ pc = "manifest" /\ pc' = "pages" /\ manifest' = unit /\ manifest \in {Absent, unit}
        /\ UNCHANGED <<index, unit, rows, after, cache, page, torn, told>>
    BY DEF WriteManifest, world, memory, history
  <1>2. rows = [i \in 1..0 |-> unit] /\ unit.pages \in Nat
    BY <1>1, Marks, UnitIsRecord DEF IInv, StateInv, RowsInv, Fresh
  <1>3. StateInv'
    BY <1>1 DEF IInv, StateInv
  <1>4. RowsInv'
    BY <1>1, <1>2 DEF IInv, RowsInv, Fresh, Whole
  <1>5. PagesInv'
    BY <1>1, Marks DEF IInv, StateInv, PagesInv
  <1> QED  BY <1>3, <1>4, <1>5 DEF IInv

(* A page is read or asked under the unit of the run. *)
LEMMA PageKeeps == ASSUME IInv, ReusePage \/ FetchPage PROVE IInv'
  <1>1. /\ pc = "pages" /\ pc' = pc /\ Len(rows) + 1 <= unit.pages /\ rows' = Append(rows, unit)
        /\ page' \in {page, [page EXCEPT ![Len(rows) + 1] = unit]}
        /\ UNCHANGED <<index, unit, after, cache, manifest, torn, told>>
    BY DEF ReusePage, FetchPage, Saved, Collecting, p, world, files, history
  <1>2. PICK n \in 0..unit.pages : rows = [i \in 1..n |-> unit]
    BY <1>1 DEF IInv, RowsInv
  <1>3. unit.pages \in 0..MaxPages /\ unit # Absent
    BY UnitIsRecord, Marks DEF IInv, StateInv
  <1>4. Len(rows) = n /\ rows' = [i \in 1..(n + 1) |-> unit] /\ n + 1 \in 0..unit.pages
    BY <1>1, <1>2, <1>3, OneMore, Marks
  <1>5. page' \in [Pages -> Units \cup {Absent}]
    BY <1>1 DEF IInv, StateInv
  <1>6. StateInv'
    BY <1>1, <1>5 DEF IInv, StateInv
  <1>7. RowsInv'
    BY <1>1, <1>4 DEF IInv, RowsInv, Fresh, Whole
  <1>8. PagesInv'
    <2>1. \A q \in Pages : page'[q] \in {page[q], unit}
      BY <1>1 DEF IInv, StateInv
    <2> QED  BY <1>1, <1>3, <2>1 DEF IInv, PagesInv
  <1> QED  BY <1>6, <1>7, <1>8 DEF IInv

(* Progress a run refuses was left by a stop in clear_progress. *)
LEMMA RefuseKeeps == ASSUME IInv, RefusePage PROVE IInv'
  <1>1. /\ pc = "pages" /\ pc' = "refused" /\ Len(rows) + 1 <= unit.pages
        /\ page[Len(rows) + 1] # Absent /\ page[Len(rows) + 1].pages # unit.pages
        /\ UNCHANGED <<index, unit, rows, after, cache, manifest, page, torn, told>>
    BY DEF RefusePage, Collecting, p, world, files, memory, history
  <1>2. Len(rows) + 1 \in Pages
    <2>1. PICK n \in 0..unit.pages : rows = [i \in 1..n |-> unit]
      BY <1>1 DEF IInv, RowsInv
    <2>2. unit.pages \in 0..MaxPages
      BY UnitIsRecord DEF IInv, StateInv
    <2> QED  BY <1>1, <2>1, <2>2, OneMore, Marks DEF Pages
  <1>3. torn
    BY <1>1, <1>2 DEF IInv, PagesInv, StateInv
  <1> QED  BY <1>1, <1>3 DEF IInv, StateInv, RowsInv, PagesInv, Fresh, Whole

LEMMA InstallKeeps == ASSUME IInv, Install PROVE IInv'
  <1>1. /\ pc = "pages" /\ Len(rows) = unit.pages /\ pc' = "clear" /\ after' = "tell"
        /\ cache' = [record |-> unit.record, pages |-> unit.pages, rows |-> rows]
        /\ UNCHANGED <<index, unit, rows, manifest, page, torn, told>>
    BY DEF Install, world, history
  <1>2. PICK n \in 0..unit.pages : rows = [i \in 1..n |-> unit]
    BY <1>1 DEF IInv, RowsInv
  <1>3. unit = [record |-> unit.record, pages |-> unit.pages] /\ unit.pages \in 0..MaxPages
    BY UnitIsRecord DEF IInv, StateInv
  <1>4. n = unit.pages
    BY <1>1, <1>2, <1>3, OneMore, Marks
  <1>5. Whole(cache')
    BY <1>1, <1>2, <1>3, <1>4 DEF Whole
  <1>6. StateInv'
    BY <1>1 DEF IInv, StateInv
  <1>7. RowsInv'
    BY <1>1, <1>5 DEF IInv, RowsInv, Fresh, Whole
  <1>8. PagesInv'
    BY <1>1 DEF IInv, PagesInv
  <1> QED  BY <1>6, <1>7, <1>8 DEF IInv

LEMMA ClearKeeps == ASSUME IInv, RemoveManifest \/ RemovePage \/ Cleared PROVE IInv'
  <1>1. CASE RemoveManifest
    BY <1>1 DEF RemoveManifest, IInv, StateInv, RowsInv, PagesInv, Fresh, Whole, world, memory, history
  <1>2. CASE RemovePage
    <2>1. page' \in [Pages -> Units \cup {Absent}]
      BY <1>2 DEF RemovePage, IInv, StateInv
    <2> QED
      BY <1>2, <2>1 DEF RemovePage, IInv, StateInv, RowsInv, PagesInv, Fresh, Whole, world, memory, history
  <1>3. CASE Cleared
    BY <1>3 DEF Cleared, IInv, StateInv, RowsInv, PagesInv, Fresh, Whole, world, files, memory, history
  <1> QED  BY <1>1, <1>2, <1>3

LEMMA EndKeeps == ASSUME IInv, Tell \/ GiveUp \/ Stop PROVE IInv'
  <1>1. CASE Tell
    BY <1>1 DEF Tell, IInv, StateInv, RowsInv, PagesInv, Fresh, Whole, world, files, memory
  <1>2. CASE GiveUp
    BY <1>2 DEF GiveUp, IInv, StateInv, RowsInv, PagesInv, Fresh, Whole, world, files, memory, history
  <1>3. CASE Stop
    BY <1>3 DEF Stop, IInv, StateInv, RowsInv, PagesInv, Fresh, Whole, world, files, memory
  <1> QED  BY <1>1, <1>2, <1>3

LEMMA NextKeeps == IInv /\ [Next]_vars => IInv'
  <1> SUFFICES ASSUME IInv, [Next]_vars PROVE IInv'  OBVIOUS
  <1>1. CASE UNCHANGED vars
    BY <1>1 DEF vars, world, files, memory, history, IInv, StateInv, RowsInv, PagesInv, Fresh, Whole
  <1> QED  BY <1>1, StartKeeps, LoadKeeps, WriteManifestKeeps, PageKeeps, RefuseKeeps, InstallKeeps,
              ClearKeeps, EndKeeps DEF Next, Run

(* A run collects no more pages than the index may count, and bounds hold. *)
CollectedInv == \E n \in 0..MaxPages, u \in Units : rows = [i \in 1..n |-> u]
BoundsInv == changes \in 0..MaxChanges /\ stops \in 0..MaxStops

LEMMA CollectedKeeps == ASSUME IInv, CollectedInv, [Next]_vars PROVE CollectedInv'
  <1>1. CASE ReusePage \/ FetchPage
    <2>1. pc = "pages" /\ Len(rows) + 1 <= unit.pages /\ rows' = Append(rows, unit)
      BY <1>1 DEF ReusePage, FetchPage, Saved, Collecting, p
    <2>2. PICK n \in 0..unit.pages : rows = [i \in 1..n |-> unit]
      BY <2>1 DEF IInv, RowsInv
    <2>3. unit \in Units /\ unit.pages \in 0..MaxPages
      BY UnitIsRecord DEF IInv, StateInv
    <2>4. rows' = [i \in 1..(n + 1) |-> unit] /\ n + 1 \in 0..MaxPages
      BY <2>1, <2>2, <2>3, OneMore, Marks
    <2> QED  BY <2>3, <2>4 DEF CollectedInv
  <1>2. CASE Start
    <2>1. rows' = <<>> /\ unit \in Units
      BY <1>2 DEF Start, IInv, StateInv
    <2>2. rows' = [i \in 1..0 |-> unit]
      BY <2>1
    <2> QED  BY <2>1, <2>2, Marks DEF CollectedInv
  <1>3. CASE ~(ReusePage \/ FetchPage \/ Start)
    <2>1. rows' = rows
      BY <1>3 DEF Next, Run, vars, memory, UseCache, AskCount, BadCount, Obsolete, WriteManifest, RefusePage,
                  Install, RemoveManifest, RemovePage, Cleared, Tell, GiveUp, Stop, Reindex
    <2> QED  BY <2>1 DEF CollectedInv
  <1> QED  BY <1>1, <1>2, <1>3

LEMMA BoundsKeep == ASSUME BoundsInv, [Next]_vars PROVE BoundsInv'
  <1>1. changes' \in {changes, changes + 1} /\ (changes' # changes => changes < MaxChanges)
    BY DEF Next, Run, vars, world, Start, UseCache, AskCount, BadCount, Obsolete, WriteManifest, ReusePage,
           FetchPage, RefusePage, Install, RemoveManifest, RemovePage, Cleared, Tell, GiveUp, Stop, Reindex
  <1>2. stops' \in {stops, stops + 1} /\ (stops' # stops => stops < MaxStops)
    BY DEF Next, Run, vars, history, Start, UseCache, AskCount, BadCount, Obsolete, WriteManifest, ReusePage,
           FetchPage, RefusePage, Install, RemoveManifest, RemovePage, Cleared, Tell, GiveUp, Stop, Reindex
  <1> QED  BY <1>1, <1>2, DiscoveryAssumption DEF BoundsInv

----------------------------------------------------------------------------
(* What a run knows of its unit, its files and its cache. *)
THEOREM Invariance == Spec => []IInv
  <1>1. Init => IInv  BY InitIInv
  <1>2. IInv /\ [Next]_vars => IInv'  BY NextKeeps
  <1> QED  BY <1>1, <1>2, PTL DEF Spec

(* What a run holds is of its kind, and it collects no more pages than the *)
(* index may count, although the count changes between runs.               *)
THEOREM TypeCorrect == Spec => []TypeOK
  <1>1. Init => CollectedInv /\ BoundsInv
    <2> SUFFICES ASSUME Init PROVE CollectedInv /\ BoundsInv  OBVIOUS
    <2>1. rows = [i \in 1..0 |-> unit] /\ unit \in Units
      BY DEF Init
    <2> QED  BY <2>1, Marks, DiscoveryAssumption DEF Init, CollectedInv, BoundsInv
  <1>2. IInv /\ CollectedInv /\ BoundsInv /\ [Next]_vars => (CollectedInv /\ BoundsInv)'
    BY CollectedKeeps, BoundsKeep
  <1>3. IInv /\ CollectedInv /\ BoundsInv => TypeOK
    <2> SUFFICES ASSUME IInv, CollectedInv, BoundsInv PROVE TypeOK  OBVIOUS
    <2>1. PICK n \in 0..MaxPages, u \in Units : rows = [i \in 1..n |-> u]
      BY DEF CollectedInv
    <2>2. Len(rows) = n /\ rows \in Seq(Units) /\ n <= MaxPages
      BY <2>1, Marks
    <2> QED  BY <2>2 DEF IInv, StateInv, BoundsInv, TypeOK
  <1>4. Spec => []IInv  BY Invariance
  <1> QED  BY <1>1, <1>2, <1>3, <1>4, PTL DEF Spec

(* No cache, installed or announced, mixes pages asked before a change of  *)
(* the index with pages asked after it, whatever runs left on the disk.    *)
THEOREM OneVersionForever == Spec => []OneVersion
  <1>1. IInv => OneVersion
    BY DEF IInv, RowsInv, Whole, OneVersion
  <1>2. Spec => []IInv  BY Invariance
  <1> QED  BY <1>1, <1>2, PTL

(* A run refuses saved progress only after a stop in clear_progress. *)
THEOREM OnlyTornIsRefused == Spec => []RefusedOnlyTorn
  <1>1. IInv => RefusedOnlyTorn
    BY DEF IInv, PagesInv, RefusedOnlyTorn
  <1>2. Spec => []IInv  BY Invariance
  <1> QED  BY <1>1, <1>2, PTL
============================================================================
