--------------------------- MODULE CrawlDiscovery ---------------------------
(***************************************************************************)
(* Discovery of one crawl and year at Common Crawl                         *)
(* (pipeline/discovery/load_or_fetch_common_crawl_year.py, checkpoints.py) *)
(* over many runs, any of which may stop at any step, while the index may  *)
(* change under them.                                                      *)
(*                                                                         *)
(* A unit names what a run believes it asks: the catalog's record of the   *)
(* crawl and the number of pages.  A page, on disk or in memory, is the    *)
(* unit it was asked under; a finished cache is the record it carries and  *)
(* the pages it was made of.                                               *)
(***************************************************************************)
EXTENDS Naturals, Sequences, FiniteSets

CONSTANTS
    Records,       (* what the catalog may say of the crawl                *)
    MaxPages,      (* bound: pages the index may count                     *)
    MaxChanges,    (* bound: changes of the index                          *)
    MaxStops,      (* bound: runs that stop or fail                        *)
    Absent, Invalid

Pages == 1..MaxPages
Units == [record : Records, pages : 0..MaxPages]
Answers == Units \cup [record : Records, pages : {Invalid}]

ASSUME DiscoveryAssumption ==
    /\ MaxPages \in Nat \ {0} /\ MaxChanges \in Nat /\ MaxStops \in Nat
    /\ IsFiniteSet(Records) /\ Records # {}
    /\ Absent \notin Units /\ Invalid \notin Nat

VARIABLES
    index, changes,          \* the index as it is now: a unit
    cache, manifest, page,   \* final cache; query.json; the page files
    pc, unit, rows, after,   \* the run: the unit it asks, pages collected, where to go once cleared
    stops, torn, told        \* history: stops, one in clear_progress; cache last announced

files == <<cache, manifest, page>>
memory == <<unit, rows, after>>
history == <<stops, torn, told>>
world == <<index, changes>>
vars == <<world, files, pc, memory, history>>

Init ==
    /\ index \in Units /\ changes = 0
    /\ cache = Absent /\ manifest = Absent /\ page = [p \in Pages |-> Absent]
    /\ pc = "idle" /\ unit = index /\ rows = <<>> /\ after = "tell"
    /\ stops = 0 /\ torn = FALSE /\ told = Absent

Reindex ==
    /\ changes < MaxChanges /\ changes' = changes + 1
    /\ index' \in Answers \ {index}
    /\ UNCHANGED <<files, pc, memory, history>>

(***************************************************************************)
(* One run                                                                 *)
(***************************************************************************)
(* The catalog is read once per run. *)
Start ==
    /\ pc = "idle" /\ pc' = "load"
    /\ unit' = [unit EXCEPT !.record = index.record] /\ rows' = <<>>
    /\ UNCHANGED <<world, files, after, history>>

(* Broken variant: a cache is good whatever the catalog says. *)
CachePresent == cache # Absent

(* _load_cache: another record of the same crawl is a miss. *)
CacheCurrent == cache # Absent /\ cache.record = unit.record

(* clear_progress, then on_cache_complete: after an earlier stop the       *)
(* cache may be finished but neither cleared up nor announced.             *)
UseCache ==
    /\ pc = "load" /\ CacheCurrent
    /\ pc' = "clear" /\ after' = "tell"
    /\ UNCHANGED <<world, files, unit, rows, history>>

AskCount ==
    /\ pc = "load" /\ ~CacheCurrent /\ index.pages # Invalid
    /\ unit' = [unit EXCEPT !.pages = index.pages]
    /\ pc' = "manifest"
    /\ UNCHANGED <<world, files, rows, after, history>>

BadCount ==
    /\ pc = "load" /\ ~CacheCurrent /\ index.pages = Invalid
    /\ pc' = "idle"
    /\ UNCHANGED <<world, files, memory, history>>

(* Progress of another unit is removed first. *)
Obsolete ==
    /\ pc = "manifest" /\ manifest \notin {Absent, unit}
    /\ pc' = "clear" /\ after' = "manifest"
    /\ UNCHANGED <<world, files, unit, rows, history>>

(* Broken variant: the manifest is overwritten. *)
OverwriteManifest ==
    /\ pc = "manifest"
    /\ manifest' = unit /\ pc' = "pages"
    /\ UNCHANGED <<world, cache, page, memory, history>>

WriteManifest ==
    /\ pc = "manifest" /\ manifest \in {Absent, unit}
    /\ manifest' = unit /\ pc' = "pages"
    /\ UNCHANGED <<world, cache, page, memory, history>>

p == Len(rows) + 1
Collecting == pc = "pages" /\ p <= unit.pages

(* Broken variant: a page file is good whatever unit it names. *)
AnyPage == Collecting /\ page[p] # Absent

Saved == Collecting /\ page[p] = unit

ReusePage ==
    /\ Saved /\ rows' = Append(rows, page[p])
    /\ UNCHANGED <<world, files, pc, unit, after, history>>

(* A page of another record is asked again, like an absent one. *)
FetchPage ==
    /\ Collecting /\ ~Saved
    /\ page[p] # Absent => page[p].pages = unit.pages
    /\ page' = [page EXCEPT ![p] = unit] /\ rows' = Append(rows, unit)
    /\ UNCHANGED <<world, cache, manifest, pc, unit, after, history>>

(* A page of another count is a scope mismatch: the year fails. *)
RefusePage ==
    /\ Collecting /\ page[p] # Absent /\ page[p].pages # unit.pages
    /\ pc' = "refused"
    /\ UNCHANGED <<world, files, memory, history>>

(* Broken variant: what has been collected when a page fails is kept. *)
InstallPartial ==
    /\ pc = "pages" /\ Len(rows) + 1 >= unit.pages
    /\ cache' = [record |-> unit.record, pages |-> unit.pages, rows |-> rows]
    /\ pc' = "clear" /\ after' = "tell"
    /\ UNCHANGED <<world, manifest, page, unit, rows, history>>

Install ==
    /\ pc = "pages" /\ Len(rows) = unit.pages
    /\ cache' = [record |-> unit.record, pages |-> unit.pages, rows |-> rows]
    /\ pc' = "clear" /\ after' = "tell"
    /\ UNCHANGED <<world, manifest, page, unit, rows, history>>

(* clear_progress: rmtree removes the files one by one, in any order. *)
RemoveManifest ==
    /\ pc = "clear" /\ manifest # Absent /\ manifest' = Absent
    /\ UNCHANGED <<world, cache, page, pc, memory, history>>

RemovePage ==
    /\ pc = "clear"
    /\ \E q \in Pages : page[q] # Absent /\ page' = [page EXCEPT ![q] = Absent]
    /\ UNCHANGED <<world, cache, manifest, pc, memory, history>>

Cleared ==
    /\ pc = "clear" /\ manifest = Absent /\ \A q \in Pages : page[q] = Absent
    /\ pc' = after
    /\ UNCHANGED <<world, files, memory, history>>

(* Broken variant: only a fresh cache is announced. *)
TellFresh ==
    /\ pc = "tell" /\ pc' = "idle"
    /\ told' = IF rows # <<>> THEN cache ELSE told
    /\ UNCHANGED <<world, files, memory, stops, torn>>

Tell ==
    /\ pc = "tell" /\ pc' = "idle"
    /\ told' = cache
    /\ UNCHANGED <<world, files, memory, stops, torn>>

GiveUp ==
    /\ pc = "refused" /\ pc' = "idle"
    /\ UNCHANGED <<world, files, memory, history>>

(* A kill, Ctrl-C, or requests that fail beyond their retries. *)
Stop ==
    /\ pc \notin {"idle", "refused"} /\ pc' = "idle"
    /\ stops < MaxStops /\ stops' = stops + 1
    /\ torn' = (torn \/ pc = "clear")
    /\ UNCHANGED <<world, files, memory, told>>

Run ==
    \/ Start \/ UseCache \/ AskCount \/ BadCount \/ Obsolete \/ WriteManifest \/ ReusePage
    \/ FetchPage \/ RefusePage \/ Install \/ RemoveManifest \/ RemovePage \/ Cleared \/ Tell \/ GiveUp

Next == Run \/ Stop \/ Reindex

Spec == Init /\ [][Next]_vars

(* A run goes on, and an operator starts another one. *)
FairSpec == Spec /\ WF_vars(Run)

----------------------------------------------------------------------------
(***************************************************************************)
(* Properties                                                              *)
(***************************************************************************)

(* Every variable holds a value the code can give it. *)
TypeOK ==
    /\ index \in Answers /\ unit \in Units /\ torn \in BOOLEAN
    /\ changes \in 0..MaxChanges /\ stops \in 0..MaxStops
    /\ manifest \in Units \cup {Absent} /\ page \in [Pages -> Units \cup {Absent}]
    /\ rows \in Seq(Units) /\ Len(rows) <= MaxPages
    /\ pc \in {"idle", "load", "manifest", "pages", "clear", "tell", "refused"}
    /\ after \in {"tell", "manifest"}

(* An installed or announced cache is a whole listing asked under one      *)
(* record and one count: pages that runs before and after a change of the  *)
(* index left on disk never meet in one cache.  (l.62-98)                  *)
OneVersion ==
    \A c \in {cache, told} : c # Absent =>
        c.rows = [i \in 1..c.pages |-> [record |-> c.record, pages |-> c.pages]]

(* Only a stop in the middle of clear_progress makes a later run refuse:   *)
(* stops anywhere else, with any changes of the index between runs, leave  *)
(* progress that is reused or removed.                                     *)
RefusedOnlyTorn == pc = "refused" => torn

(* Once the index stops changing and counts well, a cache of its present   *)
(* record is installed and announced, wherever runs were stopped; short of *)
(* runs refused again and again, for what RefusedOnlyTorn lets them.       *)
CacheCompletes ==
    \/ []<>(pc = "refused") \/ <>[](index.pages = Invalid)
    \/ <>[](/\ cache # Absent /\ cache.record = index.record /\ told = cache)
============================================================================
