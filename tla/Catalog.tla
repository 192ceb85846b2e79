------------------------------- MODULE Catalog -------------------------------
(***************************************************************************)
(* Navigator's catalog (catalog.py) and its adoption by the replay process *)
(* (frontend.py): who owns which archive id, what is published for the     *)
(* replay process, and what that process makes of it.  Navigator.tla       *)
(* composes this with the supervision of the replay process.               *)
(*                                                                         *)
(* Of a bucket only its identity matters here: the id its archive.json     *)
(* gives, or that this file is invalid, that the bucket cannot be read, or *)
(* that its layout is a legacy one.                                        *)
(* Its indexes are RemoteIndex's subject; here an index is loaded, or      *)
(* taken from the cache, or not there.                                     *)
(***************************************************************************)
EXTENDS Naturals, FiniteSets

CONSTANTS
    Entries,             (* number of entries of catalog.json, in its order *)
    Ids,                 (* archive ids                                     *)
    MaxChanges,          (* bound: changes of a bucket, failed cache writes *)
    Cached,              (* entries an earlier run may have left a cache of *)
    Broken, Down, Legacy, None

ASSUME CatalogAssumption ==
    /\ Entries \in Nat \ {0} /\ MaxChanges \in Nat /\ Cached \subseteq 1..Entries /\ IsFiniteSet(Ids)
    /\ {Broken, Down, Legacy, None} \cap Ids = {}

Sources == 1..Entries

VARIABLES
    live, changes,                     \* what each bucket would answer now; changes and failed writes
    saved, indexed,                    \* cache directory: archive.json; ids whose index is there
    phase, at, startup, errors,        \* the refresh: its phase, entry, kind; whether this entry had errors
    meta, archive, status,             \* per entry: the id claimed, whether its archive is loaded, its card
    snapshot, stamp,                   \* catalog-state.json and its mtime
    catalog, catalogStamp, seen, routes \* the replay process: its catalog, that one's stamp, a stamp just read, routes

bucket == <<live, changes>>
cache == <<saved, indexed>>
entries == <<meta, archive, status>>
refresh == <<phase, at, startup, errors>>
published == <<snapshot, stamp>>
adopted == <<catalog, catalogStamp, seen, routes>>
catalogVars == <<bucket, cache, refresh, entries, published, adopted>>

NoSnapshot == [cards |-> [s \in Sources |-> <<None, "unavailable">>], served |-> {}]

(* The buckets, and the cache that earlier runs left. *)
CatalogInit ==
    /\ live \in [Sources -> Ids \cup {Down}] /\ changes = 0
    /\ saved \in [Sources -> Ids \cup {None}]
    /\ indexed \in [Sources -> {{x} : x \in Ids} \cup {{}}]
    /\ \A s \in Sources : indexed[s] \subseteq {saved[s]} /\ (saved[s] # None => s \in Cached)
    /\ phase = "off" /\ at = 1 /\ startup = FALSE /\ errors = FALSE
    /\ meta = [s \in Sources |-> None] /\ archive = [s \in Sources |-> FALSE]
    /\ status = [s \in Sources |-> "unavailable"]
    /\ snapshot = NoSnapshot /\ stamp = 0
    /\ catalog = NoSnapshot /\ catalogStamp = 0 /\ seen = 0 /\ routes = {}

(* What a process knew is gone with it. *)
ReplayForgets == catalog' = NoSnapshot /\ catalogStamp' = 0 /\ seen' = 0 /\ routes' = {}
NavigatorForgets ==
    /\ phase' = "off" /\ at' = 1 /\ startup' = FALSE /\ errors' = FALSE
    /\ meta' = [s \in Sources |-> None] /\ archive' = [s \in Sources |-> FALSE]
    /\ status' = [s \in Sources |-> "unavailable"]
    /\ snapshot' = NoSnapshot /\ stamp' = 0
    /\ ReplayForgets

(* The operator renames an archive, moves it to another bucket, migrates   *)
(* its layout, spoils its archive.json; or a bucket goes away or comes     *)
(* back.                                                                   *)
Change ==
    /\ changes < MaxChanges /\ changes' = changes + 1
    /\ \E s \in Sources, x \in Ids \cup {Broken, Down, Legacy} : x # live[s] /\ live' = [live EXCEPT ![s] = x]
    /\ UNCHANGED <<cache, refresh, entries, published, adopted>>

----------------------------------------------------------------------------
(***************************************************************************)
(* CatalogStore.refresh: one entry after the other, then publish           *)
(***************************************************************************)
BeginRefresh ==
    /\ phase = "sleep" /\ phase' = "metadata" /\ at' = 1 /\ errors' = FALSE
    /\ UNCHANGED <<bucket, cache, startup, entries, published, adopted>>

NextEntry ==
    /\ phase' = IF at = Entries THEN "publish" ELSE "metadata"
    /\ at' = IF at = Entries THEN 1 ELSE at + 1
    /\ errors' = FALSE

Fatal == phase' = "fatal" /\ UNCHANGED <<at, errors, bucket, cache, startup, entries, published, adopted>>

Claimed(x) == \E t \in Sources \ {at} : meta[t] = x

(* _accept_metadata: an accepted id is kept, one that another entry holds  *)
(* is refused; the latter ends a startup.                                  *)
Acceptable(x) == x \in Ids /\ meta[at] \in {None, x} /\ ~Claimed(x)
Duplicate(x) == x \in Ids /\ meta[at] \in {None, x} /\ Claimed(x)

(* What this entry goes by: the bucket's archive.json, or, for an entry    *)
(* that has no id yet, the cached one.                                     *)
Reading == phase = "metadata" /\ live[at] # Legacy
Refused == phase = "unsaved" \/ (Reading /\ ~Acceptable(live[at]))
FellBack == Refused /\ meta[at] = None
Clashes == Reading /\ Duplicate(live[at])

(* Broken variant: the claims of other entries are not looked at. *)
AcceptUnclaimed ==
    /\ Reading /\ live[at] \in Ids /\ meta[at] \in {None, live[at]}
    /\ meta' = [meta EXCEPT ![at] = live[at]] /\ saved' = [saved EXCEPT ![at] = live[at]]
    /\ phase' = "index"
    /\ UNCHANGED <<bucket, indexed, at, startup, errors, archive, status, published, adopted>>

Accept ==
    /\ Reading /\ Acceptable(live[at])
    /\ meta' = [meta EXCEPT ![at] = live[at]] /\ saved' = [saved EXCEPT ![at] = live[at]]
    /\ phase' = "index"
    /\ UNCHANGED <<bucket, indexed, at, startup, errors, archive, status, published, adopted>>

(* An archive.json that the cache does not have is written there before it *)
(* is accepted, which may fail.                                            *)
SaveFails ==
    /\ Reading /\ Acceptable(live[at]) /\ saved[at] # live[at]
    /\ changes < MaxChanges /\ changes' = changes + 1
    /\ phase' = "unsaved"
    /\ UNCHANGED <<live, cache, at, startup, errors, entries, published, adopted>>

KeepId ==
    /\ Refused /\ meta[at] # None
    /\ phase' = "index" /\ errors' = TRUE
    /\ UNCHANGED <<bucket, cache, at, startup, entries, published, adopted>>

AcceptCached ==
    /\ FellBack /\ ~(startup /\ Clashes) /\ Acceptable(saved[at])
    /\ meta' = [meta EXCEPT ![at] = saved[at]]
    /\ phase' = "index" /\ errors' = TRUE
    /\ UNCHANGED <<bucket, cache, at, startup, archive, status, published, adopted>>

DuplicateAtStartup ==
    /\ FellBack /\ startup /\ (Clashes \/ Duplicate(saved[at]))
    /\ Fatal

NoIdentity ==
    /\ FellBack /\ ~Acceptable(saved[at]) /\ ~(startup /\ (Clashes \/ Duplicate(saved[at])))
    /\ status' = [status EXCEPT ![at] = "unavailable"] /\ NextEntry
    /\ UNCHANGED <<bucket, cache, startup, meta, archive, published, adopted>>

(* check_legacy_layout comes first and again before indexes are read: the  *)
(* archive is taken out of service.                                        *)
RefuseLegacy ==
    /\ phase \in {"metadata", "index"} /\ live[at] = Legacy
    /\ archive' = [archive EXCEPT ![at] = FALSE]
    /\ status' = [status EXCEPT ![at] = "unavailable"] /\ NextEntry
    /\ UNCHANGED <<bucket, cache, startup, meta, published, adopted>>

Indexing == phase = "index" /\ live[at] # Legacy

(* load_archive, which looks for the objects of its id, or _poll_archive,  *)
(* which is content with none: from the bucket.  One whose archive.json is *)
(* broken may have indexes of that id.                                     *)
IndexRead ==
    /\ Indexing /\ live[at] # Down /\ (archive[at] \/ live[at] \in {meta[at], Broken})
    /\ archive' = [archive EXCEPT ![at] = TRUE]
    /\ indexed' = [indexed EXCEPT ![at] = @ \cup {meta[at]}]
    /\ status' = [status EXCEPT ![at] = IF errors THEN "stale" ELSE "ready"] /\ NextEntry
    /\ UNCHANGED <<bucket, saved, startup, meta, published, adopted>>

(* load_archive from the cache, or a failed poll of a loaded archive. *)
IndexCached ==
    /\ Indexing
    /\ IF archive[at] THEN live[at] = Down ELSE live[at] # meta[at] /\ meta[at] \in indexed[at]
    /\ archive' = [archive EXCEPT ![at] = TRUE]
    /\ status' = [status EXCEPT ![at] = "stale"] /\ NextEntry
    /\ UNCHANGED <<bucket, cache, startup, meta, published, adopted>>

NoIndex ==
    /\ Indexing /\ ~archive[at] /\ live[at] # meta[at] /\ meta[at] \notin indexed[at]
    /\ status' = [status EXCEPT ![at] = "unavailable"] /\ NextEntry
    /\ UNCHANGED <<bucket, cache, startup, meta, archive, published, adopted>>

(* What publish writes: a card per entry, a collection per loaded archive. *)
State ==
    [cards |-> [s \in Sources |-> <<meta[s], status[s]>>],
     served |-> {meta[s] : s \in {t \in Sources : archive[t]}}]

(* The file is replaced at once, and only when its contents change. *)
Publish ==
    /\ phase = "publish" /\ phase' = "sleep"
    /\ snapshot' = State
    /\ stamp' = IF stamp = 0 \/ snapshot # State THEN stamp + 1 ELSE stamp
    /\ startup' = FALSE
    /\ UNCHANGED <<bucket, cache, at, errors, entries, adopted>>

(* An exception anywhere in publish, for any entry. *)
PublishFails ==
    /\ phase = "publish" /\ phase' = IF startup THEN "fatal" ELSE "sleep"
    /\ UNCHANGED <<bucket, cache, at, startup, errors, entries, published, adopted>>

Refresh ==
    \/ BeginRefresh \/ Accept \/ SaveFails \/ KeepId \/ AcceptCached \/ DuplicateAtStartup \/ NoIdentity
    \/ RefuseLegacy \/ IndexRead \/ IndexCached \/ NoIndex

----------------------------------------------------------------------------
(***************************************************************************)
(* CatalogFrontend._refresh_catalog, on every request                      *)
(***************************************************************************)
Stat ==
    /\ seen = 0 /\ stamp # 0 /\ stamp # catalogStamp
    /\ seen' = stamp
    /\ UNCHANGED <<bucket, cache, refresh, entries, published, catalog, catalogStamp, routes>>

(* The contents may be newer than the stamp. *)
Adopt ==
    /\ seen # 0 /\ seen' = 0
    /\ catalog' = snapshot /\ catalogStamp' = seen
    /\ routes' = routes \cup snapshot.served
    /\ UNCHANGED <<bucket, cache, refresh, entries, published>>

(* Broken variant: the stamp is noted all the same.                        *)
AdoptFailsNoted ==
    /\ seen # 0 /\ seen' = 0 /\ catalogStamp' = seen
    /\ \E some \in SUBSET snapshot.served : some # snapshot.served /\ routes' = routes \cup some
    /\ UNCHANGED <<bucket, cache, refresh, entries, published, catalog>>

(* A collection cannot be loaded: the routes before it stay, the previous  *)
(* catalog and its stamp do too.                                           *)
AdoptFails ==
    /\ seen # 0 /\ seen' = 0
    /\ \E some \in SUBSET snapshot.served : some # snapshot.served /\ routes' = routes \cup some
    /\ UNCHANGED <<bucket, cache, refresh, entries, published, catalog, catalogStamp>>

----------------------------------------------------------------------------
(***************************************************************************)
(* Properties                                                              *)
(***************************************************************************)

(* An archive id has one owner, in the entries, in what is published and   *)
(* in what the replay process shows, whichever buckets claim it, live or   *)
(* from the cache.  (_accept_metadata; ARCHITECTURE-NAVIGATOR.md:31        *)
(* "recovery conflicts cannot replace an already claimed archive")         *)
OneOwner ==
    \A x \in Ids :
        /\ Cardinality({s \in Sources : meta[s] = x}) <= 1
        /\ \A state \in {snapshot, catalog} : Cardinality({s \in Sources : state.cards[s][1] = x}) <= 1

(* Every collection the replay process shows has a route, and its catalog  *)
(* is out of date whenever its stamp says so: an equal stamp means equal   *)
(* contents, although the file may be replaced between stat and read.      *)
(* (frontend.py l.26-39)                                                   *)
AdoptedWhole ==
    /\ catalog.served \subseteq routes
    /\ (stamp # 0 /\ catalogStamp = stamp) => catalog = snapshot
============================================================================
