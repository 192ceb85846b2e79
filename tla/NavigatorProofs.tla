-------------------------- MODULE NavigatorProofs --------------------------
(***************************************************************************)
(* For any number of entries, any ids and caches, any changes of buckets   *)
(* and any signals: an archive id has one owner, in memory, in the         *)
(* published snapshot and in the catalog of the replay process; that one   *)
(* adopts catalogs whole; and a Navigator that is gone leaves no process   *)
(* and no directory behind.  From Found on: what an archive plays back     *)
(* (RemoteIndex) was checked, and no year of it is lost in a session.      *)
(***************************************************************************)
EXTENDS Navigator, RemoteIndex, FiniteSetTheorems, TLAPS

(* No two entries claim one id; nor do two cards show one. *)
Exclusive(claim) ==
    \A s \in Sources, t \in Sources : claim[s] \in Ids /\ claim[s] = claim[t] => s = t
Shown(state) == [s \in Sources |-> state.cards[s][1]]

ClaimsInv ==
    /\ meta \in [Sources -> Ids \cup {None}] /\ at \in Sources
    /\ Exclusive(meta)

(* Cards are written from the claims, and the replay process reads cards. *)
CardsInv == Exclusive(Shown(snapshot)) /\ Exclusive(Shown(catalog))

OwnersInv == ClaimsInv /\ CardsInv

----------------------------------------------------------------------------
(* Ids are not markers, and there is an entry. *)
LEMMA Marks == Entries \in Nat \ {0} /\ None \notin Ids /\ Down \notin Ids
  BY CatalogAssumption

LEMMA NothingShown == Exclusive(Shown(NoSnapshot))
  <1>1. \A s \in Sources : Shown(NoSnapshot)[s] = None
    BY DEF Shown, NoSnapshot
  <1> QED  BY <1>1, Marks DEF Exclusive

(* What publish writes shows the claims. *)
LEMMA StateShowsClaims == ASSUME Exclusive(meta) PROVE Exclusive(Shown(State))
  <1>1. \A s \in Sources : Shown(State)[s] = meta[s]
    BY DEF Shown, State
  <1> QED  BY <1>1 DEF Exclusive

(* An entry that takes an id that no other entry claims. *)
LEMMA TakingAnId ==
    ASSUME ClaimsInv, NEW x, Acceptable(x), meta' = [meta EXCEPT ![at] = x]
    PROVE  meta' \in [Sources -> Ids \cup {None}] /\ Exclusive(meta')
  <1>1. x \in Ids /\ at \in Sources
    BY DEF Acceptable, ClaimsInv
  <1>2. \A t \in Sources : meta'[t] = IF t = at THEN x ELSE meta[t]
    BY <1>1 DEF ClaimsInv
  <1>3. \A t \in Sources \ {at} : meta[t] # x
    BY DEF Acceptable, Claimed
  <1>4. meta' \in [Sources -> Ids \cup {None}]
    BY <1>1 DEF ClaimsInv
  <1>5. Exclusive(meta')
    BY <1>1, <1>2, <1>3 DEF ClaimsInv, Exclusive
  <1> QED  BY <1>4, <1>5

(* An exclusive claim belongs to at most one entry. *)
LEMMA AtMostOne ==
    ASSUME NEW claim, Exclusive(claim), NEW x \in Ids
    PROVE  Cardinality({s \in Sources : claim[s] = x}) <= 1
  <1> DEFINE owners == {s \in Sources : claim[s] = x}
  <1>1. CASE owners = {}
    <2>1. Cardinality(owners) = 0  BY <1>1, FS_EmptySet
    <2> QED  BY <2>1
  <1>2. CASE owners # {}
    <2>1. PICK s \in owners : TRUE  BY <1>2
    <2>2. owners = {s}  BY <2>1 DEF Exclusive
    <2>3. Cardinality(owners) = 1  BY <2>2, FS_Singleton
    <2> QED  BY <2>3
  <1> QED  BY <1>1, <1>2

----------------------------------------------------------------------------
(* The refresh moves through the entries, and claims change only where an  *)
(* id is accepted, from the bucket or from the cache.                      *)
LEMMA EntriesInOrder == ASSUME at \in Sources, NextEntry PROVE at' \in Sources
  BY Marks DEF NextEntry, Sources

LEMMA RefreshKeeps == ASSUME OwnersInv, Refresh PROVE OwnersInv'
  <1>1. at \in Sources  BY DEF OwnersInv, ClaimsInv
  <1>2. snapshot' = snapshot /\ catalog' = catalog
    BY DEF Refresh, BeginRefresh, Accept, SaveFails, KeepId, AcceptCached, DuplicateAtStartup, NoIdentity, Fatal,
           RefuseLegacy, IndexRead, IndexCached, NoIndex, published, adopted
  <1>3. CardsInv'
    BY <1>2 DEF OwnersInv, CardsInv, Exclusive, Shown
  <1>4. at' \in Sources
    <2>1. CASE BeginRefresh  BY <2>1, Marks DEF BeginRefresh, Sources
    <2>2. CASE NextEntry  BY <2>2, <1>1, EntriesInOrder
    <2>3. CASE at' = at  BY <2>3, <1>1
    <2> QED
      BY <2>1, <2>2, <2>3
      DEF Refresh, Accept, SaveFails, KeepId, AcceptCached, DuplicateAtStartup, NoIdentity, Fatal,
          RefuseLegacy, IndexRead, IndexCached, NoIndex
  <1>5. meta' \in [Sources -> Ids \cup {None}] /\ Exclusive(meta')
    <2>1. CASE Accept
      BY <2>1, TakingAnId DEF Accept, OwnersInv
    <2>2. CASE AcceptCached
      BY <2>2, TakingAnId DEF AcceptCached, OwnersInv
    <2>3. CASE meta' = meta
      BY <2>3 DEF OwnersInv, ClaimsInv, Exclusive
    <2> QED
      BY <2>1, <2>2, <2>3
      DEF Refresh, BeginRefresh, SaveFails, KeepId, DuplicateAtStartup, NoIdentity, Fatal,
          RefuseLegacy, IndexRead, IndexCached, NoIndex, entries
  <1> QED  BY <1>3, <1>4, <1>5 DEF OwnersInv, ClaimsInv

LEMMA PublishKeeps == ASSUME OwnersInv, Publish PROVE OwnersInv'
  <1>1. snapshot' = State /\ meta' = meta /\ at' = at /\ catalog' = catalog
    BY DEF Publish, entries, adopted
  <1>2. Exclusive(Shown(State))
    BY StateShowsClaims DEF OwnersInv, ClaimsInv
  <1> QED  BY <1>1, <1>2 DEF OwnersInv, ClaimsInv, CardsInv, Exclusive, Shown

(* The replay process takes the snapshot as it is, or nothing. *)
LEMMA AdoptionKeeps == ASSUME OwnersInv, Stat \/ Adopt \/ AdoptFails PROVE OwnersInv'
  <1>1. meta' = meta /\ at' = at /\ snapshot' = snapshot /\ catalog' \in {catalog, snapshot}
    BY DEF Stat, Adopt, AdoptFails, entries, refresh, published
  <1> QED  BY <1>1 DEF OwnersInv, ClaimsInv, CardsInv, Exclusive, Shown

(* A process that is gone claims and shows nothing. *)
LEMMA ForgettingKeeps == ASSUME OwnersInv, NavigatorForgets PROVE OwnersInv'
  <1>1. meta' = [s \in Sources |-> None] /\ at' = 1 /\ snapshot' = NoSnapshot /\ catalog' = NoSnapshot
    BY DEF NavigatorForgets, ReplayForgets
  <1>2. at' \in Sources  BY <1>1, Marks DEF Sources
  <1>3. meta' \in [Sources -> Ids \cup {None}] /\ Exclusive(meta')
    BY <1>1, Marks DEF Exclusive
  <1>4. CardsInv'
    BY <1>1, NothingShown DEF CardsInv, Exclusive, Shown
  <1> QED  BY <1>2, <1>3, <1>4 DEF OwnersInv, ClaimsInv

LEMMA ReplayForgettingKeeps ==
    ASSUME OwnersInv, ReplayForgets, meta' = meta, at' = at, snapshot' = snapshot
    PROVE  OwnersInv'
  <1>1. catalog' = NoSnapshot  BY DEF ReplayForgets
  <1> QED  BY <1>1, NothingShown DEF OwnersInv, ClaimsInv, CardsInv, Exclusive, Shown

LEMMA NothingChanges ==
    ASSUME OwnersInv, UNCHANGED <<meta, at, snapshot, catalog>>
    PROVE  OwnersInv'
  BY DEF OwnersInv, ClaimsInv, CardsInv, Exclusive, Shown

----------------------------------------------------------------------------
LEMMA InitOwners == Init => OwnersInv
  <1> SUFFICES ASSUME Init PROVE OwnersInv  OBVIOUS
  <1>1. meta = [s \in Sources |-> None] /\ at = 1 /\ snapshot = NoSnapshot /\ catalog = NoSnapshot
    BY DEF Init, CatalogInit
  <1>2. at \in Sources /\ meta \in [Sources -> Ids \cup {None}] /\ Exclusive(meta)
    BY <1>1, Marks DEF Sources, Exclusive
  <1> QED  BY <1>1, <1>2, NothingShown DEF OwnersInv, ClaimsInv, CardsInv

(* The main thread: only the ends of a process touch what it knows. *)
LEMMA MainKeeps == ASSUME OwnersInv, Main PROVE OwnersInv'
  <1>1. CASE Kill
    BY <1>1, ReplayForgettingKeeps DEF Kill, ChildDies, refresh, entries, published
  <1>2. CASE Exit
    BY <1>2, ForgettingKeeps DEF Exit, Vanish
  <1>3. CASE UNCHANGED <<meta, at, snapshot, catalog>>
    BY <1>3, NothingChanges
  <1> QED
    BY <1>1, <1>2, <1>3
    DEF Main, StartupDone, StartupFails, Spawn, CannotSpawn, InstallHandler, EnterTry, StopPolling, Ready, CallbackFails,
        NotReady, ExitSeen, Terminate, Stopped, Leave, Joined, JoinTimesOut, Cleanup, Goes, ChildStep,
        catalogVars, refresh, entries, published, adopted

LEMMA NextKeeps == OwnersInv /\ [Next]_vars => OwnersInv'
  <1> SUFFICES ASSUME OwnersInv, [Next]_vars PROVE OwnersInv'  OBVIOUS
  <1>1. CASE Main  BY <1>1, MainKeeps
  <1>2. CASE ChildExits
    BY <1>2, ReplayForgettingKeeps DEF ChildExits, ChildDies, refresh, entries, published
  <1>3. CASE TerminatedBare  BY <1>3, ForgettingKeeps DEF TerminatedBare, Vanish
  <1>4. CASE RefreshStep  BY <1>4, RefreshKeeps DEF RefreshStep
  <1>5. CASE PublishStep  BY <1>5, PublishKeeps DEF PublishStep
  <1>6. CASE StatStep \/ AdoptStep \/ AdoptFailsStep
    BY <1>6, AdoptionKeeps DEF StatStep, AdoptStep, AdoptFailsStep
  <1>7. CASE UNCHANGED <<meta, at, snapshot, catalog>>
    BY <1>7, NothingChanges
  <1>8. CASE Launch \/ ChildReady \/ CtrlC \/ Terminated \/ PublishFailsStep \/ ChangeStep \/ UNCHANGED vars
    <2>1. UNCHANGED <<meta, at, snapshot, catalog>>
      BY <1>8
      DEF Launch, ChildReady, ChildStep, CtrlC, Terminated, PublishFailsStep, PublishFails, ChangeStep,
          Change, vars, catalogVars, refresh, entries, published, adopted
    <2> QED  BY <2>1, NothingChanges
  <1> QED
    BY <1>1, <1>2, <1>3, <1>4, <1>5, <1>6, <1>8 DEF Next

----------------------------------------------------------------------------
(* The inductive invariant behind one owner per id. *)
THEOREM OwnersInvariance == Spec => []OwnersInv
  <1>1. Init => OwnersInv  BY InitOwners
  <1>2. OwnersInv /\ [Next]_vars => OwnersInv'  BY NextKeeps
  <1> QED  BY <1>1, <1>2, PTL DEF Spec

(* An archive id has one owner: among the entries Navigator claims ids     *)
(* for, in the snapshot it published and in the catalog the replay process *)
(* shows, whatever buckets answer, caches hold and signals interrupt.      *)
THEOREM OneOwnerForever == Spec => []OneOwner
  <1>1. OwnersInv => OneOwner
    <2> SUFFICES ASSUME OwnersInv, NEW x \in Ids
                 PROVE  /\ Cardinality({s \in Sources : meta[s] = x}) <= 1
                        /\ \A state \in {snapshot, catalog} :
                               Cardinality({s \in Sources : state.cards[s][1] = x}) <= 1
      BY DEF OneOwner
    <2>1. Cardinality({s \in Sources : meta[s] = x}) <= 1
      BY AtMostOne DEF OwnersInv, ClaimsInv
    <2>2. ASSUME NEW state \in {snapshot, catalog}
          PROVE  Cardinality({s \in Sources : state.cards[s][1] = x}) <= 1
      <3>1. Exclusive(Shown(state))  BY <2>2 DEF OwnersInv, CardsInv
      <3>2. Cardinality({s \in Sources : Shown(state)[s] = x}) <= 1  BY <3>1, AtMostOne
      <3>3. {s \in Sources : Shown(state)[s] = x} = {s \in Sources : state.cards[s][1] = x}
        BY DEF Shown
      <3> QED  BY <3>2, <3>3
    <2> QED  BY <2>1, <2>2
  <1>2. Spec => []OwnersInv  BY OwnersInvariance
  <1> QED  BY <1>1, <1>2, PTL
----------------------------------------------------------------------------
(* Where the main thread is says what of the replay process, the catalog   *)
(* thread and the directory can be left, unless a signal fell where        *)
(* nothing guards: without a child there is nothing to stop, after the     *)
(* catalog thread has ended nobody publishes again, after cleanup there is *)
(* no directory.                                                           *)
Places == {"gone", "startup", "started", "spawn", "spawned", "waiting", "serving", "expired", "stopping",
           "finally", "join", "cleanup", "exit"}
Childless == {"startup", "started", "spawn", "join", "cleanup", "exit", "gone"}
Quiet == ~polling /\ (startup \/ phase \in {"off", "sleep", "fatal"})

CleanInv ==
    /\ pc \in Places /\ (pc = "gone" => ~polling)
    /\ ~exposed => /\ pc \in Childless => ~Running
                   /\ pc \in {"startup", "cleanup", "exit", "gone"} => Quiet
                   /\ pc \in {"exit", "gone"} => ~runtime

(* The catalog thread does nothing before or after its time, and leaves    *)
(* the rest alone.                                                         *)
LEMMA QuietMeansNothingPublished ==
    ASSUME CleanInv, ~exposed, pc \in {"startup", "cleanup", "exit", "gone"}, pc = "startup" => ~startup
    PROVE  ~(Polls /\ (Refresh \/ Publish \/ PublishFails))
  BY DEF CleanInv, Quiet, Polls, Refresh, Publish, PublishFails, BeginRefresh, Reading, Indexing,
         Accept, SaveFails, KeepId, AcceptCached, DuplicateAtStartup, NoIdentity, RefuseLegacy, IndexRead,
         IndexCached, NoIndex, Refused, FellBack

LEMMA RefreshKeepsStartup == ASSUME Refresh PROVE startup' = startup
  BY DEF Refresh, BeginRefresh, Accept, SaveFails, KeepId, AcceptCached, DuplicateAtStartup, NoIdentity, Fatal,
         RefuseLegacy, IndexRead, IndexCached, NoIndex

LEMMA CatalogThreadKeepsClean ==
    ASSUME CleanInv, RefreshStep \/ PublishStep \/ PublishFailsStep PROVE CleanInv'
  <1>1. pc' = pc /\ child' = child /\ exposed' = exposed /\ polling' = polling
    BY DEF RefreshStep, PublishStep, PublishFailsStep, main, history
  <1>2. CASE exposed  BY <1>1, <1>2 DEF CleanInv
  <1>3. CASE ~exposed
    <2>1. pc \notin {"cleanup", "exit", "gone"}
      BY <1>3, QuietMeansNothingPublished DEF RefreshStep, PublishStep, PublishFailsStep
    <2>2. pc = "startup" => startup
      BY <1>3, QuietMeansNothingPublished DEF RefreshStep, PublishStep, PublishFailsStep
    <2>3. pc = "startup" => Quiet'
      BY <1>1, <1>3, <2>2, RefreshKeepsStartup
      DEF CleanInv, Quiet, RefreshStep, PublishStep, PublishFailsStep, Publish, PublishFails
    <2> QED  BY <1>1, <2>1, <2>3 DEF CleanInv, Running
  <1> QED  BY <1>2, <1>3

LEMMA MainKeepsClean == ASSUME CleanInv, Main PROVE CleanInv'
  <1>1. CASE StartupDone
    BY <1>1 DEF StartupDone, history, CleanInv, Childless, Places, Running
  <1>2. CASE StartupFails
    BY <1>2 DEF StartupFails, Goes, history, catalogVars, refresh, CleanInv, Childless, Places, Quiet, Running
  <1>3. CASE Spawn \/ InstallHandler \/ Ready \/ CallbackFails \/ NotReady \/ ExitSeen \/ Stopped
    BY <1>3 DEF Spawn, InstallHandler, Ready, CallbackFails, NotReady, ExitSeen, Stopped, Goes, history,
                CleanInv, Childless, Places
  <1>4. CASE CannotSpawn
    BY <1>4 DEF CannotSpawn, Goes, history, CleanInv, Childless, Places, Running
  <1>5. CASE Terminate
    BY <1>5 DEF Terminate, Shutting, ChildStep, history, CleanInv, Childless, Places
  <1>6. CASE Kill
    BY <1>6 DEF Kill, Shutting, ChildDies, history, CleanInv, Childless, Places
  <1>7. CASE Leave
    BY <1>7 DEF Leave, Goes, history, CleanInv, Childless, Places, Running
  <1>8. CASE Joined
    BY <1>8 DEF Joined, history, CleanInv, Childless, Places, Quiet, Running
  <1>9. CASE JoinTimesOut
    BY <1>9 DEF JoinTimesOut, CleanInv, Places
  <1>10. CASE Cleanup
    BY <1>10 DEF Cleanup, history, catalogVars, refresh, CleanInv, Childless, Places, Quiet, Running
  <1>11. CASE Exit
    BY <1>11 DEF Exit, Vanish, NavigatorForgets, history, CleanInv, Childless, Places, Quiet, Running
  <1>12. CASE EnterTry
    BY <1>12 DEF EnterTry, Goes, history, CleanInv, Childless, Places, Running
  <1>13. CASE StopPolling
    BY <1>13 DEF StopPolling, history, CleanInv, Childless, Places, Running
  <1> QED
    BY <1>1, <1>2, <1>3, <1>4, <1>5, <1>6, <1>7, <1>8, <1>9, <1>10, <1>11, <1>12, <1>13 DEF Main

(* A signal where nothing guards is noted; elsewhere the way out leads     *)
(* through the steps that clean up.                                        *)
LEMMA SignalKeepsClean == ASSUME CleanInv, CtrlC \/ Terminated \/ TerminatedBare PROVE CleanInv'
  <1>1. CASE CtrlC
    <2>1. UNCHANGED <<child, runtime, phase, startup, polling>>
      BY <1>1 DEF CtrlC, catalogVars, refresh
    <2>2. exposed' = (exposed \/ pc \in {"started", "spawned", "finally", "join", "cleanup"})
      BY <1>1 DEF CtrlC, Asked
    <2>3. pc \in Places \ {"gone"} /\ pc' = Raised
      BY <1>1 DEF CtrlC, CleanInv
    <2>4. /\ pc' \in Places \ {"gone"}
          /\ pc = "startup" => pc' = "cleanup"
          /\ pc = "spawn" => pc' = "join"
          /\ pc \in {"waiting", "serving", "expired", "stopping"} => pc' \in {"stopping", "finally"}
          /\ pc = "exit" => pc' = "exit"
      BY <2>3 DEF Raised, Places
    <2> QED  BY <2>1, <2>2, <2>3, <2>4 DEF CleanInv, Places, Childless, Quiet, Running
  <1>2. CASE Terminated
    <2>1. pc' \in {"stopping", "finally"}
      BY <1>2 DEF Terminated, Handled, Raised
    <2> QED  BY <2>1 DEF CleanInv, Places, Childless
  <1>3. CASE TerminatedBare
    BY <1>3 DEF TerminatedBare, Asked, Vanish, CleanInv, Places
  <1> QED  BY <1>1, <1>2, <1>3

LEMMA NextKeepsClean == CleanInv /\ [Next]_vars => CleanInv'
  <1> SUFFICES ASSUME CleanInv, [Next]_vars PROVE CleanInv'  OBVIOUS
  <1>1. CASE Launch
    BY <1>1 DEF Launch, CleanInv, Childless, Places, Quiet, Running
  <1>2. CASE Main  BY <1>2, MainKeepsClean
  <1>3. CASE ChildReady
    BY <1>3 DEF ChildReady, ChildStep, history, catalogVars, refresh, CleanInv, Childless, Quiet, Running
  <1>4. CASE ChildExits
    BY <1>4 DEF ChildExits, ChildDies, history, refresh, CleanInv, Childless, Quiet, Running
  <1>5. CASE CtrlC \/ Terminated \/ TerminatedBare  BY <1>5, SignalKeepsClean
  <1>6. CASE RefreshStep \/ PublishStep \/ PublishFailsStep  BY <1>6, CatalogThreadKeepsClean
  <1>7. CASE StatStep \/ AdoptStep \/ AdoptFailsStep \/ ChangeStep \/ UNCHANGED vars
    <2>1. UNCHANGED <<pc, child, runtime, exposed, phase, startup, polling>>
      BY <1>7
      DEF StatStep, Stat, AdoptStep, Adopt, AdoptFailsStep, AdoptFails, ChangeStep, Change, vars,
          catalogVars, main, history, refresh
    <2> QED  BY <2>1 DEF CleanInv, Childless, Quiet, Running
  <1> QED
    BY <1>1, <1>2, <1>3, <1>4, <1>5, <1>6, <1>7 DEF Next

(* However Navigator comes to an end, the replay process has ended and the *)
(* temporary directory is removed, unless a signal fell where no handler   *)
(* or finally block guards, or the catalog thread outlived its join.       *)
THEOREM NothingIsLeft == Spec => []LeavesNothing
  <1>1. Init => CleanInv
    BY DEF Init, CatalogInit, CleanInv, Places, Childless, Quiet, Running
  <1>2. CleanInv /\ [Next]_vars => CleanInv'  BY NextKeepsClean
  <1>3. CleanInv => LeavesNothing
    BY DEF CleanInv, LeavesNothing, Childless
  <1> QED  BY <1>1, <1>2, <1>3, PTL DEF Spec
----------------------------------------------------------------------------
(* Stamps grow with the contents, and the replay process has none that     *)
(* Navigator did not give: so an equal stamp means equal contents.         *)
AdoptedInv ==
    /\ stamp \in Nat /\ seen \in 0 .. stamp /\ catalogStamp \in 0 .. stamp
    /\ AdoptedWhole

LEMMA PublishKeepsAdopted == ASSUME AdoptedInv, Publish PROVE AdoptedInv'
  <1>1. /\ UNCHANGED <<catalog, catalogStamp, seen, routes>>
        /\ stamp' = IF stamp = 0 \/ snapshot # snapshot' THEN stamp + 1 ELSE stamp
    BY DEF Publish, adopted
  <1> QED  BY <1>1 DEF AdoptedInv, AdoptedWhole

(* What is read is not older than the stamp that was read before it. *)
LEMMA AdoptionKeepsAdopted == ASSUME AdoptedInv, Stat \/ Adopt \/ AdoptFails PROVE AdoptedInv'
  BY DEF Stat, Adopt, AdoptFails, published, AdoptedInv, AdoptedWhole

LEMMA ForgettingKeepsAdopted ==
    ASSUME AdoptedInv, ReplayForgets,
           UNCHANGED <<snapshot, stamp>> \/ (snapshot' = NoSnapshot /\ stamp' = 0)
    PROVE  AdoptedInv'
  BY DEF ReplayForgets, NoSnapshot, AdoptedInv, AdoptedWhole

LEMMA NothingAdopted ==
    ASSUME AdoptedInv, UNCHANGED <<published, adopted>> PROVE AdoptedInv'
  BY DEF published, adopted, AdoptedInv, AdoptedWhole

LEMMA NextKeepsAdopted == AdoptedInv /\ [Next]_vars => AdoptedInv'
  <1> SUFFICES ASSUME AdoptedInv, [Next]_vars PROVE AdoptedInv'  OBVIOUS
  <1>1. CASE Kill \/ ChildExits
    BY <1>1, ForgettingKeepsAdopted DEF Kill, ChildExits, ChildDies, published
  <1>2. CASE Exit \/ TerminatedBare
    BY <1>2, ForgettingKeepsAdopted DEF Exit, TerminatedBare, Vanish, NavigatorForgets
  <1>3. CASE RefreshStep
    BY <1>3, NothingAdopted
    DEF RefreshStep, Refresh, BeginRefresh, Accept, SaveFails, KeepId, AcceptCached, DuplicateAtStartup, NoIdentity, Fatal,
        RefuseLegacy, IndexRead, IndexCached, NoIndex
  <1>4. CASE PublishStep  BY <1>4, PublishKeepsAdopted DEF PublishStep
  <1>5. CASE StatStep \/ AdoptStep \/ AdoptFailsStep
    BY <1>5, AdoptionKeepsAdopted DEF StatStep, AdoptStep, AdoptFailsStep
  <1>6. CASE Main /\ ~Kill /\ ~Exit
    BY <1>6, NothingAdopted
    DEF Main, StartupDone, StartupFails, Spawn, CannotSpawn, InstallHandler, EnterTry, StopPolling, Ready, CallbackFails,
        NotReady, ExitSeen, Terminate, Stopped, Leave, Joined, JoinTimesOut, Cleanup, Goes, ChildStep,
        catalogVars
  <1>7. CASE Launch \/ ChildReady \/ CtrlC \/ Terminated \/ PublishFailsStep \/ ChangeStep \/ UNCHANGED vars
    BY <1>7, NothingAdopted
    DEF Launch, ChildReady, ChildStep, CtrlC, Terminated, PublishFailsStep, PublishFails, ChangeStep,
        Change, vars, catalogVars
  <1> QED  BY <1>1, <1>2, <1>3, <1>4, <1>5, <1>6, <1>7 DEF Next

(* The replay process has a route for every collection it shows, and never *)
(* takes an old catalog for the published one, although the file may be    *)
(* replaced between stat and read, and adoption may fail half way.         *)
THEOREM AdoptedAsAWhole == Spec => []AdoptedWhole
  <1>1. Init => AdoptedInv
    BY DEF Init, CatalogInit, AdoptedInv, AdoptedWhole, NoSnapshot
  <1>2. AdoptedInv /\ [Next]_vars => AdoptedInv'  BY NextKeepsAdopted
  <1>3. AdoptedInv => AdoptedWhole  BY DEF AdoptedInv
  <1> QED  BY <1>1, <1>2, <1>3, PTL DEF Spec

----------------------------------------------------------------------------
(***************************************************************************)
(* RemoteIndex: for every number of years, additions and resets, and any   *)
(* failures and restarts, playback reads checked indexes and loses none.   *)
(***************************************************************************)

(* Whatever is on the way to playback was found within its WARCs: fetched  *)
(* indexes, annual cache files and the merged snapshot.                    *)
Found(f) == DOMAIN f = Years /\ \A y \in Years : f[y] = Absent \/ <<y, f[y]>> \in checked

FoundInv == Found(staged) /\ Found(annual) /\ Found(mergedIndex)

(* What playback serves is of years still in the cache files and, in a     *)
(* session, of years the session has accepted: so a merge has them again.  *)
YearsInv ==
    /\ served \in BOOLEAN
    /\ Present(mergedIndex) \subseteq Present(annual)
    /\ served => Present(mergedIndex) \subseteq Present(accepted)

IndexInv == FoundInv /\ YearsInv

----------------------------------------------------------------------------
LEMMA FromCacheIsPresent == FromCache # Absent
  BY RemoteAssumption DEF Objects

LEMMA NothingFound == Found(NoYears)
  BY DEF Found, NoYears

LEMMA InitIndexInv == IndexInit => IndexInv
  BY DEF IndexInit, IndexInv, FoundInv, YearsInv, Found, Present, NoYears

(* The bucket, and the parts of a refresh before its files, change nothing *)
(* of what the invariant is about but what has been staged.                *)
LEMMA ElsewhereKeeps ==
    ASSUME IndexInv, UNCHANGED <<annual, mergedIndex, served, accepted, checked>>, staged' \in {staged, NoYears}
    PROVE  IndexInv'
  BY NothingFound DEF IndexInv, FoundInv, YearsInv, Found, Present, NoYears

LEMMA StageKeeps == ASSUME IndexInv, NEW y \in Years, Stage(y) PROVE IndexInv'
  <1>1. /\ UNCHANGED <<annual, mergedIndex, served, accepted>>
        /\ staged' = [staged EXCEPT ![y] = seenIndex[y]] /\ checked' = checked \cup {<<y, seenIndex[y]>>}
    BY DEF Stage, WithinWarcs, disk
  <1>2. Found(staged)'
    BY <1>1 DEF IndexInv, FoundInv, Found
  <1>3. Found(annual)' /\ Found(mergedIndex)'
    BY <1>1 DEF IndexInv, FoundInv, Found
  <1>4. YearsInv'
    BY <1>1 DEF IndexInv, YearsInv, Present
  <1> QED  BY <1>2, <1>3, <1>4 DEF IndexInv, FoundInv

LEMMA ReplaceAnnualKeeps == ASSUME IndexInv, NEW y \in Years, ReplaceAnnual(y) PROVE IndexInv'
  <1>1. /\ UNCHANGED <<mergedIndex, served, accepted, checked>> /\ staged[y] # Absent
        /\ annual' = [annual EXCEPT ![y] = staged[y]] /\ staged' = [staged EXCEPT ![y] = Absent]
    BY DEF ReplaceAnnual
  <1>2. FoundInv'
    BY <1>1 DEF IndexInv, FoundInv, Found
  <1>3. Present(annual) \subseteq Present(annual')
    BY <1>1 DEF Present
  <1>4. YearsInv'
    BY <1>1, <1>3 DEF IndexInv, YearsInv, Present
  <1> QED  BY <1>2, <1>4 DEF IndexInv

LEMMA ReplaceSnapshotKeeps ==
    ASSUME IndexInv, ReplaceSnapshot
    PROVE  IndexInv' /\ (served => Present(mergedIndex) \subseteq Present(mergedIndex'))
  <1>1. /\ UNCHANGED <<annual, checked>> /\ served' = TRUE /\ staged' = NoYears
        /\ mergedIndex' = [y \in Years |-> IF y \in Accepted THEN annual[y] ELSE Absent]
        /\ accepted' = [y \in Years |-> IF seenIndex[y] # Absent THEN seenIndex[y]
                                        ELSE IF served THEN accepted[y] ELSE Absent]
    BY DEF ReplaceSnapshot, Done
  <1>2. FoundInv'
    BY <1>1, NothingFound DEF IndexInv, FoundInv, Found, NoYears
  <1>3. Present(accepted') = Accepted
    BY <1>1 DEF Present, Accepted
  <1>4. Present(mergedIndex') = Accepted \cap Present(annual)
    BY <1>1 DEF Present, Accepted
  <1>5. served => Present(mergedIndex) \subseteq Accepted \cap Present(annual)
    BY DEF IndexInv, YearsInv, Accepted
  <1>6. YearsInv'
    BY <1>1, <1>3, <1>4 DEF YearsInv, Present
  <1> QED  BY <1>2, <1>4, <1>5, <1>6 DEF IndexInv

LEMMA FallbackKeeps ==
    ASSUME IndexInv, Fallback, UNCHANGED <<annual, checked>>, staged' = NoYears
    PROVE  IndexInv'
  <1>1. /\ served' = TRUE /\ mergedIndex' \in {mergedIndex, annual}
        /\ accepted' = [y \in Years |-> IF annual[y] = Absent THEN Absent ELSE FromCache]
    BY DEF Fallback
  <1>2. Present(accepted') = Present(annual)
    BY <1>1, FromCacheIsPresent DEF Present
  <1>3. FoundInv'
    BY <1>1, NothingFound DEF IndexInv, FoundInv, Found, NoYears
  <1>4. Present(mergedIndex') \subseteq Present(annual)
    BY <1>1 DEF IndexInv, YearsInv, Present
  <1>5. YearsInv'
    BY <1>1, <1>2, <1>4 DEF YearsInv, Present
  <1> QED  BY <1>3, <1>5 DEF IndexInv

LEMMA FailKeeps == ASSUME IndexInv, Fail PROVE IndexInv'
  <1>1. UNCHANGED <<annual, checked>> /\ staged' = NoYears
    BY DEF Fail, Done
  <1>2. CASE ~served /\ annual # NoYears
    BY <1>1, <1>2, FallbackKeeps DEF Fail
  <1>3. CASE ~(~served /\ annual # NoYears)
    <2>1. UNCHANGED <<served, accepted, mergedIndex>>
      BY <1>3 DEF Fail
    <2> QED  BY <1>1, <2>1, ElsewhereKeeps
  <1> QED  BY <1>2, <1>3

LEMMA RestartKeeps == ASSUME IndexInv, Restart PROVE IndexInv'
  <1>1. UNCHANGED <<annual, mergedIndex, checked>> /\ served' = FALSE /\ staged' = NoYears
    BY DEF Restart, Done, disk
  <1> QED  BY <1>1, NothingFound DEF IndexInv, FoundInv, YearsInv, Found, Present, NoYears

(* The remaining steps. *)
Elsewhere ==
    \/ RefreshIndex \/ ListPage \/ Discover \/ NothingNew \/ PublishIndexes \/ Reset \/ Delete
    \/ \E y \in Years : UploadWarc(y) \/ UploadIndex(y)

LEMMA ElsewhereIsElsewhere ==
    ASSUME Elsewhere
    PROVE  UNCHANGED <<annual, mergedIndex, served, accepted, checked>> /\ staged' \in {staged, NoYears}
  BY DEF Elsewhere, RefreshIndex, ListPage, Discover, NothingNew, PublishIndexes, Reset, Delete, UploadWarc,
         UploadIndex, Done, navigator, disk, staging

LEMMA IndexNextKeeps ==
    ASSUME IndexInv, [IndexNext]_indexVars
    PROVE  IndexInv' /\ (served /\ served' => Present(mergedIndex) \subseteq Present(mergedIndex'))
  <1>1. CASE Elsewhere
    BY <1>1, ElsewhereIsElsewhere, ElsewhereKeeps
  <1>2. ASSUME NEW y \in Years, Stage(y) PROVE IndexInv' /\ mergedIndex' = mergedIndex
    BY <1>2, StageKeeps DEF Stage, disk
  <1>3. ASSUME NEW y \in Years, ReplaceAnnual(y) PROVE IndexInv' /\ mergedIndex' = mergedIndex
    BY <1>3, ReplaceAnnualKeeps DEF ReplaceAnnual
  <1>4. CASE ReplaceSnapshot
    BY <1>4, ReplaceSnapshotKeeps
  <1>5. CASE Fail
    <2>1. served => mergedIndex' = mergedIndex
      BY <1>5 DEF Fail
    <2> QED  BY <1>5, <2>1, FailKeeps
  <1>6. CASE Restart
    BY <1>6, RestartKeeps DEF Restart
  <1>7. CASE UNCHANGED indexVars
    BY <1>7, ElsewhereKeeps DEF indexVars, disk, staging
  <1> QED  BY <1>1, <1>2, <1>3, <1>4, <1>5, <1>6, <1>7 DEF IndexNext, IndexStep, Elsewhere

----------------------------------------------------------------------------
(* The files and the session agree, wherever a refresh was cut off. *)
THEOREM Invariance == IndexSpec => []IndexInv
  <1>1. IndexInit => IndexInv  BY InitIndexInv
  <1>2. IndexInv /\ [IndexNext]_indexVars => IndexInv'  BY IndexNextKeeps
  <1> QED  BY <1>1, <1>2, PTL DEF IndexSpec

(* Playback never reads an annual index that was not found within its      *)
(* listed WARCs: no interrupted replacement, restart or fallback serves    *)
(* one that was not checked.                                               *)
THEOREM CheckedForever == IndexSpec => []Checked
  <1>1. IndexInv => Checked
    BY DEF IndexInv, FoundInv, Found, Checked, Present
  <1>2. IndexSpec => []IndexInv  BY Invariance
  <1> QED  BY <1>1, <1>2, PTL

(* A session never loses a year it has served (remote.py:117). *)
THEOREM YearsAreKept == IndexSpec => Kept
  <1>1. IndexInv /\ [IndexNext]_indexVars
            => [served /\ served' => Present(mergedIndex) \subseteq Present(mergedIndex')]_indexVars
    BY IndexNextKeeps
  <1>2. IndexSpec => []IndexInv  BY Invariance
  <1> QED  BY <1>1, <1>2, PTL DEF IndexSpec, Kept
============================================================================
