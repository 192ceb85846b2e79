------------------------------ MODULE Navigator ------------------------------
(***************************************************************************)
(* The Navigator process (cli.py main, process.py run_wayback) around the  *)
(* catalog: startup refresh, catalog thread, the replay process it starts, *)
(* watches and stops, and the temporary directory both of them use.        *)
(* Ctrl-C and SIGTERM may come at any step.                                *)
(***************************************************************************)
EXTENDS Catalog

CONSTANTS
    MaxRuns,       (* bound: starts of Navigator        *)
    MaxSignals     (* bound: signals, over all its runs *)

ASSUME NavigatorAssumption == MaxRuns \in Nat /\ MaxSignals \in Nat

VARIABLES
    pc, runs,              \* the main thread
    child,                 \* the replay process: none, starting, ready, term(inating), dead
    runtime,               \* the temporary directory exists
    polling,               \* the catalog thread was started and not told to stop
    signals, asked, exposed \* signals so far; one came in this run; one came where nothing guards

main == <<pc, runs, child, runtime, polling>>
history == <<signals, asked, exposed>>
vars == <<catalogVars, main, history>>

Running == child \in {"starting", "ready", "term"}

Init ==
    /\ CatalogInit
    /\ pc = "gone" /\ runs = 0 /\ child = "none" /\ runtime = FALSE /\ polling = FALSE
    /\ signals = 0 /\ asked = FALSE /\ exposed = FALSE

(* A new process, which knows nothing but the cache directory of an older  *)
(* one.  A replay process left behind is in a session of its own and goes  *)
(* on; child is this run's, to which the other can only deny the port      *)
(* (ChildExits, NotReady).                                                 *)
Launch ==
    /\ pc = "gone" /\ runs < MaxRuns /\ runs' = runs + 1
    /\ pc' = "startup" /\ child' = "none" /\ runtime' = TRUE
    /\ asked' = FALSE /\ exposed' = FALSE /\ UNCHANGED signals
    /\ phase' = "metadata" /\ startup' = TRUE
    /\ UNCHANGED <<bucket, cache, at, errors, entries, published, adopted, polling>>

Goes(from, to) ==
    /\ pc = from /\ pc' = to
    /\ UNCHANGED <<catalogVars, runs, runtime, polling, history>>

(* The catalog thread is started before the try statement is entered.      *)
StartupDone ==
    /\ pc = "startup" /\ phase = "sleep" /\ pc' = "started" /\ polling' = TRUE
    /\ UNCHANGED <<catalogVars, runs, child, runtime, history>>
EnterTry == Goes("started", "spawn") /\ UNCHANGED child
StartupFails == phase = "fatal" /\ Goes("startup", "cleanup") /\ UNCHANGED child

Spawn == Goes("spawn", "spawned") /\ child' = "starting"
CannotSpawn == Goes("spawn", "join") /\ UNCHANGED child
InstallHandler == Goes("spawned", "waiting") /\ UNCHANGED child

(* The replay process on its own. *)
ChildStep(from, to) ==
    /\ child = from /\ child' = to
    /\ UNCHANGED <<catalogVars, pc, runs, runtime, polling, history>>
ChildReady == catalogStamp # 0 /\ ChildStep("starting", "ready")
ChildDies ==
    /\ child' = "dead" /\ ReplayForgets
    /\ UNCHANGED <<bucket, cache, refresh, entries, published, pc, runs, runtime, polling, history>>
ChildExits == Running /\ ChildDies

(* _wait_until_ready, on_ready, process.wait *)
Ready == child = "ready" /\ Goes("waiting", "serving") /\ UNCHANGED child
CallbackFails == child = "ready" /\ Goes("waiting", "finally") /\ UNCHANGED child
NotReady == child = "starting" /\ Goes("waiting", "expired") /\ UNCHANGED child
ExitSeen == child = "dead" /\ \E from \in {"waiting", "serving"} : Goes(from, "finally") /\ UNCHANGED child

(* _shutdown: after the time to get ready, in the handler, and in the      *)
(* finally block if still needed.                                          *)
Shutting == pc \in {"expired", "stopping", "finally"}
Terminate == Shutting /\ \E from \in {"starting", "ready"} : ChildStep(from, "term")

(* Broken variant: the child is only asked to stop. *)
NeverKill == FALSE /\ ChildDies
Kill == Shutting /\ child = "term" /\ ChildDies
Stopped == child = "dead" /\ \E from \in {"expired", "stopping"} : Goes(from, "finally") /\ UNCHANGED child

(* Broken variant: the finally block does not look at the child. *)
LeaveAnyway == Goes("finally", "join") /\ UNCHANGED child
Leave == child = "dead" /\ Goes("finally", "join") /\ UNCHANGED child

(* stop_polling tells the catalog thread, which ends after the refresh it  *)
(* is at, and waits for it, but not for ever; a thread that is left behind *)
(* may still publish.                                                      *)
StopPolling ==
    /\ pc = "join" /\ polling /\ polling' = FALSE
    /\ UNCHANGED <<catalogVars, pc, runs, child, runtime, history>>
Joined ==
    /\ pc = "join" /\ ~polling /\ phase = "sleep" /\ pc' = "cleanup" /\ phase' = "off"
    /\ UNCHANGED <<bucket, cache, at, startup, errors, entries, published, adopted>>
    /\ UNCHANGED <<runs, child, runtime, polling, history>>
JoinTimesOut ==
    /\ pc = "join" /\ ~polling /\ phase # "sleep" /\ pc' = "cleanup" /\ exposed' = TRUE
    /\ UNCHANGED <<catalogVars, runs, child, runtime, polling, signals, asked>>
Cleanup ==
    /\ pc = "cleanup" /\ pc' = "exit" /\ runtime' = FALSE
    /\ UNCHANGED <<catalogVars, runs, child, polling, history>>

Vanish ==
    /\ pc' = "gone" /\ polling' = FALSE /\ NavigatorForgets
    /\ UNCHANGED <<bucket, cache, runs, child, runtime>>
Exit == pc = "exit" /\ Vanish /\ UNCHANGED history

(***************************************************************************)
(* Signals                                                                 *)
(***************************************************************************)
Asked(unguarded) ==
    /\ signals < MaxSignals /\ signals' = signals + 1
    /\ asked' = TRUE /\ exposed' = (exposed \/ unguarded)

(* An exception in the main thread, where it is. *)
Raised ==
    CASE pc \in {"startup", "started"} -> "cleanup"
      [] pc \in {"spawn", "spawned", "finally"} -> "join"
      [] pc \in {"waiting", "serving", "expired"} -> "stopping"
      [] pc = "stopping" -> "finally"
      [] pc = "join" -> "cleanup"
      [] pc \in {"cleanup", "exit"} -> "exit"

(* KeyboardInterrupt.  Between the start of the catalog thread, or Popen,  *)
(* and the try statement that follows, and in the finally blocks, nothing  *)
(* stops the thread or the child any more.                                 *)
CtrlC ==
    /\ pc # "gone" /\ pc' = Raised
    /\ Asked(pc \in {"started", "spawned", "finally", "join", "cleanup"})
    /\ UNCHANGED <<catalogVars, runs, child, runtime, polling>>

(* SIGTERM: an exception while the handler is installed. *)
Handled == {"waiting", "serving", "expired", "stopping"}
Terminated ==
    /\ pc \in Handled /\ pc' = Raised
    /\ Asked(FALSE)
    /\ UNCHANGED <<catalogVars, runs, child, runtime, polling>>

(* Without the handler the process is gone at once. *)
TerminatedBare ==
    /\ pc \notin Handled \cup {"gone"}
    /\ Asked(TRUE) /\ Vanish

(***************************************************************************)
(* Specification                                                           *)
(***************************************************************************)
(* The catalog thread until it is told to stop, or the startup refresh in  *)
(* the main thread.                                                        *)
Polls ==
    /\ pc # "gone" /\ (startup => pc = "startup") /\ (phase = "sleep" => polling)
RefreshStep == Polls /\ Refresh /\ UNCHANGED <<main, history>>
PublishStep == Polls /\ Publish /\ runtime' = TRUE /\ UNCHANGED <<pc, runs, child, polling, history>>
PublishFailsStep == Polls /\ PublishFails /\ UNCHANGED <<main, history>>

(* The replay process looks for a new catalog when it starts, where it     *)
(* exits if it cannot adopt it, and on every request, where it goes on.    *)
StatStep == child \in {"starting", "ready"} /\ runtime /\ Stat /\ UNCHANGED <<main, history>>
AdoptStep == child \in {"starting", "ready"} /\ Adopt /\ UNCHANGED <<main, history>>
AdoptFailsStep == child = "ready" /\ AdoptFails /\ UNCHANGED <<main, history>>
ChangeStep == Change /\ UNCHANGED <<main, history>>

Main ==
    \/ StartupDone \/ EnterTry \/ StartupFails \/ Spawn \/ CannotSpawn \/ InstallHandler \/ Ready \/ CallbackFails
    \/ NotReady \/ ExitSeen \/ Terminate \/ Kill \/ Stopped \/ Leave \/ StopPolling \/ Joined
    \/ JoinTimesOut \/ Cleanup \/ Exit

Next ==
    \/ Launch \/ Main \/ ChildReady \/ ChildExits \/ CtrlC \/ Terminated \/ TerminatedBare
    \/ RefreshStep \/ PublishStep \/ PublishFailsStep
    \/ StatStep \/ AdoptStep \/ AdoptFailsStep \/ ChangeStep

Spec == Init /\ [][Next]_vars

(* The main and the catalog thread run on, requests come in; a publication *)
(* or an adoption that is tried again and again succeeds some day.         *)
Fairness ==
    /\ WF_vars(Main) /\ WF_vars(RefreshStep)
    /\ SF_vars(PublishStep) /\ WF_vars(StatStep) /\ SF_vars(AdoptStep)

FairSpec == Spec /\ Fairness

----------------------------------------------------------------------------
(***************************************************************************)
(* Properties                                                              *)
(***************************************************************************)

(* When Navigator has gone, the replay process has too and the temporary   *)
(* directory is removed, however it came to an end: unless Ctrl-C fell in  *)
(* a step nothing guards, SIGTERM where its handler is not installed, or   *)
(* the catalog thread could not be waited for.                             *)
(* (process.py l.190-220, cli.py l.102-128)                                *)
LeavesNothing == pc = "gone" /\ ~exposed => ~Running /\ ~runtime

(* Ctrl-C or SIGTERM ends Navigator, whatever the replay process and the   *)
(* catalog thread are doing.                                               *)
SignalStops == asked ~> (pc = "gone")

(* While Navigator goes on serving and buckets stay as they are, the       *)
(* replay process comes to show what they hold: each readable bucket whose *)
(* id its entry may have is ready and has a route, whatever failed or      *)
(* changed before.                                                         *)
Current(s) ==
    live[s] \in Ids /\ (\A t \in Sources \ {s} : meta[t] # live[s]) /\ meta[s] \in {None, live[s]}
CatalogCatchesUp ==
    <>[](pc = "serving" /\ child = "ready") =>
        <>[](/\ catalog = snapshot
             /\ \A s \in Sources : Current(s) => catalog.cards[s] = <<live[s], "ready">> /\ live[s] \in routes)
============================================================================
