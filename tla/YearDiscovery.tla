---------------------------- MODULE YearDiscovery ----------------------------
(***************************************************************************)
(* Discovery of one calendar year at the Wayback Machine                   *)
(* (pipeline/discovery/load_or_fetch_year_cdx.py, checkpoints.py) over     *)
(* many runs, any of which may stop at any step.                           *)
(*                                                                         *)
(* A year is the days 1..Year, a window a pair of its first and last day,  *)
(* a listing the days whose captures it holds.  `acquire' recurses over    *)
(* windows, first to last; `todo' is its stack and `got' what it has       *)
(* collected.  A query runs in a thread of its own that passes the shared  *)
(* gate before every page, while the main thread waits for it with a       *)
(* timer; time passes only while both wait.                                *)
(***************************************************************************)
EXTENDS Integers, Sequences, FiniteSets

CONSTANTS
    Year,                            (* days of the year                     *)
    FirstSplits,                     (* settings of cdx_window_days in use   *)
    Floor,                           (* CDX_SPLIT_FLOOR_DAYS                 *)
    Budget,                          (* DEFAULT_CDX_TIMEOUT_SECONDS, in ticks *)
    RateAttempts, TransientAttempts, (* attempts per window                  *)
    MaxStops,                        (* bound: interrupted runs              *)
    Absent

ASSUME YearAssumption ==
    /\ {Year, Floor, Budget, RateAttempts, TransientAttempts} \subseteq Nat \ {0}
    /\ FirstSplits \subseteq Nat \ {0} /\ FirstSplits # {} /\ MaxStops \in Nat
    /\ Absent \notin Seq(1..Year)

Windows == {w \in (1..Year) \X (1..Year) : w[1] <= w[2]}
Whole == <<1, Year>>
Width(w) == w[2] - w[1] + 1
DaysOf(w) == [i \in 1..Width(w) |-> w[1] + i - 1]

(* What a query may come to: a listing, backpressure (429, refused, 504 or *)
(* a read timeout), another retryable failure, a failure for good.         *)
Replies == {"listing", "limited", "transient", "permanent"}

VARIABLES
    ended,                            \* the year is over: its last day has captures too
    cache, listing, split,            \* disk: the annual cache; per window, its captures or its split
    pc, historical, first, todo, got, \* a run
    closing,                          \* what is left to do once the cache is there
    query, attempt, limited,          \* the query's thread; attempts at this window, a rate limit among them
    left, worked,                     \* ticks until the timer fires; ticks the thread spent outside the gate
    stops, kept, told                 \* history: interruptions; windows settled on disk; the cache announced

disk == <<cache, listing, split>>
run == <<historical, first, todo, got, closing>>
asking == <<query, attempt, limited, left, worked>>
history == <<stops, kept, told>>
vars == <<ended, disk, pc, run, asking, history>>

(* The days of a window that have captures by now. *)
Held(w) == IF ended \/ w[2] < Year THEN DaysOf(w) ELSE DaysOf(<<w[1], w[2] - 1>>)

Init ==
    /\ ended \in BOOLEAN
    /\ cache = Absent
    /\ listing = [w \in Windows |-> Absent] /\ split = [w \in Windows |-> 0]
    /\ pc = "idle" /\ historical = FALSE /\ first \in FirstSplits
    /\ todo = <<>> /\ got = <<>> /\ closing = <<>>
    /\ query = "none" /\ attempt = 0 /\ limited = FALSE /\ left = 0 /\ worked = 0
    /\ stops = 0 /\ kept = {} /\ told = Absent

(* The current UTC year becomes a past one, between runs or during one. *)
NewYear ==
    /\ ~ended /\ ended' = TRUE
    /\ UNCHANGED <<disk, pc, run, asking, history>>

----------------------------------------------------------------------------
(***************************************************************************)
(* Windows                                                                 *)
(***************************************************************************)
(* Broken variant: every slice begins on the day the last one ended. *)
TouchingSlices(w, days) ==
    [i \in 1 .. ((Width(w) + days - 1) \div days) |->
        <<IF i = 1 THEN w[1] ELSE w[1] + (i - 1) * days - 1,
          IF w[1] + i * days - 1 < w[2] THEN w[1] + i * days - 1 ELSE w[2]>>]

(* _date_windows: slices of so many days, the last one perhaps shorter. *)
Slices(w, days) ==
    [i \in 1 .. ((Width(w) + days - 1) \div days) |->
        <<w[1] + (i - 1) * days,
          IF w[1] + i * days - 1 < w[2] THEN w[1] + i * days - 1 ELSE w[2]>>]

(* Broken variant: a window as wide as the split is split again. *)
SplitAgain(w) == IF Width(w) >= first THEN first ELSE IF Width(w) > Floor THEN Floor ELSE 0

(* _next_split_days; 0 is None. *)
NextSplit(w) == IF Width(w) > first THEN first ELSE IF Width(w) > Floor THEN Floor ELSE 0

----------------------------------------------------------------------------
(***************************************************************************)
(* One run                                                                 *)
(***************************************************************************)
(* The current year is read once, when the run starts; the setting may     *)
(* have changed since the last run.                                        *)
Start ==
    /\ pc = "idle" /\ pc' = "load"
    /\ historical' = ended /\ first' \in FirstSplits
    /\ todo' = <<Whole>> /\ got' = <<>> /\ closing' = <<>>
    /\ UNCHANGED <<ended, disk, asking, history>>

UseCache ==
    /\ pc = "load" /\ historical /\ cache # Absent
    /\ pc' = "close" /\ closing' = <<"tell", "clear">>
    /\ UNCHANGED <<ended, disk, historical, first, todo, got, asking, history>>

NoCache ==
    /\ pc = "load" /\ ~(historical /\ cache # Absent)
    /\ pc' = "walk"
    /\ UNCHANGED <<ended, disk, run, asking, history>>

w == Head(todo)
Walking == pc = "walk" /\ todo # <<>>
Listed == historical /\ listing[w] # Absent
Planned == historical /\ split[w] # 0

ReuseListing ==
    /\ Walking /\ Listed
    /\ got' = got \o listing[w] /\ todo' = Tail(todo)
    /\ UNCHANGED <<ended, disk, pc, historical, first, closing, asking, history>>

(* A saved split that is not narrower than its window would fail every     *)
(* run; none is ever saved, which YearCompletes depends on.                *)
FollowPlan ==
    /\ Walking /\ ~Listed /\ Planned
    /\ split[w] < Width(w)
    /\ todo' = Slices(w, split[w]) \o Tail(todo)
    /\ UNCHANGED <<ended, disk, pc, historical, first, got, closing, asking, history>>

(* A new attempt: client, thread, timer. *)
Submit(n) ==
    /\ query' = "gate" /\ attempt' = n /\ left' = Budget /\ worked' = 0

Ask ==
    /\ Walking /\ ~Listed /\ ~Planned
    /\ pc' = "wait" /\ Submit(1) /\ limited' = FALSE
    /\ UNCHANGED <<ended, disk, run, history>>

(* RequestStats.start: the gate, then the send; once more for every page. *)
PassGate ==
    /\ query = "gate" /\ query' = "sent"
    /\ UNCHANGED <<ended, disk, pc, run, attempt, limited, left, worked, history>>

NextPage ==
    /\ query = "sent" /\ query' = "gate"
    /\ UNCHANGED <<ended, disk, pc, run, attempt, limited, left, worked, history>>

Reply(r) ==
    /\ query = "sent" /\ query' = r
    /\ UNCHANGED <<ended, disk, pc, run, attempt, limited, left, worked, history>>

Running == query \in {"gate", "sent"}

Tick ==
    /\ pc = "wait" /\ Running /\ left > 0
    /\ left' = left - 1
    /\ worked' = IF query = "sent" THEN worked + 1 ELSE worked
    /\ UNCHANGED <<ended, disk, pc, run, query, attempt, limited, history>>

NoQuery == query' = "none" /\ attempt' = 0 /\ limited' = FALSE /\ left' = 0 /\ worked' = 0

(* The window is settled in memory and, of a past year, on disk. *)
Settle == kept' = IF historical THEN kept \cup {w} ELSE kept

Answered ==
    /\ pc = "wait" /\ query = "listing"
    /\ got' = got \o Held(w)
    /\ listing' = IF historical THEN [listing EXCEPT ![w] = Held(w)] ELSE listing
    /\ pc' = "walk" /\ todo' = Tail(todo) /\ NoQuery /\ Settle
    /\ UNCHANGED <<ended, cache, split, historical, first, closing, stops, told>>

Forget == historical' = FALSE /\ todo' = <<>> /\ got' = <<>> /\ closing' = <<>>

(* After a failure of this kind: once a rate limit was seen at this window *)
(* every failure counts as one.                                            *)
Retries(kind) ==
    LET seen == limited \/ kind = "limited" IN
    /\ kind # "permanent"
    /\ attempt < IF seen THEN RateAttempts ELSE TransientAttempts

TryAgain(kind) ==
    /\ Retries(kind)
    /\ limited' = (limited \/ kind = "limited")
    /\ pc' = "wait" /\ Submit(attempt + 1)
    /\ UNCHANGED <<ended, disk, run, history>>

FailYear ==
    /\ pc' = "idle" /\ NoQuery /\ Forget
    /\ UNCHANGED <<ended, disk, first, history>>

Retry == /\ pc = "wait" /\ query \in Replies \ {"listing"} /\ TryAgain(query)
Exhausted == /\ pc = "wait" /\ query \in Replies \ {"listing"} /\ ~Retries(query) /\ FailYear

(* The timer of future.result fires. *)
TimerFires ==
    /\ pc = "wait" /\ left = 0 /\ Running /\ pc' = "fired"
    /\ UNCHANGED <<ended, disk, run, asking, history>>

(* The query ended between the timer and future.done(): the bare timeout   *)
(* is raised, which counts as backpressure whatever the query came to.     *)
LateRetry == /\ pc = "fired" /\ ~Running /\ TryAgain("limited")
LateExhausted == /\ pc = "fired" /\ ~Running /\ ~Retries("limited") /\ FailYear

(* Broken variant: the timer starts over. *)
WaitAfresh ==
    /\ pc = "fired" /\ Running /\ worked < Budget
    /\ pc' = "wait" /\ left' = Budget
    /\ UNCHANGED <<ended, disk, run, query, attempt, limited, worked, history>>

(* Time spent in the gate is added to the deadline. *)
WaitOn ==
    /\ pc = "fired" /\ Running /\ worked < Budget
    /\ pc' = "wait" /\ left' = Budget - worked
    /\ UNCHANGED <<ended, disk, run, query, attempt, limited, worked, history>>

Expired == pc = "fired" /\ Running /\ worked >= Budget

(* Broken variant: the plan stays in memory. *)
SplitInMemory ==
    /\ Expired /\ NextSplit(w) # 0
    /\ pc' = "walk" /\ NoQuery /\ Settle
    /\ todo' = Slices(w, NextSplit(w)) \o Tail(todo)
    /\ UNCHANGED <<ended, disk, historical, first, got, closing, stops, told>>

(* The wall clock ran out: the plan is saved, then followed. *)
Split ==
    /\ Expired /\ NextSplit(w) # 0
    /\ pc' = "walk" /\ NoQuery /\ Settle
    /\ todo' = Slices(w, NextSplit(w)) \o Tail(todo)
    /\ split' = IF historical THEN [split EXCEPT ![w] = NextSplit(w)] ELSE split
    /\ UNCHANGED <<ended, cache, listing, historical, first, got, closing, stops, told>>

TooSlow == Expired /\ NextSplit(w) = 0 /\ FailYear

Install ==
    /\ pc = "walk" /\ todo = <<>> /\ historical
    /\ cache' = got
    /\ pc' = "close" /\ closing' = <<"clear", "tell">>
    /\ UNCHANGED <<ended, listing, split, historical, first, todo, got, asking, history>>

(* The current year's listing stays in memory. *)
Deliver ==
    /\ pc = "walk" /\ todo = <<>> /\ ~historical
    /\ pc' = "idle" /\ Forget
    /\ UNCHANGED <<ended, disk, first, asking, history>>

Closing(step) == pc = "close" /\ closing # <<>> /\ Head(closing) = step

(* clear_progress: rmtree removes the window files one by one. *)
RemoveWindow ==
    /\ Closing("clear")
    /\ \E v \in Windows :
        /\ listing[v] # Absent \/ split[v] # 0
        /\ listing' = [listing EXCEPT ![v] = Absent] /\ split' = [split EXCEPT ![v] = 0]
    /\ UNCHANGED <<ended, cache, pc, run, asking, history>>

Cleared ==
    /\ Closing("clear") /\ \A v \in Windows : listing[v] = Absent /\ split[v] = 0
    /\ closing' = Tail(closing)
    /\ UNCHANGED <<ended, disk, pc, historical, first, todo, got, asking, history>>

(* on_cache_complete. *)
Tell ==
    /\ Closing("tell") /\ closing' = Tail(closing)
    /\ told' = cache
    /\ UNCHANGED <<ended, disk, pc, historical, first, todo, got, asking, stops, kept>>

Done ==
    /\ pc = "close" /\ closing = <<>>
    /\ pc' = "idle" /\ Forget
    /\ UNCHANGED <<ended, disk, first, asking, history>>

(* A kill or Ctrl-C. *)
Stop ==
    /\ pc # "idle" /\ pc' = "idle" /\ NoQuery /\ Forget
    /\ stops < MaxStops /\ stops' = stops + 1
    /\ UNCHANGED <<ended, disk, first, kept, told>>

(***************************************************************************)
(* Specification                                                           *)
(***************************************************************************)
Query == PassGate \/ NextPage \/ Tick \/ (\E r \in Replies : Reply(r))

Run ==
    \/ Start \/ UseCache \/ NoCache \/ ReuseListing \/ FollowPlan \/ Ask \/ Answered
    \/ Retry \/ Exhausted \/ TimerFires \/ LateRetry \/ LateExhausted \/ WaitOn \/ Split \/ TooSlow
    \/ Install \/ Deliver \/ RemoveWindow \/ Cleared \/ Tell \/ Done

Next == Run \/ Query \/ Stop \/ NewYear

Spec == Init /\ [][Next]_vars

(* Runs go on and are started again, the year ends, and the gate and the   *)
(* service get to a query that waits for them, or is asked again and       *)
(* again, some day before its timer fires.                                 *)
PassedInTime == pc = "wait" /\ PassGate
AnsweredInTime == pc = "wait" /\ Reply("listing")

FairSpec ==
    /\ Spec /\ WF_vars(Run) /\ WF_vars(NewYear)
    /\ SF_vars(PassedInTime) /\ SF_vars(AnsweredInTime)

----------------------------------------------------------------------------
(***************************************************************************)
(* Properties                                                              *)
(***************************************************************************)

(* The annual cache, on disk or announced, holds every day of the year     *)
(* exactly once and in order, whatever windows it was assembled from, over *)
(* however many runs and settings; a year that is not over is never        *)
(* cached.  (load_or_fetch_year_cdx l.100, l.184-199; _date_windows)       *)
WholeYear == \A c \in {cache, told} : c \in {Absent, DaysOf(Whole)}

(* ARCHITECTURE-FETCH.md:169 "A restart follows the saved plan, avoiding   *)
(* the failed annual query and completed windows": no run asks for a       *)
(* window of a past year that an earlier one has answered or split.        *)
AskedOnce == pc \in {"wait", "fired"} /\ historical => w \notin kept

(* The wall-clock budget "excluding shared-gate waits" (l.346): a window   *)
(* is given up for its slowness only after its query had the whole budget  *)
(* outside the gate, and no query has more.                                *)
BudgetHonest ==
    [][ /\ pc = "fired" /\ Running /\ pc' \in {"walk", "idle"} /\ UNCHANGED stops => worked = Budget
        /\ worked' <= Budget ]_vars

(* The year is cached whole and announced in the end, wherever runs were   *)
(* stopped and whichever windows were too slow: splits get narrower until  *)
(* they are answered, and nothing a run leaves makes a later one fail.     *)
YearCompletes == <>[](cache = DaysOf(Whole) /\ told = cache)
============================================================================
