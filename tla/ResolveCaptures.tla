--------------------------- MODULE ResolveCaptures ---------------------------
(***************************************************************************)
(* From a year's listing to the records of its shards: which captures are  *)
(* taken, which of them are stored as responses, which as revisits of an   *)
(* earlier one, which are reported as failed (discover_captures.py,        *)
(* resolve_captures.py, write_captures.py, inventory_collection.py), over  *)
(* many runs that may stop anywhere.                                       *)
(*                                                                         *)
(* URL groups are resolved by workers in parallel, each against what the   *)
(* inventory held when the run started and what its own group has          *)
(* downloaded since; one writer appends the results in the order of the    *)
(* groups.  What a download gives is Decoding's; scheduling is             *)
(* CaptureBatch's, durability WarcStage's, attempts StartGate's.           *)
(***************************************************************************)
EXTENDS Decoding

CONSTANTS
    Lists,          (* identities a source lists: urlkey, url, time, digest, status *)
    Plans,          (* what runs are asked for: a source, the start of a date range *)
    MaxRuns,        (* bound: runs                                                  *)
    None

Captures == UNION {Lists[s] : s \in Sources}

ASSUME ResolveAssumption ==
    /\ DOMAIN Lists = Sources /\ \A s \in Sources : IsFiniteSet(Lists[s])
    /\ Captures \subseteq [urlkey : Nat, url : Urls, time : Times, digest : Bodies \cup {Missing},
                            status : Statuses \cup {Unknown}]
    /\ Urls \subseteq Nat /\ Unknown \in Nat
    /\ Plans \subseteq [source : Sources, from : Nat] /\ MaxRuns \in Nat /\ None \notin Captures

VARIABLES
    archive,                     \* the year's records, in shard order
    pc, runs, unfinished, plan,  \* the run; whether an earlier one left its stage open; its plan
    selected, existing, known,   \* its captures; the inventory at its start; successful_downloads
    outcomes, taken, writing,    \* per group, the outcomes; groups the writer took; outcomes it still holds
    failures, metrics            \* what the run reports

process == <<selected, existing, known, outcomes, taken, writing, failures, metrics>>
vars == <<archive, pc, runs, unfinished, plan, process>>

(***************************************************************************)
(* Identities, listings and the inventory                                  *)
(***************************************************************************)
(* CaptureIdentity.sort_key: the time, then the other fields.  The last is *)
(* the digest, which has no order here: what differs in it only comes in   *)
(* any order.                                                              *)
Before(a, b) ==
    \/ a.time < b.time
    \/ a.time = b.time /\ a.urlkey < b.urlkey
    \/ a.time = b.time /\ a.urlkey = b.urlkey /\ a.url < b.url
    \/ a.time = b.time /\ a.urlkey = b.urlkey /\ a.url = b.url /\ a.status < b.status

First(captures) == {c \in captures : \A d \in captures : ~Before(d, c)}

(* discover_captures: the range, each identity once.  The order it puts    *)
(* them in is the one in which First takes them.                           *)
Discover(p) == {c \in Lists[p.source] : c.time >= p.from}

(* revisit_group_key: the payload's digest identifies it, but empty        *)
(* payloads of different status stay apart, and a missing digest groups    *)
(* with nothing.                                                           *)
Key(c) == IF c.digest = Missing THEN None
          ELSE <<c.urlkey, c.digest, IF c.digest = <<>> THEN c.status ELSE 0>>
Keys == {Key(c) : c \in Captures} \ {None}

(* Broken variant: captures are grouped by the URL as it was written. *)
GroupByUrl(c) == c.url
GroupOf(c) == c.urlkey

(* What inventory_collection reads back from the index: every capture, and *)
(* for each key the oldest response whose digest is exactly the listed one. *)
Stored(records) == {records[i].capture : i \in DOMAIN records}
Exact(records, key) ==
    {c \in Stored(records) : Key(c) = key /\ \E i \in DOMAIN records : records[i].capture = c /\ records[i].kind = "exact"}
Oldest(captures) ==
    IF captures = {} THEN None ELSE CHOOSE c \in First(captures) : TRUE
Representatives(records) == [key \in Keys |-> Oldest(Exact(records, key))]

Zero == [local_reuses |-> 0, downloads |-> 0, revisits |-> 0, represented |-> 0]

Init ==
    /\ archive = <<>> /\ pc = "idle" /\ runs = 0 /\ unfinished = FALSE /\ plan \in Plans
    /\ selected = {} /\ existing = {} /\ known = Representatives(<<>>)
    /\ outcomes = <<>> /\ taken = {} /\ writing = <<>> /\ failures = {} /\ metrics = Zero

----------------------------------------------------------------------------
(***************************************************************************)
(* One run                                                                 *)
(***************************************************************************)
(* An unfinished stage only accepts the source and range it was opened with. *)
Start ==
    /\ pc = "idle" /\ runs < MaxRuns /\ runs' = runs + 1
    /\ plan' \in (IF unfinished THEN {plan} ELSE Plans)
    /\ selected' = Discover(plan')
    /\ existing' = Stored(archive) /\ known' = Representatives(archive)
    /\ outcomes' = [g \in {GroupOf(c) : c \in selected'} |-> <<>>]
    /\ taken' = {} /\ writing' = <<>> /\ failures' = {} /\ metrics' = Zero
    /\ pc' = "run" /\ unfinished' = TRUE
    /\ UNCHANGED archive

(* A worker walks its group in order: what is left of it, what comes next. *)
Left(g) == {c \in selected : GroupOf(c) = g /\ c \notin Stored(outcomes[g])}
Turn(g) == First(Left(g))

Resolved(g, c, kind, of, result) ==
    /\ pc = "run"
    /\ outcomes' = [outcomes EXCEPT ![g] =
          Append(@, [capture |-> c, kind |-> kind, of |-> of, result |-> result,
                       source |-> plan.source, run |-> runs])]
    /\ UNCHANGED <<archive, pc, runs, unfinished, plan, selected, existing, taken, writing, failures, metrics>>

Representative(c) == IF Key(c) = None THEN None ELSE known[Key(c)]

(* Broken variant: a payload is known whenever it was captured. *)
KnownAnyTime(c) == Representative(c) # None

Usable(c) == Representative(c) # None /\ Representative(c).time <= c.time

Reuse(g) ==
    \E c \in Turn(g) : c \in existing /\ Resolved(g, c, "existing", None, None) /\ UNCHANGED known

Revisit(g) ==
    \E c \in Turn(g) :
        /\ c \notin existing /\ Usable(c)
        /\ Resolved(g, c, "revisit", Representative(c), None) /\ UNCHANGED known

ToDownload(g) == {c \in Turn(g) : c \notin existing /\ ~Usable(c)}

DownloadFails(g) ==
    \E c \in ToDownload(g) : Resolved(g, c, "failure", None, None) /\ UNCHANGED known

Results == [s \in Sources |-> [c \in Captures |-> Acquired(s, c)]]

(* A body that does not match the listing does not stand for its payload;  *)
(* one that does replaces a representative that was too recent.            *)
Download(g) ==
    \E c \in ToDownload(g) : \E result \in Results[plan.source][c] :
        /\ Resolved(g, c, result.kind, None, result)
        /\ known' = IF result.kind # "other" /\ Key(c) # None THEN [known EXCEPT ![Key(c)] = c] ELSE known

(* The writer takes the groups in the order of their first captures, each  *)
(* when it is finished.                                                    *)
TakeGroup ==
    /\ pc = "run" /\ writing = <<>>
    /\ \E c \in First({d \in selected : GroupOf(d) \notin taken}) :
          Left(GroupOf(c)) = {} /\ writing' = outcomes[GroupOf(c)] /\ taken' = taken \cup {GroupOf(c)}
    /\ UNCHANGED <<archive, pc, runs, unfinished, plan, selected, existing, known, outcomes, failures, metrics>>

(* Broken variant: what is neither new nor failed is not counted. *)
CountNew(kind) ==
    CASE kind = "revisit" -> [metrics EXCEPT !.revisits = @ + 1, !.represented = @ + 1]
      [] kind \in {"exact", "soft", "other"} -> [metrics EXCEPT !.downloads = @ + 1, !.represented = @ + 1]
      [] OTHER -> metrics

Count(kind) ==
    CASE kind = "existing" -> [metrics EXCEPT !.local_reuses = @ + 1, !.represented = @ + 1]
      [] kind = "revisit" -> [metrics EXCEPT !.revisits = @ + 1, !.represented = @ + 1]
      [] kind = "failure" -> metrics
      [] OTHER -> [metrics EXCEPT !.downloads = @ + 1, !.represented = @ + 1]

Commit ==
    /\ pc = "run" /\ writing # <<>> /\ writing' = Tail(writing)
    /\ LET o == Head(writing) IN
       /\ archive' = IF o.kind \in {"existing", "failure"} THEN archive ELSE Append(archive, o)
       /\ failures' = IF o.kind = "failure" THEN failures \cup {o.capture} ELSE failures
       /\ metrics' = Count(o.kind)
    /\ UNCHANGED <<pc, runs, unfinished, plan, selected, existing, known, outcomes, taken>>

(* The year is committed and reported. *)
Finish ==
    /\ pc = "run" /\ writing = <<>> /\ \A c \in selected : GroupOf(c) \in taken
    /\ pc' = "done" /\ unfinished' = FALSE
    /\ UNCHANGED <<archive, runs, plan, process>>

Forget ==
    /\ selected' = {} /\ existing' = {} /\ known' = Representatives(<<>>)
    /\ outcomes' = <<>> /\ taken' = {} /\ writing' = <<>> /\ failures' = {} /\ metrics' = Zero

Leave ==
    /\ pc = "done" /\ pc' = "idle" /\ Forget
    /\ UNCHANGED <<archive, runs, unfinished, plan>>

(* A kill, Ctrl-C or an error: the stage stays, with what was appended. *)
Stop ==
    /\ pc = "run" /\ pc' = "idle" /\ Forget
    /\ UNCHANGED <<archive, runs, unfinished, plan>>

Next ==
    \/ Start \/ TakeGroup \/ Commit \/ Finish \/ Leave \/ Stop
    \/ \E g \in DOMAIN outcomes : Reuse(g) \/ Revisit(g) \/ DownloadFails(g) \/ Download(g)

Spec == Init /\ [][Next]_vars

----------------------------------------------------------------------------
(***************************************************************************)
(* Properties                                                              *)
(***************************************************************************)

(* What a response stored for a capture must be. *)
Listed(o) ==
    LET c == o.capture  r == o.result IN
    /\ r.resource = Unquoted[c.url] /\ r.date = c.time /\ c.status \in {Unknown, r.status}
    /\ r.repaired => r.body = c.digest
    /\ o.source = "wayback" =>
        /\ r.body # Stub
        /\ r.body = <<>> => r.status \in Redirects \/ c.digest \in {Missing, <<>>}

(* ARCHITECTURE-FETCH.md:217 "Exact playback does not follow Wayback's     *)
(* nearby-capture substitutions": a stored response was recorded of the    *)
(* resource, at the time and with the status of the capture it is stored   *)
(* for; what the Wayback Machine says in place of a lost payload is not     *)
(* stored; and a repaired record is stored only with the listed payload.   *)
AsListed == \A i \in DOMAIN archive : archive[i].kind # "revisit" => Listed(archive[i])

(* ARCHITECTURE-FETCH.md:220 "Revisits refer only to earlier successful    *)
(* responses in the same year": each revisit names a capture of its own    *)
(* key, not after it, whose full response stands before it in the archive; *)
(* and the body replayed for it has the digest the revisit was listed      *)
(* with, if need be with the newline of early indexes.                     *)
RevisitsResolve ==
    \A j \in DOMAIN archive : archive[j].kind = "revisit" =>
        \E i \in 1 .. j - 1 :
            /\ archive[i].capture = archive[j].of /\ archive[i].kind # "revisit"
            /\ archive[j].capture.digest \in {archive[i].result.body, archive[i].result.body \o <<"n">>}
            /\ Key(archive[i].capture) = Key(archive[j].capture)
            /\ archive[i].capture.time <= archive[j].capture.time

(* No payload is stored twice: a capture of a payload the archive holds at *)
(* or before its time becomes a revisit, however runs were stopped and     *)
(* ranges chosen.  A body that matched only but for a newline counts       *)
(* within its run: test_write_captures.py:115 says it does not seed later  *)
(* ones.                                                                   *)
OneCopy ==
    \A i \in DOMAIN archive, j \in DOMAIN archive :
        /\ i < j /\ Key(archive[i].capture) = Key(archive[j].capture) /\ Key(archive[i].capture) # None
        /\ \/ archive[i].kind = "exact"
           \/ archive[i].kind = "soft" /\ archive[i].run = archive[j].run
        /\ archive[i].capture.time <= archive[j].capture.time
        => archive[j].kind = "revisit"

(* A finished run accounts for every selected capture exactly once: it is  *)
(* in the archive, in one record, or among the failures, and the counts of *)
(* the report add up to the selection.                                     *)
Accounted ==
    pc = "done" =>
        /\ \A c \in selected : (c \in Stored(archive)) = (c \notin failures)
        /\ Cardinality(Stored(archive)) = Len(archive)
        /\ metrics.represented + Cardinality(failures) = Cardinality(selected)
        /\ metrics.represented = metrics.local_reuses + metrics.revisits + metrics.downloads
============================================================================
