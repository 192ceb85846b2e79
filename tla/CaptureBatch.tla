---------------------------- MODULE CaptureBatch ----------------------------
(***************************************************************************)
(* One annual batch (runtime/manage_capture_workers.py): the main thread   *)
(* submits URL groups to a pool, takes their results in order and writes   *)
(* them; a worker that fails stops the others through a shared event; the  *)
(* scope drains before it is left, by whatever way.                        *)
(*                                                                         *)
(* fut[g] is the future of group g: none, queued; starting and running on  *)
(* a worker; failing, recorded on its way to failed; done; raised          *)
(* (CancelledError); cancelled before it ran.                              *)
(***************************************************************************)
EXTENDS Naturals, Sequences, FiniteSets

CONSTANTS
    N,             (* bound: URL groups of the year                        *)
    Workers,       (* the pool's threads                                   *)
    InterruptAt,   (* steps of the main thread at which Ctrl-C may land    *)
    NoFailure, Idle

Groups == 1..N
MaxWorkers == Cardinality(Workers)
Steps == {"submit", "append", "wait", "write", "exit", "drain", "ended", "closed"}

ASSUME BatchAssumption ==
    /\ N \in Nat \ {0} /\ IsFiniteSet(Workers) /\ Workers # {}
    /\ InterruptAt \subseteq {"submit", "append", "wait", "write", "exit", "drain"}
    /\ NoFailure \notin Groups /\ Idle \notin Groups

VARIABLES
    fut, thread,         \* futures; what each worker thread runs
    clients,             \* threads whose client is open
    cancelled, failure,  \* the batch's event; the first failure recorded
    pending, next,       \* futures the batch owns; next group to submit
    written,             \* groups whose result the main thread took
    pc, outcome, blamed  \* the main thread; how the scope is left, and whose error it raises

pool == <<fut, thread, clients>>
batch == <<pending, next, written>>
main == <<pc, outcome, blamed>>
vars == <<pool, cancelled, failure, batch, main>>

Active == {"queued", "starting", "running", "failing", "recorded"}
Live == {g \in Groups : fut[g] \in Active}
Outcomes == {"open", "ok", "writer", "interrupt", "unowned", "undrained", "CancelledError", "error"}

Init ==
    /\ fut = [g \in Groups |-> "none"] /\ thread = [w \in Workers |-> Idle]
    /\ clients = {} /\ cancelled = FALSE /\ failure = NoFailure
    /\ pending = <<>> /\ next = 1 /\ written = <<>>
    /\ pc = "submit" /\ outcome = "open" /\ blamed = NoFailure

(***************************************************************************)
(* Worker threads: _process                                                *)
(***************************************************************************)
Becomes(g, state) == fut' = [fut EXCEPT ![g] = state]
Leaves(w) == thread' = [thread EXCEPT ![w] = Idle]

(* The executor's queue is first in, first out. *)
Begin(w, g) ==
    /\ thread[w] = Idle /\ fut[g] = "queued"
    /\ \A h \in Groups : h < g => fut[h] # "queued"
    /\ thread' = [thread EXCEPT ![w] = g] /\ Becomes(g, "starting")
    /\ UNCHANGED <<clients, cancelled, failure, batch, main>>

(* check_cancelled, then process(group). *)
Proceed(w, g) ==
    /\ thread[w] = g /\ fut[g] = "starting" /\ ~cancelled
    /\ Becomes(g, "running")
    /\ UNCHANGED <<thread, clients, cancelled, failure, batch, main>>

(* The first attempt of a thread opens its client, which the pool owns. *)
OpenClient(w) ==
    /\ w \notin clients /\ thread[w] # Idle /\ fut[thread[w]] = "running"
    /\ clients' = clients \cup {w}
    /\ UNCHANGED <<fut, thread, cancelled, failure, batch, main>>

Succeed(w, g) ==
    /\ thread[w] = g /\ fut[g] = "running"
    /\ Becomes(g, "done") /\ Leaves(w)
    /\ UNCHANGED <<clients, cancelled, failure, batch, main>>

(* Broken variant: the thread goes on without resolving the future. *)
DropFuture(w, g) ==
    /\ thread[w] = g /\ fut[g] \in {"starting", "running"} /\ cancelled
    /\ Leaves(w)
    /\ UNCHANGED <<fut, clients, cancelled, failure, batch, main>>

(* Before each capture, attempt, send and wait the event is looked at. *)
NoticeCancelled(w, g) ==
    /\ thread[w] = g /\ fut[g] \in {"starting", "running"} /\ cancelled
    /\ Becomes(g, "raised") /\ Leaves(w)
    /\ UNCHANGED <<clients, cancelled, failure, batch, main>>

Fail(w, g) ==
    /\ thread[w] = g /\ fut[g] = "running"
    /\ Becomes(g, "failing")
    /\ UNCHANGED <<thread, clients, cancelled, failure, batch, main>>

(* Broken variant: the event is set before the failure is recorded. *)
SetEventFirst(w, g) ==
    /\ thread[w] = g /\ fut[g] = "failing"
    /\ cancelled' = TRUE
    /\ Becomes(g, "recorded")
    /\ UNCHANGED <<thread, clients, failure, batch, main>>

(* The first failure is kept, under the lock ... *)
RecordFailure(w, g) ==
    /\ thread[w] = g /\ fut[g] = "failing"
    /\ failure' = IF failure = NoFailure THEN g ELSE failure
    /\ Becomes(g, "recorded")
    /\ UNCHANGED <<thread, clients, cancelled, batch, main>>

(* ... before the event stops the other workers. *)
SetEvent(w, g) ==
    /\ thread[w] = g /\ fut[g] = "recorded"
    /\ cancelled' = TRUE
    /\ Becomes(g, "failed") /\ Leaves(w)
    /\ UNCHANGED <<clients, failure, batch, main>>

(***************************************************************************)
(* The main thread: map, its consumer, and __exit__                        *)
(***************************************************************************)
(* Broken variant: no look at the bound. *)
SubmitAll == next <= N

MaySubmit == next <= N /\ Len(pending) < MaxWorkers

(* What `except CancelledError` makes of a cancellation seen by map. *)
Raise(how, who) == outcome' = how /\ blamed' = who /\ pc' = "exit"
Cancelled == Raise(IF failure # NoFailure THEN "error" ELSE "CancelledError", failure)

Submit ==
    /\ pc = "submit" /\ MaySubmit /\ ~cancelled
    /\ Becomes(next, "queued") /\ pc' = "append"
    /\ UNCHANGED <<thread, clients, cancelled, failure, batch, outcome, blamed>>

Own ==
    /\ pc = "append"
    /\ pending' = Append(pending, next) /\ next' = next + 1 /\ pc' = "submit"
    /\ UNCHANGED <<pool, cancelled, failure, written, outcome, blamed>>

SubmitCancelled ==
    /\ pc = "submit" /\ MaySubmit /\ cancelled
    /\ Cancelled
    /\ UNCHANGED <<pool, cancelled, failure, batch>>

Submitted ==
    /\ pc = "submit" /\ ~MaySubmit /\ pc' = "wait"
    /\ UNCHANGED <<pool, cancelled, failure, batch, outcome, blamed>>

(* Broken variant: take whichever future is done. *)
ResultOfAny ==
    /\ pc = "wait"
    /\ \E i \in 1..Len(pending) :
          /\ fut[pending[i]] = "done"
          /\ pending' = SubSeq(pending, 1, i - 1) \o SubSeq(pending, i + 1, Len(pending))
          /\ written' = Append(written, pending[i])
    /\ pc' = "write"
    /\ UNCHANGED <<pool, cancelled, failure, next, outcome, blamed>>

(* Only the oldest future is waited for; it stays owned until it is done. *)
Result ==
    /\ pc = "wait" /\ fut[Head(pending)] = "done"
    /\ pending' = Tail(pending) /\ written' = Append(written, Head(pending))
    /\ pc' = "write"
    /\ UNCHANGED <<pool, cancelled, failure, next, outcome, blamed>>

(* Broken variant: a failed group is left out. *)
SkipFailed ==
    /\ pc = "wait" /\ fut[Head(pending)] = "failed"
    /\ pending' = Tail(pending) /\ written' = Append(written, Head(pending))
    /\ pc' = "write"
    /\ UNCHANGED <<pool, cancelled, failure, next, outcome, blamed>>

ResultFailed ==
    /\ pc = "wait" /\ fut[Head(pending)] = "failed"
    /\ Raise("error", Head(pending))
    /\ UNCHANGED <<pool, cancelled, failure, batch>>

ResultCancelled ==
    /\ pc = "wait" /\ fut[Head(pending)] = "raised"
    /\ Cancelled
    /\ UNCHANGED <<pool, cancelled, failure, batch>>

(* The consumer has appended the group and checkpointed it. *)
Write ==
    /\ pc = "write"
    /\ IF Len(written) = N THEN Raise("ok", NoFailure) ELSE pc' = "submit" /\ UNCHANGED <<outcome, blamed>>
    /\ UNCHANGED <<pool, cancelled, failure, batch>>

WriteFails ==
    /\ pc = "write" /\ Raise("writer", NoFailure)
    /\ UNCHANGED <<pool, cancelled, failure, batch>>

(* KeyboardInterrupt is raised in the main thread: on its way to the queue *)
(* a submitted future is nobody's.                                         *)
Interrupt ==
    /\ pc \in InterruptAt \ {"exit", "drain"}
    /\ Raise(IF pc = "append" THEN "unowned" ELSE "interrupt", NoFailure)
    /\ UNCHANGED <<pool, cancelled, failure, batch>>

Owned == {pending[i] : i \in 1..Len(pending)}

(* The first n futures of the queue, cancelled where they have not begun. *)
Withdrawn(n) ==
    [g \in Groups |-> IF fut[g] = "queued" /\ \E i \in 1..n : pending[i] = g THEN "cancelled" ELSE fut[g]]

(* __exit__: stop the workers, cancel what has not started ... *)
Exit ==
    /\ pc = "exit" /\ pc' = "drain"
    /\ cancelled' = TRUE
    /\ fut' = Withdrawn(Len(pending))
    /\ UNCHANGED <<thread, clients, failure, batch, outcome, blamed>>

(* Broken variant: the scope does not wait for running groups. *)
LeaveUndrained ==
    /\ pc = "drain" /\ pc' = "ended"
    /\ pending' = <<>>
    /\ IF outcome = "ok" /\ failure # NoFailure
       THEN outcome' = "error" /\ blamed' = failure
       ELSE UNCHANGED <<outcome, blamed>>
    /\ UNCHANGED <<pool, cancelled, failure, next, written>>

(* ... and wait for the rest. *)
Drain ==
    /\ pc = "drain" /\ Owned \cap Live = {} /\ pc' = "ended"
    /\ pending' = <<>>
    /\ IF outcome = "ok" /\ failure # NoFailure
       THEN outcome' = "error" /\ blamed' = failure
       ELSE UNCHANGED <<outcome, blamed>>
    /\ UNCHANGED <<pool, cancelled, failure, next, written>>

(* KeyboardInterrupt in __exit__ itself: before the event is set, between  *)
(* two cancellations, or in the wait.                                      *)
InterruptExit ==
    /\ pc \in InterruptAt \cap {"exit", "drain"} /\ pc' = "ended"
    /\ outcome' = "undrained" /\ blamed' = NoFailure
    /\ cancelled' \in {cancelled, TRUE}
    /\ \E n \in 0..Len(pending) : fut' = Withdrawn(n) /\ (n > 0 => cancelled')
    /\ UNCHANGED <<thread, clients, failure, batch>>

(* End of the run: the executor waits for its threads, then clients close. *)
Close ==
    /\ pc = "ended" /\ Live = {}
    /\ pc' = "closed" /\ clients' = {}
    /\ UNCHANGED <<fut, thread, cancelled, failure, batch, outcome, blamed>>

WorkerStep(w) ==
    \/ OpenClient(w)
    \/ \E g \in Groups :
          \/ Begin(w, g) \/ Proceed(w, g) \/ Succeed(w, g) \/ NoticeCancelled(w, g)
          \/ Fail(w, g) \/ RecordFailure(w, g) \/ SetEvent(w, g)

MainStep ==
    \/ Submit \/ Own \/ SubmitCancelled \/ Submitted \/ Result \/ ResultFailed
    \/ ResultCancelled \/ Write \/ Exit \/ Drain \/ Close

Next ==
    \/ MainStep \/ WriteFails \/ Interrupt \/ InterruptExit
    \/ \E w \in Workers : WorkerStep(w)

Spec == Init /\ [][Next]_vars

(* Every thread keeps running; a request ends under its socket timeout.    *)
Fairness == WF_vars(MainStep) /\ \A w \in Workers : WF_vars(WorkerStep(w))
FairSpec == Spec /\ Fairness

----------------------------------------------------------------------------
(***************************************************************************)
(* Properties                                                              *)
(***************************************************************************)

(* Every variable holds a value the code can give it. *)
TypeOK ==
    /\ fut \in [Groups -> Active \cup {"none", "done", "failed", "raised", "cancelled"}]
    /\ thread \in [Workers -> Groups \cup {Idle}]
    /\ clients \subseteq Workers
    /\ cancelled \in BOOLEAN /\ failure \in Groups \cup {NoFailure}
    /\ pending \in Seq(Groups) /\ next \in 1..(N + 1) /\ written \in Seq(Groups)
    /\ pc \in Steps /\ outcome \in Outcomes /\ blamed \in Groups \cup {NoFailure}

(* Results reach the writer in the order of the groups, none twice, none   *)
(* left out, although workers finish in any order; and at most one result  *)
(* per worker exists that the writer has not taken: the buffered bytes are *)
(* bounded however slow the writer is.                                     *)
InOrder == \A i \in 1..Len(written) : written[i] = i
Buffered ==
    Cardinality({g \in Groups : fut[g] \in Active \cup {"done"}}
                \ {written[i] : i \in 1..Len(written)}) <= MaxWorkers
HandedOver == InOrder /\ Buffered

(* A year that stops because a worker failed reports a worker's failure:   *)
(* never the CancelledError the failure caused in another worker or in the *)
(* submission loop; and it ends without an exception only if every group   *)
(* was resolved: no worker's failure is swallowed, however late it comes.  *)
OutcomeHonest ==
    /\ outcome # "CancelledError"
    /\ outcome = "error" => blamed \in Groups /\ fut[blamed] \in {"recorded", "failed"}
    /\ outcome = "ok" => \A g \in Groups : fut[g] = "done"

(* manage_capture_workers.py:53 "Bounded ordered work that is cancelled and *)
(* drained before its scope exits": nothing of the batch runs or is queued  *)
(* once its scope is left, so the next year's batch has the pool to itself. *)
(* Only Ctrl-C inside __exit__ leaves it undrained; on the way to the queue *)
(* it leaves that one group.                                                *)
Drained ==
    pc = "ended" /\ outcome # "undrained" => Live \subseteq (IF outcome = "unowned" THEN {next} ELSE {})

(* The scope is left whatever fails, and the pool can be closed. *)
BatchEnds == <>(pc = "closed")
============================================================================
