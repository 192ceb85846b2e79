-------------------------- MODULE CaptureBatchProofs --------------------------
(***************************************************************************)
(* Theorems about CaptureBatch, for any number of groups and threads, and  *)
(* Ctrl-C at any of the steps BatchAssumption allows; and about StartGate, *)
(* which paces the requests of a batch, from GateInv on.                   *)
(***************************************************************************)
EXTENDS CaptureBatch, StartGate, FiniteSetTheorems, TLAPS

Working == {"submit", "append", "wait", "write"}
Taken == Len(written)

(* The groups are taken, owned and still to submit, in this order, ...     *)
QueueInv ==
    /\ written \in Seq(Groups) /\ pending \in Seq(Groups) /\ next \in 1..(N + 1)
    /\ pc \in Working \cup {"exit", "drain", "ended", "closed"}
    /\ \A i \in 1..Taken : written[i] = i
    /\ Taken < next
    /\ pc \notin {"ended", "closed"} =>
          /\ next = Taken + Len(pending) + 1
          /\ \A i \in 1..Len(pending) : pending[i] = Taken + i
    /\ pc = "append" => next <= N
    /\ pc \in {"submit", "append", "wait"} => Taken < N
    /\ pc = "wait" => pending # <<>>

(* ... no further ahead of the writer than there are threads; and what     *)
(* the writer took was done.                                               *)
AheadInv ==
    /\ fut \in [Groups -> Active \cup {"none", "done", "failed", "raised", "cancelled"}]
    /\ \A g \in Groups : fut[g] # "none" =>
          /\ g <= Taken + MaxWorkers
          /\ pc \in Working => g < next \/ (pc = "append" /\ g = next)
    /\ pc = "append" => next <= Taken + MaxWorkers
    /\ \A g \in Groups : g <= Taken => fut[g] = "done"

(* A failure is recorded before anybody is stopped by it. *)
CauseInv ==
    /\ \A g \in Groups : fut[g] \in {"recorded", "failed"} => failure # NoFailure
    /\ failure # NoFailure => failure \in Groups /\ fut[failure] \in {"recorded", "failed"}
    /\ cancelled /\ pc \in Working => failure # NoFailure
    /\ \A g \in Groups : fut[g] = "raised" => cancelled
    /\ pc \in Working => outcome = "open"
    /\ OutcomeHonest

(* What is queued or running is owned, but for the future just submitted,  *)
(* unless Ctrl-C cut __exit__ short.                                       *)
OwnedInv ==
    \A g \in Groups : fut[g] \in Active /\ outcome # "undrained" =>
        /\ g > Taken
        /\ pc \in {"ended", "closed"} => g = next /\ outcome = "unowned"
        /\ g < next \/ (g = next /\ (pc = "append" \/ outcome = "unowned"))

(* A thread runs a group of the batch or nothing, and the scope is left in *)
(* one of the ways __exit__ knows, with the error of a worker or none.     *)
ThreadsInv == thread \in [Workers -> Groups \cup {Idle}] /\ clients \subseteq Workers
ScopeInv == cancelled \in BOOLEAN /\ outcome \in Outcomes /\ blamed \in Groups \cup {NoFailure}

IInv == QueueInv /\ AheadInv /\ CauseInv

----------------------------------------------------------------------------
LEMMA Numbers ==
    N \in Nat \ {0} /\ MaxWorkers \in Nat \ {0} /\ NoFailure \notin Groups
    /\ InterruptAt \subseteq Working \cup {"exit", "drain"}
  <1>1. MaxWorkers \in Nat /\ (MaxWorkers = 0 <=> Workers = {})
    BY BatchAssumption, FS_CardinalityType, FS_EmptySet DEF MaxWorkers
  <1> QED  BY <1>1, BatchAssumption DEF Working

LEMMA InitIInv == Init => IInv /\ OwnedInv
  BY Numbers DEF Init, IInv, QueueInv, AheadInv, CauseInv, OwnedInv, OutcomeHonest, Taken, Working, Groups, Active

(***************************************************************************)
(* The threads.  A step of one moves its group from one living state to    *)
(* the next, or resolves it.                                               *)
(***************************************************************************)
LEMMA ThreadStep ==
    ASSUME IInv, NEW g \in Groups, NEW s, fut' = [fut EXCEPT ![g] = s],
           s \in {"starting", "running", "failing", "recorded", "done", "failed", "raised"},
           fut[g] \in Active, UNCHANGED <<batch, main>>
    PROVE  QueueInv' /\ AheadInv' /\ (OwnedInv => OwnedInv')
  <1>1. UNCHANGED <<pending, next, written, pc, outcome, blamed>>
    BY DEF batch, main
  <1>2. QueueInv'
    BY <1>1 DEF IInv, QueueInv, Taken
  <1>3. g > Taken
    BY DEF IInv, AheadInv, QueueInv, Taken, Groups, Active
  <1>4. AheadInv'
    BY <1>1, <1>3 DEF IInv, AheadInv, Taken, Groups, Active
  <1>5. OwnedInv => OwnedInv'
    BY <1>1 DEF OwnedInv, Taken, Active
  <1> QED  BY <1>2, <1>4, <1>5

LEMMA WorkerKeeps ==
    ASSUME IInv, NEW wk \in Workers, WorkerStep(wk)
    PROVE  IInv' /\ (OwnedInv => OwnedInv')
  <1> USE DEF Becomes
  <1>1. CASE OpenClient(wk)
    BY <1>1 DEF OpenClient, batch, main, IInv, QueueInv, AheadInv, CauseInv, OwnedInv, OutcomeHonest, Taken
  <1>2. ASSUME NEW g \in Groups, Begin(wk, g) \/ Proceed(wk, g) \/ Succeed(wk, g) \/ Fail(wk, g)
        PROVE  IInv' /\ (OwnedInv => OwnedInv')
    <2>1. PICK s \in {"starting", "running", "done", "failing"} : fut' = [fut EXCEPT ![g] = s]
      BY <1>2 DEF Begin, Proceed, Succeed, Fail
    <2>2. fut[g] \in {"queued", "starting", "running"} /\ UNCHANGED <<cancelled, failure, batch, main>>
      BY <1>2 DEF Begin, Proceed, Succeed, Fail
    <2>3. CauseInv'
      BY <2>1, <2>2 DEF IInv, AheadInv, CauseInv, OutcomeHonest, batch, main
    <2> QED  BY <2>1, <2>2, <2>3, ThreadStep DEF IInv, Active
  <1>3. ASSUME NEW g \in Groups, NoticeCancelled(wk, g) PROVE IInv' /\ (OwnedInv => OwnedInv')
    <2>1. fut' = [fut EXCEPT ![g] = "raised"] /\ cancelled
      BY <1>3 DEF NoticeCancelled
    <2>2. fut[g] \in {"starting", "running"} /\ UNCHANGED <<cancelled, failure, batch, main>>
      BY <1>3 DEF NoticeCancelled
    <2>3. CauseInv'
      BY <2>1, <2>2 DEF IInv, AheadInv, CauseInv, OutcomeHonest, batch, main
    <2> QED  BY <2>1, <2>2, <2>3, ThreadStep DEF IInv, Active
  <1>4. ASSUME NEW g \in Groups, RecordFailure(wk, g) PROVE IInv' /\ (OwnedInv => OwnedInv')
    <2>1. fut' = [fut EXCEPT ![g] = "recorded"] /\ failure' = IF failure = NoFailure THEN g ELSE failure
      BY <1>4 DEF RecordFailure
    <2>2. fut[g] = "failing" /\ UNCHANGED <<cancelled, batch, main>>
      BY <1>4 DEF RecordFailure
    <2>3. CauseInv'
      BY <2>1, <2>2, Numbers DEF IInv, AheadInv, CauseInv, OutcomeHonest, batch, main
    <2> QED  BY <2>1, <2>2, <2>3, ThreadStep DEF IInv, Active
  <1>5. ASSUME NEW g \in Groups, SetEvent(wk, g) PROVE IInv' /\ (OwnedInv => OwnedInv')
    <2>1. fut' = [fut EXCEPT ![g] = "failed"] /\ cancelled' = TRUE
      BY <1>5 DEF SetEvent
    <2>2. fut[g] = "recorded" /\ UNCHANGED <<failure, batch, main>>
      BY <1>5 DEF SetEvent
    <2>3. CauseInv'
      BY <2>1, <2>2 DEF IInv, AheadInv, CauseInv, OutcomeHonest, batch, main
    <2> QED  BY <2>1, <2>2, <2>3, ThreadStep DEF IInv, Active
  <1> QED  BY <1>1, <1>2, <1>3, <1>4, <1>5 DEF WorkerStep

(***************************************************************************)
(* The main thread                                                         *)
(***************************************************************************)
LEMMA SubmitKeeps == ASSUME IInv, Submit PROVE IInv' /\ (OwnedInv => OwnedInv')
  <1>1. /\ pc = "submit" /\ pc' = "append" /\ next <= N /\ Len(pending) < MaxWorkers /\ ~cancelled
        /\ fut' = [fut EXCEPT ![next] = "queued"]
        /\ UNCHANGED <<cancelled, failure, pending, next, written, outcome, blamed>>
    BY DEF Submit, MaySubmit, Becomes, batch
  <1>2. next \in Groups /\ next = Taken + Len(pending) + 1 /\ Taken \in Nat /\ Len(pending) \in Nat
    BY <1>1, Numbers DEF IInv, QueueInv, Groups, Taken
  <1>3. next <= Taken + MaxWorkers
    BY <1>1, <1>2, Numbers
  <1>4. QueueInv'
    BY <1>1 DEF IInv, QueueInv, Taken, Working
  <1>5. AheadInv'
    BY <1>1, <1>2, <1>3 DEF IInv, AheadInv, QueueInv, Taken, Active, Groups, Working
  <1>6. fut[next] = "none"
    BY <1>1, <1>2, Numbers DEF IInv, AheadInv, QueueInv, Working
  <1>7. CauseInv'
    BY <1>1, <1>2, <1>6 DEF IInv, CauseInv, AheadInv, OutcomeHonest, Working
  <1>8. OwnedInv => OwnedInv'
    BY <1>1, <1>2 DEF OwnedInv, Taken, Groups
  <1> QED  BY <1>4, <1>5, <1>7, <1>8 DEF IInv

LEMMA OwnKeeps == ASSUME IInv, Own PROVE IInv' /\ (OwnedInv => OwnedInv')
  <1>1. /\ pc = "append" /\ pc' = "submit" /\ pending' = Append(pending, next) /\ next' = next + 1
        /\ UNCHANGED <<fut, cancelled, failure, written, outcome, blamed>>
    BY DEF Own, pool
  <1>2. next \in Groups /\ next = Taken + Len(pending) + 1 /\ Taken \in Nat /\ Len(pending) \in Nat
    BY <1>1, Numbers DEF IInv, QueueInv, Groups, Taken
  <1>3. QueueInv'
    <2>1. pending' \in Seq(Groups) /\ Len(pending') = Len(pending) + 1
      BY <1>1, <1>2 DEF IInv, QueueInv
    <2>2. ASSUME NEW i \in 1..Len(pending') PROVE pending'[i] = Taken + i
      <3>1. CASE i = Len(pending) + 1
        BY <1>1, <1>2, <3>1 DEF IInv, QueueInv
      <3>2. CASE i \in 1..Len(pending)
        <4>1. pending'[i] = pending[i]
          BY <1>1, <1>2, <3>2 DEF IInv, QueueInv
        <4> QED  BY <1>1, <3>2, <4>1 DEF IInv, QueueInv
      <3> QED  BY <2>1, <1>2, <3>1, <3>2
    <2> QED  BY <1>1, <1>2, <2>1, <2>2, Numbers DEF IInv, QueueInv, Taken, Working, Groups
  <1>4. AheadInv'
    BY <1>1, <1>2 DEF IInv, AheadInv, Taken, Working, Groups
  <1>5. CauseInv'
    BY <1>1 DEF IInv, CauseInv, OutcomeHonest, Working
  <1>6. OwnedInv => OwnedInv'
    BY <1>1, <1>2 DEF OwnedInv, Taken, Groups
  <1> QED  BY <1>3, <1>4, <1>5, <1>6 DEF IInv

(* Leaving the loop, and looking on, change neither futures nor groups. *)
LEMMA TurnKeeps ==
    ASSUME IInv, UNCHANGED <<fut, cancelled, failure, batch>>, pc \in Working, pc' \in Working \cup {"exit"},
           pc' # "append", pc' = "submit" => Taken < N, pc' = "wait" => pending # <<>> /\ Taken < N,
           pc = "append" => pc' = "exit" /\ outcome' = "unowned",
           pc' \in Working => outcome' = outcome /\ blamed' = blamed,
           pc' = "exit" => /\ outcome' # "CancelledError"
                           /\ outcome' = "error" => blamed' \in Groups /\ fut[blamed'] \in {"recorded", "failed"}
                           /\ outcome' = "ok" => \A g \in Groups : fut[g] = "done"
    PROVE  IInv' /\ (OwnedInv => OwnedInv')
  <1>1. UNCHANGED <<pending, next, written>>
    BY DEF batch
  <1>2. QueueInv'
    BY <1>1 DEF IInv, QueueInv, Taken, Working
  <1>3. AheadInv'
    BY <1>1 DEF IInv, AheadInv, Taken, Working
  <1>4. CauseInv'
    BY <1>1 DEF IInv, CauseInv, OutcomeHonest, Working
  <1>5. OwnedInv => OwnedInv'
    BY <1>1 DEF OwnedInv, Taken, Working, IInv, CauseInv
  <1> QED  BY <1>2, <1>3, <1>4, <1>5 DEF IInv

(* A cancellation the main thread meets has a recorded cause. *)
LEMMA CancelledHasCause ==
    ASSUME IInv, pc \in Working, cancelled, Cancelled, UNCHANGED <<fut, failure>>
    PROVE  pc' = "exit" /\ outcome' = "error" /\ blamed' \in Groups /\ fut[blamed'] \in {"recorded", "failed"}
  <1>1. failure # NoFailure /\ failure \in Groups /\ fut[failure] \in {"recorded", "failed"}
    BY DEF IInv, CauseInv
  <1> QED  BY <1>1 DEF Cancelled, Raise

LEMMA HeadIsNext ==
    ASSUME IInv, pc = "wait"
    PROVE  /\ Head(pending) = Taken + 1 /\ Taken + 1 \in Groups /\ Len(pending) \in Nat \ {0}
  <1>1. pending \in Seq(Groups) /\ Len(pending) \in Nat \ {0}
    BY DEF IInv, QueueInv
  <1>2. Head(pending) = pending[1] /\ pending[1] \in Groups
    BY <1>1
  <1>3. pending[1] = Taken + 1
    BY <1>1 DEF IInv, QueueInv, Working
  <1> QED  BY <1>1, <1>2, <1>3

LEMMA ResultKeeps == ASSUME IInv, Result PROVE IInv' /\ (OwnedInv => OwnedInv')
  <1>1. /\ pc = "wait" /\ pc' = "write" /\ fut[Head(pending)] = "done"
        /\ pending' = Tail(pending) /\ written' = Append(written, Head(pending))
        /\ UNCHANGED <<fut, cancelled, failure, next, outcome, blamed>>
    BY DEF Result, pool
  <1>2. Head(pending) = Taken + 1 /\ Taken + 1 \in Groups /\ Len(pending) \in Nat \ {0}
    BY <1>1, HeadIsNext
  <1>3. Taken \in Nat /\ written \in Seq(Groups) /\ pending \in Seq(Groups)
    BY DEF IInv, QueueInv, Taken
  <1>4. written' \in Seq(Groups) /\ Len(written') = Taken + 1
    BY <1>1, <1>2, <1>3 DEF Taken
  <1>5. \A i \in 1..(Taken + 1) : written'[i] = i
    BY <1>1, <1>2, <1>3 DEF IInv, QueueInv, Taken
  <1>6. pending' \in Seq(Groups) /\ Len(pending') = Len(pending) - 1
    BY <1>1, <1>2, <1>3
  <1>7. \A i \in 1..Len(pending') : pending'[i] = (Taken + 1) + i
    <2>1. \A i \in 1..Len(pending') : pending'[i] = pending[i + 1]
      BY <1>1, <1>2, <1>3, <1>6
    <2> QED  BY <1>1, <1>2, <1>3, <1>6, <2>1 DEF IInv, QueueInv
  <1>8. QueueInv'
    BY <1>1, <1>2, <1>3, <1>4, <1>5, <1>6, <1>7 DEF IInv, QueueInv, Taken, Working
  <1>9. AheadInv'
    <2>1. Taken' = Taken + 1
      BY <1>4 DEF Taken
    <2>2. \A g \in Groups : g <= Taken + MaxWorkers => g <= Taken' + MaxWorkers
      BY <1>3, <2>1, Numbers DEF Groups
    <2>3. \A g \in Groups : g <= Taken' => g <= Taken \/ g = Taken + 1
      BY <1>3, <2>1 DEF Groups
    <2> QED  BY <1>1, <1>2, <2>2, <2>3 DEF IInv, AheadInv, Working
  <1>10. CauseInv'
    BY <1>1 DEF IInv, CauseInv, OutcomeHonest, Working
  <1>11. OwnedInv => OwnedInv'
    BY <1>1, <1>2, <1>3, <1>4 DEF OwnedInv, Taken, Groups, Active
  <1> QED  BY <1>8, <1>9, <1>10, <1>11 DEF IInv

LEMMA LookingKeeps ==
    ASSUME IInv, SubmitCancelled \/ Submitted \/ ResultFailed \/ ResultCancelled \/ Write \/ WriteFails \/ Interrupt
    PROVE  IInv' /\ (OwnedInv => OwnedInv')
  <1> USE DEF pool, Working
  <1>1. CASE SubmitCancelled \/ ResultCancelled
    <2>1. cancelled /\ pc \in {"submit", "wait"} /\ Cancelled /\ UNCHANGED <<fut, cancelled, failure, batch>>
      <3>1. CASE SubmitCancelled  BY <3>1 DEF SubmitCancelled
      <3>2. CASE ResultCancelled
        BY <3>2, HeadIsNext DEF ResultCancelled, IInv, CauseInv
      <3> QED  BY <1>1, <3>1, <3>2
    <2> QED  BY <2>1, CancelledHasCause, TurnKeeps
  <1>2. CASE Submitted
    <2>1. pending # <<>> /\ Taken < N
      <3>1. Taken < N /\ Taken \in Nat /\ next = Taken + Len(pending) + 1 /\ Len(pending) \in Nat
        BY <1>2 DEF Submitted, IInv, QueueInv, Taken
      <3>2. Len(pending) > 0
        BY <1>2, <3>1, Numbers DEF Submitted, MaySubmit
      <3> QED  BY <3>1, <3>2
    <2> QED  BY <1>2, <2>1, TurnKeeps DEF Submitted
  <1>3. CASE ResultFailed
    <2>1. Head(pending) \in Groups
      BY <1>3, HeadIsNext DEF ResultFailed
    <2> QED  BY <1>3, <2>1, TurnKeeps DEF ResultFailed, Raise
  <1>4. CASE Write /\ Taken = N
    <2>1. \A g \in Groups : fut[g] = "done"
      BY <1>4, Numbers DEF IInv, AheadInv, Groups
    <2> QED  BY <1>4, <2>1, TurnKeeps DEF Write, Raise, Taken
  <1>5. CASE Write /\ Taken # N
    <2>1. Taken < N
      BY <1>5, Numbers DEF Write, IInv, QueueInv, Taken
    <2> QED  BY <1>5, <2>1, TurnKeeps DEF Write, Taken
  <1>6. CASE WriteFails
    BY <1>6, TurnKeeps DEF WriteFails, Raise
  <1>7. CASE Interrupt
    BY <1>7, Numbers, TurnKeeps DEF Interrupt, Raise
  <1> QED  BY <1>1, <1>2, <1>3, <1>4, <1>5, <1>6, <1>7

(* Only queued futures are cancelled. *)
LEMMA ExitKeeps == ASSUME IInv, Exit PROVE IInv' /\ (OwnedInv => OwnedInv')
  <1>1. /\ pc = "exit" /\ pc' = "drain" /\ cancelled' = TRUE
        /\ fut' = Withdrawn(Len(pending))
        /\ UNCHANGED <<failure, pending, next, written, outcome, blamed>>
    BY DEF Exit, batch
  <1>2. QueueInv'
    BY <1>1 DEF IInv, QueueInv, Taken, Working
  <1>3. \A g \in Groups : fut'[g] = fut[g] \/ (fut[g] = "queued" /\ fut'[g] = "cancelled")
    BY <1>1 DEF Withdrawn
  <1>4. AheadInv'
    BY <1>1, <1>3 DEF IInv, AheadInv, Taken, Working, Withdrawn
  <1>5. CauseInv'
    BY <1>1, <1>3 DEF IInv, CauseInv, OutcomeHonest, Working
  <1>6. OwnedInv => OwnedInv'
    BY <1>1, <1>3 DEF OwnedInv, Taken, Active
  <1> QED  BY <1>2, <1>4, <1>5, <1>6 DEF IInv

(* Wherever __exit__ is cut, it has cancelled queued futures only. *)
LEMMA InterruptExitKeeps == ASSUME IInv, InterruptExit PROVE IInv' /\ OwnedInv'
  <1>1. /\ pc \in {"exit", "drain"} /\ pc' = "ended" /\ outcome' = "undrained" /\ cancelled' \in {cancelled, TRUE}
        /\ UNCHANGED <<failure, pending, next, written>>
    BY DEF InterruptExit, batch
  <1>2. PICK n \in 0..Len(pending) : fut' = Withdrawn(n)
    BY DEF InterruptExit
  <1>3. QueueInv'
    BY <1>1 DEF IInv, QueueInv, Taken, Working
  <1>4. \A g \in Groups : fut'[g] = fut[g] \/ (fut[g] = "queued" /\ fut'[g] = "cancelled")
    BY <1>2 DEF Withdrawn
  <1>5. AheadInv'
    BY <1>1, <1>2, <1>4 DEF IInv, AheadInv, Taken, Working, Withdrawn
  <1>6. CauseInv'
    <2>1. cancelled => cancelled'
      BY <1>1
    <2> QED  BY <1>1, <1>4, <2>1 DEF IInv, CauseInv, OutcomeHonest, Working
  <1>7. OwnedInv'
    BY <1>1 DEF OwnedInv
  <1> QED  BY <1>3, <1>5, <1>6, <1>7 DEF IInv

(* A batch that was fine has no failure to raise. *)
LEMMA DrainKeeps == ASSUME IInv, Drain PROVE IInv' /\ (OwnedInv => OwnedInv')
  <1>1. /\ pc = "drain" /\ Owned \cap Live = {} /\ pc' = "ended" /\ pending' = <<>>
        /\ UNCHANGED <<fut, cancelled, failure, next, written>>
    BY DEF Drain, pool
  <1>2. QueueInv'
    BY <1>1 DEF IInv, QueueInv, Taken, Working
  <1>3. AheadInv'
    BY <1>1 DEF IInv, AheadInv, Taken, Working
  <1>4. CauseInv'
    BY <1>1 DEF Drain, IInv, CauseInv, OutcomeHonest, Working
  <1>5. OwnedInv => OwnedInv'
    <2> SUFFICES ASSUME OwnedInv, outcome # "undrained", NEW g \in Groups, fut[g] \in Active, g < next PROVE FALSE
      BY <1>1 DEF OwnedInv, Drain, Taken
    <2>1. Taken < g /\ g < next /\ Taken \in Nat /\ next = Taken + Len(pending) + 1 /\ Len(pending) \in Nat
      BY <1>1 DEF OwnedInv, IInv, QueueInv, Taken
    <2>2. g - Taken \in 1..Len(pending)
      BY <2>1 DEF Groups
    <2>3. pending[g - Taken] = g
      BY <1>1, <2>1, <2>2 DEF IInv, QueueInv, Groups
    <2> QED  BY <1>1, <2>2, <2>3 DEF Owned, Live
  <1> QED  BY <1>2, <1>3, <1>4, <1>5 DEF IInv

LEMMA CloseKeeps == ASSUME IInv, Close \/ UNCHANGED vars PROVE IInv' /\ (OwnedInv => OwnedInv')
  <1>1. CASE Close
    BY <1>1 DEF Close, batch, IInv, QueueInv, AheadInv, CauseInv, OwnedInv, OutcomeHonest, Taken, Working
  <1>2. CASE UNCHANGED vars
    BY <1>2 DEF vars, pool, batch, main, IInv, QueueInv, AheadInv, CauseInv, OwnedInv, OutcomeHonest, Taken
  <1> QED  BY <1>1, <1>2

LEMMA NextKeeps == ASSUME IInv, [Next]_vars PROVE IInv' /\ (OwnedInv => OwnedInv')
  BY WorkerKeeps, SubmitKeeps, OwnKeeps, LookingKeeps, ResultKeeps, ExitKeeps, InterruptExitKeeps, DrainKeeps,
     CloseKeeps
  DEF Next, MainStep

LEMMA TypesKeep ==
    ASSUME IInv, ThreadsInv, ScopeInv, [Next]_vars
    PROVE  ThreadsInv' /\ ScopeInv'
  <1>1. ASSUME NEW w \in Workers, WorkerStep(w) PROVE ThreadsInv' /\ ScopeInv'
    <2>1. UNCHANGED <<outcome, blamed>> /\ cancelled' \in {cancelled, TRUE}
      BY <1>1 DEF WorkerStep, OpenClient, Begin, Proceed, Succeed, NoticeCancelled, Fail, RecordFailure,
                  SetEvent, main
    <2>2. clients' \in {clients, clients \cup {w}}
      BY <1>1 DEF WorkerStep, OpenClient, Begin, Proceed, Succeed, NoticeCancelled, Fail, RecordFailure, SetEvent
    <2>3. \E g \in Groups \cup {Idle} : thread' \in {thread, [thread EXCEPT ![w] = g]}
      BY <1>1 DEF WorkerStep, OpenClient, Begin, Proceed, Succeed, NoticeCancelled, Fail, RecordFailure,
                  SetEvent, Leaves
    <2> QED  BY <2>1, <2>2, <2>3 DEF ThreadsInv, ScopeInv
  <1>2. CASE MainStep \/ WriteFails \/ Interrupt \/ InterruptExit
    <2>1. thread' = thread /\ clients' \in {clients, {}} /\ cancelled' \in {cancelled, TRUE}
      BY <1>2 DEF MainStep, Submit, Own, SubmitCancelled, Submitted, Result, ResultFailed, ResultCancelled, Write,
                  WriteFails, Interrupt, InterruptExit, Exit, Drain, Close, pool
    <2>2. failure \in Groups \cup {NoFailure}
      BY DEF IInv, CauseInv
    <2>3. outcome' \in Outcomes /\ blamed' \in Groups \cup {NoFailure}
      <3>1. CASE ResultFailed
        BY <3>1, HeadIsNext DEF ResultFailed, Raise, Outcomes
      <3>2. CASE SubmitCancelled \/ ResultCancelled \/ Write \/ WriteFails \/ Interrupt \/ InterruptExit
        BY <3>2, <2>2 DEF ScopeInv, SubmitCancelled, ResultCancelled, Write, WriteFails, Interrupt, InterruptExit,
                          Cancelled, Raise, Outcomes
      <3>3. CASE Drain
        BY <3>3, <2>2 DEF ScopeInv, Drain, Outcomes
      <3>4. CASE Submit \/ Own \/ Submitted \/ Result \/ Exit \/ Close
        BY <3>4 DEF ScopeInv, Submit, Own, Submitted, Result, Exit, Close
      <3> QED  BY <1>2, <3>1, <3>2, <3>3, <3>4 DEF MainStep
    <2> QED  BY <2>1, <2>3 DEF ThreadsInv, ScopeInv
  <1>3. CASE UNCHANGED vars
    BY <1>3 DEF vars, pool, main, ThreadsInv, ScopeInv
  <1> QED  BY <1>1, <1>2, <1>3 DEF Next

----------------------------------------------------------------------------
(* The order of the groups, the state of their futures, and the cause of a *)
(* cancellation, whatever step of map or __exit__ Ctrl-C lands on.         *)
THEOREM Invariance == Spec => []IInv
  <1>1. Init => IInv  BY InitIInv
  <1>2. IInv /\ [Next]_vars => IInv'  BY NextKeeps
  <1> QED  BY <1>1, <1>2, PTL DEF Spec

(* Futures, threads, the queue and the way the scope is left hold nothing  *)
(* but what manage_capture_workers.py can put there.                       *)
THEOREM BatchTypeCorrect == Spec => []TypeOK
  <1>1. Init => ThreadsInv /\ ScopeInv
    BY DEF Init, ThreadsInv, ScopeInv, Outcomes
  <1>2. IInv /\ ThreadsInv /\ ScopeInv /\ [Next]_vars => (ThreadsInv /\ ScopeInv)'
    BY TypesKeep
  <1>3. IInv /\ ThreadsInv /\ ScopeInv => TypeOK
    BY DEF IInv, QueueInv, AheadInv, CauseInv, ThreadsInv, ScopeInv, TypeOK, Working, Steps
  <1>4. Spec => []IInv  BY Invariance
  <1> QED  BY <1>1, <1>2, <1>3, <1>4, PTL DEF Spec

(* A year reports the failure of a worker, never the cancellation that it  *)
(* caused, and ends well only when every group was resolved.               *)
THEOREM OutcomeIsHonest == Spec => []OutcomeHonest
  <1>1. IInv => OutcomeHonest
    BY DEF IInv, CauseInv
  <1>2. Spec => []IInv  BY Invariance
  <1> QED  BY <1>1, <1>2, PTL

(* The writer gets the groups in order, and results that wait for it are   *)
(* no more than there are threads.                                         *)
THEOREM ResultsAreHandedOver == Spec => []HandedOver
  <1>1. IInv => HandedOver
    <2> SUFFICES ASSUME IInv PROVE InOrder /\ Buffered
      BY DEF HandedOver
    <2>1. InOrder
      BY DEF IInv, QueueInv, InOrder, Taken
    <2>2. Buffered
      <3> DEFINE taken == {written[i] : i \in 1..Len(written)}
                 kept == {g \in Groups : fut[g] \in Active \cup {"done"}} \ taken
                 window == (Taken + 1)..(Taken + MaxWorkers)
      <3>1. Taken \in Nat
        BY DEF IInv, QueueInv, Taken
      <3>2. \A g \in kept : g \in Nat /\ g > Taken
        BY <3>1 DEF IInv, QueueInv, Taken, Groups
      <3>3. \A g \in kept : g <= Taken + MaxWorkers
        BY DEF IInv, AheadInv, Active
      <3>4. kept \subseteq window
        BY <3>1, <3>2, <3>3, Numbers
      <3>5. IsFiniteSet(window) /\ Cardinality(window) = MaxWorkers
        BY <3>1, Numbers, FS_Interval
      <3> HIDE DEF kept, window
      <3>6. Cardinality(kept) <= MaxWorkers
        BY <3>4, <3>5, FS_Subset
      <3> QED  BY <3>6 DEF Buffered, kept
    <2> QED  BY <2>1, <2>2
  <1>2. Spec => []IInv  BY Invariance
  <1> QED  BY <1>1, <1>2, PTL

(* Once the scope is left nothing of the batch runs, but for what Ctrl-C   *)
(* let go: one group submitted and not yet owned, or what __exit__, cut    *)
(* short, had not waited for (CaptureBatch.__exit__, l.66-71).             *)
THEOREM DrainedForever == Spec => []Drained
  <1>1. Init => IInv /\ OwnedInv  BY InitIInv
  <1>2. IInv /\ OwnedInv /\ [Next]_vars => (IInv /\ OwnedInv)'  BY NextKeeps
  <1>3. IInv /\ OwnedInv => Drained
    BY DEF OwnedInv, Drained, Live, Active
  <1> QED  BY <1>1, <1>2, <1>3, PTL DEF Spec

----------------------------------------------------------------------------
(***************************************************************************)
(* StartGate: for any threads, intervals, cooldowns and Retry-After        *)
(* values, starts are paced, no advice is cut short, and the escalation    *)
(* level moves only outside a cooldown.                                    *)
(***************************************************************************)

(* What the history knows is what the gate's deadlines stand for.  This is *)
(* what makes both pacing properties follow from the guard of Start alone. *)
PacingInv ==
    /\ sinceStart + nextStart >= Interval
    /\ sinceCdx + endpointStart >= CdxInterval
    /\ advised <= blockedUntil

(* A thread about to attempt has an attempt left. *)
AttemptsLeft ==
    \A t \in Playback : at[t] \in {"ready", "backoff"} => attempt[t] < MaxAttempts

GateInv == GateTypeOK /\ AttemptsLeft /\ PacingInv

----------------------------------------------------------------------------
(* The assumption without its only product. *)
LEMMA Times ==
    /\ Interval \in Nat /\ CdxInterval \in Nat
    /\ MaxAttempts \in Nat \ {0} /\ MaxLevel \in Nat
    /\ Playback \cap Cdx = {}
  BY GateAssumption

(* Both bounds of a pair of times are times, and bound it. *)
LEMMA Bounds ==
    ASSUME NEW x \in Nat, NEW y \in Nat
    PROVE  /\ AtLeast(x, y) \in Nat /\ AtLeast(x, y) >= x /\ AtLeast(x, y) >= y
           /\ Sooner(x, y) \in Nat /\ Sooner(x, y) <= x /\ Sooner(x, y) <= y
           /\ Sooner(x, y) \in {x, y} /\ AtLeast(x, y) \in {x, y}
  BY DEF AtLeast, Sooner

(* A cooldown is never shorter than what the source asked for. *)
LEMMA DelayCoversAdvice ==
    ASSUME NEW l \in Nat, NEW r \in Nat
    PROVE  Delay(l, r) \in Nat /\ Delay(l, r) >= r
  <1>1. Cooldown * l \in Nat /\ MaxCooldown \in Nat  BY GateAssumption
  <1>2. Sooner(Cooldown * l, MaxCooldown) \in Nat  BY <1>1, Bounds
  <1> QED  BY <1>2, Bounds DEF Delay

(* What pause does to the gate: nothing gets shorter, the advice received  *)
(* is covered, and the level moves, upwards, only outside a cooldown.      *)
LEMMA PauseKeeps ==
    ASSUME GateTypeOK, PacingInv, NEW r \in Nat, Pause(r)
    PROVE  /\ level' \in 0..MaxLevel /\ level' >= level
           /\ level' # level => blockedUntil = 0
           /\ blockedUntil' \in Nat /\ advised' \in Nat /\ advised' <= blockedUntil'
  <1>1. level \in 0..MaxLevel /\ level + 1 \in Nat /\ MaxLevel \in Nat
        /\ blockedUntil \in Nat /\ advised \in Nat
    BY GateAssumption DEF GateTypeOK
  <1>2. level' \in 0..MaxLevel /\ level' >= level /\ (level' # level => blockedUntil = 0)
    BY <1>1 DEF Pause, Sooner
  <1>3. Delay(level', r) \in Nat /\ Delay(level', r) >= r
    BY <1>2, DelayCoversAdvice
  <1>4. advised' \in {advised, r} /\ advised' \in Nat
    BY <1>1, Bounds DEF Pause
  <1>5. blockedUntil' \in Nat /\ blockedUntil' >= blockedUntil
        /\ blockedUntil' >= Delay(level', r)
    BY <1>1, <1>3, Bounds DEF Pause
  <1>6. advised <= blockedUntil  BY DEF PacingInv
  <1> QED  BY <1>1, <1>2, <1>3, <1>4, <1>5, <1>6

(* The advice of any failure is a time. *)
LEMMA AdviceIsTime ==
    ASSUME NEW f \in Failures PROVE AskedFor(f) \in Nat
  BY GateAssumption DEF Failures, AskedFor

----------------------------------------------------------------------------
(* The strengthened invariant holds initially ...                          *)
LEMMA InitGateInv == GateInit => GateInv
  <1> SUFFICES ASSUME GateInit PROVE GateInv
    OBVIOUS
  <1>1. GateTypeOK
    <2>1. /\ at \in [Threads -> Places]
          /\ attempt \in [Threads -> 0..MaxAttempts] /\ timeouts \in [Threads -> 0..1]
      BY Times DEF Places, GateInit
    <2>2. /\ nextStart \in 0..Interval /\ endpointStart \in 0..CdxInterval
          /\ level \in 0..MaxLevel /\ sinceStart \in 0..Interval /\ sinceCdx \in 0..CdxInterval
      BY Times DEF GateInit
    <2> QED  BY <2>1, <2>2 DEF GateInit, GateTypeOK
  <1>2. AttemptsLeft  BY Times DEF GateInit, AttemptsLeft, Threads
  <1>3. PacingInv  BY Times DEF GateInit, PacingInv
  <1> QED  BY <1>1, <1>2, <1>3 DEF GateInv

(* Steps that only move a thread on, keeping all else.                     *)
LEMMA MoveKeeps ==
    ASSUME GateInv, NEW t \in Threads, NEW place \in Places,
           Goes(t, place), UNCHANGED <<gate, batchCancelled, history>>,
           UNCHANGED loop,
           place \in {"ready", "backoff"} => at[t] \in {"ready", "backoff"} \/ t \in Cdx
    PROVE  GateInv'
  <1>1. GateTypeOK'
    BY Times DEF GateInv, GateTypeOK, Goes, gate, history, loop
  <1>2. AttemptsLeft'
    BY Times DEF GateInv, GateTypeOK, AttemptsLeft, Goes, loop, Threads
  <1>3. PacingInv'
    BY DEF GateInv, PacingInv, gate, history
  <1> QED  BY <1>1, <1>2, <1>3 DEF GateInv

LEMMA AttemptKeeps == ASSUME GateInv, NEW t \in Threads, Attempt(t) PROVE GateInv'
  <1>1. GateTypeOK'
    BY Times DEF Places, GateInv, GateTypeOK, AttemptsLeft, Attempt, Goes, gate, history
  <1>2. AttemptsLeft'
    BY DEF GateInv, GateTypeOK, AttemptsLeft, Attempt, Goes, Threads
  <1>3. PacingInv'
    BY DEF GateInv, PacingInv, Attempt, gate, history
  <1> QED  BY <1>1, <1>2, <1>3 DEF GateInv

(* A start sets a deadline and the time since it at once. *)
LEMMA StartKeeps == ASSUME GateInv, NEW t \in Threads, Start(t) PROVE GateInv'
  <1>1. GateTypeOK'
    BY Times DEF Places, GateInv, GateTypeOK, Start, Goes, loop
  <1>2. AttemptsLeft'
    BY DEF GateInv, GateTypeOK, AttemptsLeft, Start, Goes, loop, Threads
  <1>3. PacingInv'
    BY Times DEF GateInv, GateTypeOK, PacingInv, Start
  <1> QED  BY <1>1, <1>2, <1>3 DEF GateInv

LEMMA SucceedKeeps == ASSUME GateInv, NEW t \in Threads, CaptureSucceeds(t) PROVE GateInv'
  <1>1. level' \in 0..MaxLevel
    BY Times DEF GateInv, GateTypeOK, CaptureSucceeds, NoteSuccess
  <1>2. at' \in [Threads -> Places]
    BY DEF GateInv, GateTypeOK, CaptureSucceeds, NextCapture, Goes, Places
  <1>3. attempt' \in [Threads -> 0..MaxAttempts] /\ timeouts' \in [Threads -> 0..1]
    BY Times DEF GateInv, GateTypeOK, CaptureSucceeds, NextCapture
  <1>4. GateTypeOK'
    BY <1>1, <1>2, <1>3 DEF GateInv, GateTypeOK, CaptureSucceeds, history
  <1>5. AttemptsLeft'
    BY Times DEF GateInv, GateTypeOK, AttemptsLeft, CaptureSucceeds, Goes, NextCapture, Threads
  <1>6. PacingInv'
    BY DEF GateInv, PacingInv, CaptureSucceeds, history
  <1> QED  BY <1>4, <1>5, <1>6 DEF GateInv

(* A failure retries only while attempts are left, and pauses for at least *)
(* what it was asked.                                                      *)
LEMMA FailsKeeps == ASSUME GateInv, NEW t \in Threads, NEW f \in Failures, Fails(t, f) PROVE GateInv'
  <1>1. /\ level' \in 0..MaxLevel /\ blockedUntil' \in Nat
        /\ advised' \in Nat /\ advised' <= blockedUntil'
    <2>1. CASE PausesPool(f)
      BY <2>1, PauseKeeps, AdviceIsTime DEF Fails, GateInv
    <2>2. CASE ~PausesPool(f)
      BY <2>2 DEF Fails, GateInv, GateTypeOK, PacingInv
    <2> QED  BY <2>1, <2>2
  <1>2. /\ at' \in [Threads -> Places]
        /\ attempt' \in [Threads -> 0..MaxAttempts] /\ timeouts' \in [Threads -> 0..1]
    BY Times DEF Places, GateInv, GateTypeOK, Fails, Goes, NextCapture, Abandon, loop
  <1>3. GateTypeOK'
    BY <1>1, <1>2 DEF GateInv, GateTypeOK, Fails
  <1>4. AttemptsLeft'
    BY Times
    DEF GateInv, GateTypeOK, AttemptsLeft, Fails, MayRetry, Goes, NextCapture, Abandon, loop, Threads
  <1>5. PacingInv'
    BY <1>1 DEF GateInv, PacingInv, Fails
  <1> QED  BY <1>3, <1>4, <1>5 DEF GateInv

LEMMA NextBatchKeeps == ASSUME GateInv, NextBatch PROVE GateInv'
  <1>1. GateTypeOK'
    <2>1. at' \in [Threads -> Places]
      BY DEF Places, GateInv, GateTypeOK, NextBatch
    <2>2. attempt' \in [Threads -> 0..MaxAttempts] /\ timeouts' \in [Threads -> 0..1]
      BY Times DEF NextBatch
    <2> QED  BY <2>1, <2>2 DEF GateInv, GateTypeOK, NextBatch, gate, history
  <1>2. AttemptsLeft'
    BY Times DEF AttemptsLeft, NextBatch, Threads
  <1>3. PacingInv'
    BY DEF GateInv, PacingInv, NextBatch, gate, history
  <1> QED  BY <1>1, <1>2, <1>3 DEF GateInv

(* The clock brings a deadline nearer by as much as it adds to the time    *)
(* since.                                                                  *)
LEMMA TickKeeps == ASSUME GateInv, Tick PROVE GateInv'
  <1>1. GateTypeOK'
    <2>1. /\ nextStart' \in 0..Interval /\ endpointStart' \in 0..CdxInterval
          /\ blockedUntil' \in Nat /\ advised' \in Nat
      BY Times DEF GateInv, GateTypeOK, Tick, Less1
    <2>2. sinceStart' \in 0..Interval /\ sinceCdx' \in 0..CdxInterval
      BY Times DEF GateInv, GateTypeOK, Tick, Sooner
    <2> QED  BY <2>1, <2>2 DEF GateInv, GateTypeOK, Tick, loop
  <1>2. AttemptsLeft'
    BY DEF GateInv, AttemptsLeft, Tick, loop
  <1>3. PacingInv'
    BY Times DEF GateInv, GateTypeOK, PacingInv, Tick, Less1, Sooner
  <1> QED  BY <1>1, <1>2, <1>3 DEF GateInv

(* ... and every step keeps it. *)
LEMMA NextIInv == GateInv /\ [GateNext]_gateVars => GateInv'
  <1> SUFFICES ASSUME GateInv, [GateNext]_gateVars PROVE GateInv'
    OBVIOUS
  <1>1. ASSUME NEW t \in Threads, GateStep(t) PROVE GateInv'
    <2>1. CASE Attempt(t)  BY <2>1, AttemptKeeps
    <2>2. CASE Start(t)  BY <2>2, StartKeeps
    <2>3. CASE CaptureSucceeds(t)  BY <2>3, SucceedKeeps
    <2>4. CASE Check(t)  BY <2>4, MoveKeeps DEF Places, Check
    <2>5. CASE TooEarly(t)  BY <2>5, MoveKeeps DEF Places, TooEarly
    <2>6. CASE Send(t)  BY <2>6, MoveKeeps DEF Places, Send
    <2>7. CASE Redirected(t)  BY <2>7, MoveKeeps DEF Places, Redirected
    <2>8. CASE Decoded(t)  BY <2>8, MoveKeeps DEF Places, Decoded
    <2>9. CASE Answered(t)  BY <2>9, MoveKeeps DEF Places, Answered
    <2>10. CASE QueryFails(t)  BY <2>10, MoveKeeps DEF Places, QueryFails
    <2>11. CASE BackedOff(t)  BY <2>11, MoveKeeps DEF Places, BackedOff
    <2>12. CASE LeaveCancelled(t)
      BY <2>12, MoveKeeps DEF Places, LeaveCancelled, Abandon
    <2>13. CASE \E f \in Failures : Fails(t, f)  BY <2>13, FailsKeeps
    <2> QED  BY <1>1, <2>1, <2>2, <2>3, <2>4, <2>5, <2>6, <2>7, <2>8, <2>9, <2>10, <2>11, <2>12, <2>13 DEF GateStep
  <1>2. CASE Cancel
    BY <1>2 DEF Cancel, GateInv, GateTypeOK, AttemptsLeft, PacingInv, gate, loop, history
  <1>3. CASE NextBatch  BY <1>3, NextBatchKeeps
  <1>4. CASE Tick  BY <1>4, TickKeeps
  <1>5. CASE UNCHANGED gateVars
    BY <1>5 DEF gateVars, GateInv, GateTypeOK, AttemptsLeft, PacingInv, gate, loop, history
  <1> QED  BY <1>1, <1>2, <1>3, <1>4, <1>5 DEF GateNext

(* The strengthened invariant, in every run: what the gate's deadlines say  *)
(* agrees with when starts and advice really were (pace_requests.py).       *)
THEOREM InductiveInvariant == GateSpec => []GateInv
  <1> QED  BY InitGateInv, NextIInv, PTL DEF GateSpec

----------------------------------------------------------------------------
(* A thread is granted a start by the gate and by nothing else. *)
LEMMA OnlyStartGrants ==
    ASSUME GateTypeOK, [GateNext]_gateVars, NEW t \in Threads, Granted(t)
    PROVE  Start(t)
  <1>1. at[t] = "checked" /\ at'[t] = "granted" /\ at \in [Threads -> Places]
    BY DEF Granted, GateTypeOK
  <1>2. ASSUME NEW u \in Threads, GateStep(u) PROVE Start(t)
    <2>1. \E place \in Places : Goes(u, place)
      BY <1>2
      DEF GateStep, Attempt, Check, Start, TooEarly, Send, Redirected, Decoded, CaptureSucceeds, Answered,
          QueryFails, BackedOff, LeaveCancelled, Fails, NextCapture, Abandon, Goes, Places
    <2>2. u = t
      BY <1>1, <2>1 DEF Goes
    <2>3. Start(t) \/ TooEarly(t)
      BY <1>1, <1>2, <2>2
      DEF GateStep, Attempt, Check, Send, Redirected, Decoded, CaptureSucceeds, Answered, QueryFails,
          BackedOff, LeaveCancelled, Fails
    <2>4. ~TooEarly(t)
      BY <1>1 DEF TooEarly, Goes
    <2> QED  BY <2>3, <2>4
  <1>3. ~Cancel /\ ~Tick /\ ~(UNCHANGED gateVars)
    BY <1>1 DEF Cancel, Tick, gateVars
  <1>4. ~NextBatch
    BY <1>1 DEF NextBatch
  <1> QED  BY <1>2, <1>3, <1>4 DEF GateNext

(* Every variable keeps its type, whatever the threads and intervals are;   *)
(* no capture is attempted more often than allowed (fetch_capture, l.32-85) *)
THEOREM TypeCorrect == GateSpec => []GateTypeOK
  <1>1. GateInv => GateTypeOK  BY DEF GateInv
  <1> QED  BY InductiveInvariant, <1>1, PTL

(* Any two starts of any threads are Interval apart, and two CDX starts     *)
(* CdxInterval (StartGate.wait, l.43-60).                                   *)
THEOREM PacedForever == GateSpec => StartsPaced
  <1>1. ASSUME GateInv, [GateNext]_gateVars, NEW t \in Threads, Granted(t)
        PROVE  sinceStart >= Interval /\ (t \in Cdx => sinceCdx >= CdxInterval)
    <2>1. Open(t)  BY <1>1, OnlyStartGrants DEF GateInv, Start
    <2>2. /\ sinceStart + nextStart >= Interval /\ sinceCdx + endpointStart >= CdxInterval
          /\ sinceStart \in Nat /\ sinceCdx \in Nat
      BY <1>1, Times DEF GateInv, PacingInv, GateTypeOK
    <2> QED  BY <2>1, <2>2, Times DEF Open
  <1>2. GateInv /\ [GateNext]_gateVars =>
          [ \A t \in Threads : Granted(t) =>
              sinceStart >= Interval /\ (t \in Cdx => sinceCdx >= CdxInterval) ]_gateVars
    BY <1>1
  <1> QED  BY InductiveInvariant, <1>2, PTL DEF GateSpec, StartsPaced

(* A start is granted only when every Retry-After received has run out,     *)
(* whichever failure came last (StartGate.pause, l.70-85).                  *)
THEOREM AdviceIsKept == GateSpec => AdviceKept
  <1>1. ASSUME GateInv, [GateNext]_gateVars, NEW t \in Threads, Granted(t)
        PROVE  advised = 0
    <2>1. blockedUntil = 0  BY <1>1, OnlyStartGrants DEF GateInv, Start, Open
    <2>2. advised <= blockedUntil /\ advised \in Nat  BY <1>1 DEF GateInv, PacingInv, GateTypeOK
    <2> QED  BY <2>1, <2>2
  <1>2. GateInv /\ [GateNext]_gateVars => [ \A t \in Threads : Granted(t) => advised = 0 ]_gateVars
    BY <1>1
  <1> QED  BY InductiveInvariant, <1>2, PTL DEF GateSpec, AdviceKept

(* The escalation level moves only outside a cooldown, and falls only when  *)
(* a decoded download is noted (note_success, pause).                       *)
THEOREM LevelObeysRules == GateSpec => LevelRules
  <1> DEFINE Rule == level' # level =>
               /\ blockedUntil = 0
               /\ level' < level => \E t \in Playback : at[t] = "decoded" /\ at'[t] = "ready"
  <1>1. ASSUME GateInv, NEW t \in Threads, CaptureSucceeds(t) PROVE Rule
    <2>1. level' # level => blockedUntil = 0
      BY <1>1 DEF CaptureSucceeds, NoteSuccess, GateInv, GateTypeOK
    <2>2. at[t] = "decoded" /\ at'[t] = "ready"
      BY <1>1 DEF CaptureSucceeds, NextCapture, Goes, GateInv, GateTypeOK
    <2>3. t \in Playback
      BY <1>1 DEF CaptureSucceeds
    <2> QED  BY <2>1, <2>2, <2>3
  <1>2. ASSUME GateInv, NEW t \in Threads, NEW f \in Failures, Fails(t, f) PROVE Rule
    <2>1. CASE PausesPool(f)
      <3>1. level' # level => blockedUntil = 0 /\ level' >= level /\ level' \in Nat
        BY <1>2, <2>1, PauseKeeps, AdviceIsTime DEF Fails, GateInv
      <3>2. level \in Nat  BY <1>2, Times DEF GateInv, GateTypeOK
      <3> QED  BY <3>1, <3>2
    <2>2. CASE ~PausesPool(f)
      BY <1>2, <2>2 DEF Fails
    <2> QED  BY <2>1, <2>2
  <1>3. ASSUME GateInv, NEW t \in Threads, GateStep(t) PROVE Rule
    <2>1. CASE level' = level
      BY <2>1
    <2>2. CASE level' # level
      <3>1. CaptureSucceeds(t) \/ \E f \in Failures : Fails(t, f)
        BY <1>3, <2>2
        DEF GateStep, Attempt, Check, Start, TooEarly, Send, Redirected, Decoded, Answered,
            QueryFails, BackedOff, LeaveCancelled, gate
      <3> QED  BY <1>1, <1>2, <1>3, <3>1
    <2> QED  BY <2>1, <2>2
  <1>4. Cancel \/ NextBatch \/ Tick => level' = level
    BY DEF Cancel, NextBatch, Tick, gate
  <1>5. GateInv /\ [GateNext]_gateVars => [Rule]_gateVars
    BY <1>3, <1>4 DEF GateNext
  <1> QED  BY InductiveInvariant, <1>5, PTL DEF GateSpec, LevelRules
============================================================================
