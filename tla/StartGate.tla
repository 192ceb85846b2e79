----------------------------- MODULE StartGate -----------------------------
(***************************************************************************)
(* The gate every HTTP send of a run goes through (runtime/pace_requests), *)
(* with the threads that use it: playback workers in fetch_capture's retry *)
(* loop, and the Wayback CDX query, which has a longer interval of its     *)
(* own.  Each thread may lose the processor between any two steps.         *)
(*                                                                         *)
(* The gate's deadlines are kept as the time left until them, so that a    *)
(* Tick of the clock brings all of them nearer.  Times are in units of the *)
(* smallest one that matters.                                              *)
(***************************************************************************)
EXTENDS Naturals, FiniteSets

CONSTANTS
    Playback, Cdx,       (* threads that fetch captures, and query the CDX *)
    Interval,            (* 1 / starts_per_second                          *)
    CdxInterval,         (* CDX_REQUEST_INTERVAL_SECONDS                   *)
    Cooldown,            (* BACKPRESSURE_COOLDOWN_SECONDS                  *)
    MaxCooldown,         (* MAX_BACKPRESSURE_COOLDOWN_SECONDS              *)
    RetryAfters,         (* Retry-After values a source sends; 0 for none  *)
    MaxAttempts,         (* attempts per capture                           *)
    MaxLevel             (* bound: levels told apart, at the cap or beyond *)

Threads == Playback \cup Cdx

ASSUME GateAssumption ==
    /\ IsFiniteSet(Threads) /\ Playback \cap Cdx = {}
    /\ Interval \in Nat /\ CdxInterval \in Nat
    /\ Cooldown \in Nat \ {0} /\ MaxCooldown \in Nat \ {0}
    /\ RetryAfters \subseteq Nat
    /\ MaxAttempts \in Nat \ {0}
    /\ MaxLevel \in Nat /\ Cooldown * MaxLevel >= MaxCooldown

VARIABLES
    nextStart, endpointStart, blockedUntil,  \* StartGate, as time left
    level,
    at,                     \* where each thread is, in Places
    attempt, timeouts,      \* fetch_capture's loop
    batchCancelled,              \* the batch's event
    sinceStart, sinceCdx,   \* history: time since a start, since a CDX start
    advised                 \* history: time left of the longest advice received

gate == <<nextStart, endpointStart, blockedUntil, level>>
loop == <<attempt, timeouts>>
history == <<sinceStart, sinceCdx, advised>>
gateVars == <<gate, at, loop, batchCancelled, history>>

AtLeast(x, y) == IF x < y THEN y ELSE x
Sooner(x, y) == IF x < y THEN x ELSE y
Less1(x) == IF x = 0 THEN 0 ELSE x - 1

(* linear_backpressure_delay *)
Delay(l, retryAfter) == AtLeast(retryAfter, Sooner(Cooldown * l, MaxCooldown))

Places == {"ready", "gate", "checked", "granted", "sent", "decoded", "backoff", "over"}

GateInit ==
    /\ nextStart = 0 /\ endpointStart = 0 /\ blockedUntil = 0 /\ level = 0
    /\ at = [t \in Threads |-> "ready"]
    /\ attempt = [t \in Threads |-> 0] /\ timeouts = [t \in Threads |-> 0]
    /\ batchCancelled = FALSE
    /\ sinceStart = Interval /\ sinceCdx = CdxInterval /\ advised = 0

Goes(t, place) == at' = [at EXCEPT ![t] = place]

(* check_cancelled: the batch of playback threads has been cancelled. *)
Stopped(t) == batchCancelled /\ t \in Playback

(***************************************************************************)
(* The gate                                                                *)
(***************************************************************************)
(* An attempt, or the next redirect or page of one, comes to the gate.     *)
Attempt(t) ==
    /\ at[t] = "ready" /\ ~Stopped(t)
    /\ Goes(t, "gate")
    /\ attempt' = [attempt EXCEPT ![t] = IF t \in Playback THEN @ + 1 ELSE @]
    /\ UNCHANGED <<gate, timeouts, batchCancelled, history>>

(* Broken variant: the endpoint's own interval is not waited for. *)
OpenForAll(t) == nextStart = 0 /\ blockedUntil = 0

Open(t) ==
    /\ nextStart = 0 /\ blockedUntil = 0
    /\ t \in Cdx => endpointStart = 0

(* wait: look whether the batch is cancelled, before taking the lock.     *)
Check(t) ==
    /\ at[t] = "gate" /\ ~Stopped(t)
    /\ Goes(t, "checked")
    /\ UNCHANGED <<gate, loop, batchCancelled, history>>

(* Check the deadlines and reserve the next slots under one lock; by now   *)
(* the batch may have been cancelled.                                      *)
Start(t) ==
    /\ at[t] = "checked" /\ Open(t)
    /\ Goes(t, "granted")
    /\ nextStart' = Interval
    /\ endpointStart' = IF t \in Cdx THEN CdxInterval ELSE endpointStart
    /\ sinceStart' = 0
    /\ sinceCdx' = IF t \in Cdx THEN 0 ELSE sinceCdx
    /\ UNCHANGED <<blockedUntil, level, loop, batchCancelled, advised>>

(* Too early: the lock is released, the thread sleeps and checks again.    *)
TooEarly(t) ==
    /\ at[t] = "checked" /\ ~Open(t)
    /\ Goes(t, "gate")
    /\ UNCHANGED <<gate, loop, batchCancelled, history>>

(* The thread that was granted a start sends, now or when it runs again.   *)
Send(t) ==
    /\ at[t] = "granted" /\ ~Stopped(t)
    /\ Goes(t, "sent")
    /\ UNCHANGED <<gate, loop, batchCancelled, history>>

Redirected(t) ==
    /\ at[t] = "sent" /\ Goes(t, "gate")
    /\ UNCHANGED <<gate, loop, batchCancelled, history>>

(* Broken variant: the last failure decides how long. *)
PauseLast(retryAfter) ==
    /\ level' = IF blockedUntil = 0 THEN Sooner(level + 1, MaxLevel) ELSE level
    /\ blockedUntil' = Delay(level', retryAfter)
    /\ advised' = AtLeast(advised, retryAfter)

(* pause: failures during a cooldown share its level and never shorten it. *)
Pause(retryAfter) ==
    /\ level' = IF blockedUntil = 0 THEN Sooner(level + 1, MaxLevel) ELSE level
    /\ blockedUntil' = AtLeast(blockedUntil, Delay(level', retryAfter))
    /\ advised' = AtLeast(advised, retryAfter)

(* note_success: a completion during a cooldown does not count. *)
NoteSuccess == level' = IF blockedUntil > 0 THEN level ELSE 0

(***************************************************************************)
(* fetch_capture: what becomes of an attempt                               *)
(***************************************************************************)
NextCapture(t) ==
    /\ Goes(t, "ready")
    /\ attempt' = [attempt EXCEPT ![t] = 0] /\ timeouts' = [timeouts EXCEPT ![t] = 0]

Abandon(t) == Goes(t, "over") /\ UNCHANGED loop

(* Downloaded and decoded, and the batch not cancelled so far. *)
Decoded(t) ==
    /\ at[t] = "sent" /\ t \in Playback
    /\ Goes(t, IF Stopped(t) THEN "over" ELSE "decoded")
    /\ UNCHANGED <<gate, loop, batchCancelled, history>>

(* Only then is the success noted, whatever has happened since.            *)
CaptureSucceeds(t) ==
    /\ at[t] = "decoded" /\ t \in Playback /\ NextCapture(t) /\ NoteSuccess
    /\ UNCHANGED <<nextStart, endpointStart, blockedUntil, batchCancelled, history>>

(* A CDX query has its page. *)
Answered(t) ==
    /\ at[t] = "sent" /\ t \in Cdx /\ Goes(t, "ready")
    /\ UNCHANGED <<gate, loop, batchCancelled, history>>

(* What interpret_wayback_failures makes of an error: the kind of signal it *)
(* carries, the delay the source asked for, and whether a retry may help.  *)
Failures == [kind : {"http", "tcp", "timeout", "other"}, after : RetryAfters, retryable : BOOLEAN]
PausesPool(f) == f.kind \in {"http", "tcp"}
AskedFor(f) == IF f.kind = "tcp" THEN Cooldown ELSE f.after

(* The second timeout gives a capture up, whatever attempts are left. *)
MayRetry(t, f) ==
    f.retryable /\ attempt[t] < MaxAttempts /\ ~(f.kind = "timeout" /\ timeouts[t] = 1)

(* A cooldown applies even when the batch has been cancelled meanwhile; a  *)
(* failure that pauses nobody is waited out by its own thread.             *)
Fails(t, f) ==
    /\ at[t] = "sent" /\ t \in Playback
    /\ IF PausesPool(f) THEN Pause(AskedFor(f)) ELSE UNCHANGED <<blockedUntil, level, advised>>
    /\ IF Stopped(t) THEN Abandon(t)
       ELSE IF MayRetry(t, f)
       THEN /\ Goes(t, IF PausesPool(f) THEN "ready" ELSE "backoff") /\ UNCHANGED attempt
            /\ timeouts' = IF f.kind = "timeout" THEN [timeouts EXCEPT ![t] = 1] ELSE timeouts
       ELSE NextCapture(t)
    /\ UNCHANGED <<nextStart, endpointStart, batchCancelled, sinceStart, sinceCdx>>

(* A failed CDX query pauses only itself. *)
QueryFails(t) ==
    /\ at[t] = "sent" /\ t \in Cdx /\ Goes(t, "backoff")
    /\ UNCHANGED <<gate, loop, batchCancelled, history>>

BackedOff(t) ==
    /\ at[t] = "backoff" /\ ~Stopped(t) /\ Goes(t, "ready")
    /\ UNCHANGED <<gate, loop, batchCancelled, history>>

(* Sleeping or about to send, a thread notices that its batch is cancelled. *)
LeaveCancelled(t) ==
    /\ at[t] \in {"ready", "gate", "granted", "backoff"} /\ Stopped(t)
    /\ Abandon(t)
    /\ UNCHANGED <<gate, batchCancelled, history>>

(***************************************************************************)
(* The batch, and the clock                                                *)
(***************************************************************************)
Cancel ==
    /\ ~batchCancelled /\ batchCancelled' = TRUE
    /\ UNCHANGED <<gate, at, loop, history>>

(* The next year's batch finds the gate as the last one left it. *)
NextBatch ==
    /\ batchCancelled /\ \A t \in Playback : at[t] = "over"
    /\ batchCancelled' = FALSE
    /\ at' = [t \in Threads |-> IF t \in Playback THEN "ready" ELSE at[t]]
    /\ attempt' = [t \in Threads |-> 0] /\ timeouts' = [t \in Threads |-> 0]
    /\ UNCHANGED <<gate, history>>

Tick ==
    /\ nextStart' = Less1(nextStart) /\ endpointStart' = Less1(endpointStart)
    /\ blockedUntil' = Less1(blockedUntil)
    /\ sinceStart' = Sooner(sinceStart + 1, Interval)
    /\ sinceCdx' = Sooner(sinceCdx + 1, CdxInterval)
    /\ advised' = Less1(advised)
    /\ UNCHANGED <<level, at, loop, batchCancelled>>

GateStep(t) ==
    \/ Attempt(t) \/ Check(t) \/ Start(t) \/ TooEarly(t) \/ Send(t) \/ Redirected(t)
    \/ Decoded(t) \/ CaptureSucceeds(t) \/ Answered(t) \/ QueryFails(t)
    \/ BackedOff(t) \/ LeaveCancelled(t)
    \/ \E f \in Failures : Fails(t, f)

GateNext == (\E t \in Threads : GateStep(t)) \/ Cancel \/ NextBatch \/ Tick

GateSpec == GateInit /\ [][GateNext]_gateVars

----------------------------------------------------------------------------
(***************************************************************************)
(* Properties                                                              *)
(***************************************************************************)

(* Every variable holds a value the code can give it. *)
GateTypeOK ==
    /\ nextStart \in 0..Interval /\ endpointStart \in 0..CdxInterval
    /\ blockedUntil \in Nat /\ level \in 0..MaxLevel
    /\ at \in [Threads -> Places]
    /\ attempt \in [Threads -> 0..MaxAttempts] /\ timeouts \in [Threads -> 0..1]
    /\ batchCancelled \in BOOLEAN
    /\ sinceStart \in 0..Interval /\ sinceCdx \in 0..CdxInterval
    /\ advised \in Nat

Granted(t) == at[t] = "checked" /\ at'[t] = "granted"

(* Two starts are Interval apart, whichever threads they are granted to,   *)
(* and two CDX starts CdxInterval; neither an idle time nor the end of a   *)
(* cooldown lets a burst through.  (wait, l.43-60)                         *)
StartsPaced ==
    [][ \A t \in Threads : Granted(t) =>
            sinceStart >= Interval /\ (t \in Cdx => sinceCdx >= CdxInterval) ]_gateVars

(* No start is granted before every Retry-After received has run out, also *)
(* when the failure came during another cooldown, from another thread, or  *)
(* after its batch was cancelled.                                          *)
AdviceKept == [][ \A t \in Threads : Granted(t) => advised = 0 ]_gateVars

(* The level changes only outside a cooldown, and falls only when a        *)
(* decoded download is noted: no timeout, CDX answer, clock tick or new    *)
(* batch clears it.  (pause, l.78-85; note_success, l.62-68)               *)
LevelRules ==
    [][ level' # level =>
          /\ blockedUntil = 0
          /\ level' < level => \E t \in Playback : at[t] = "decoded" /\ at'[t] = "ready" ]_gateVars
============================================================================
