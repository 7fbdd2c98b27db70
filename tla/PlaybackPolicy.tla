--------------------------- MODULE PlaybackPolicy ---------------------------
(***************************************************************************)
(* The decisions of src/playback that keep no state of their own: where    *)
(* the queue goes when an item ends or a client steps it, whether a        *)
(* finished backend is believed, and whether a paused item sits at its     *)
(* known end.  A queue is a record with fields base, active and index; as  *)
(* in the code index is 0-based and -1 when no position is defined, so the *)
(* item at index i is active[i + 1].  Durations, positions and deltas are  *)
(* whole numbers of one time quantum.                                      *)
(***************************************************************************)
EXTENDS Integers, Sequences

CONSTANTS AcceptRemaining,  \* kAcceptFinishRemainingSeconds
          ConfirmAfter,     \* kEarlyPositionFinishConfirmationSeconds
          PendingStep,      \* the most one tick adds to finish_pending_seconds
          ElapsedCap        \* the model's clock saturates here

ASSUME PolicyAssumption ==
    /\ AcceptRemaining \in Nat
    /\ ConfirmAfter \in Nat \ {0}
    /\ PendingStep \in Nat \ {0}
    /\ ElapsedCap \in Nat

NoIndex == -1
NoPosition == -1

Least(a, b) == IF a < b THEN a ELSE b

Saturated(seconds) == Least(seconds, ElapsedCap)

LastIndex(queue) == Len(queue.active) - 1

InQueue(queue, i) == 0 <= i /\ i < Len(queue.active)

Clamped(n, last) == IF n < 0 THEN 0 ELSE Least(n, last)

\* Mutant: the queue wraps whether or not it repeats.
NextIndexAlwaysWraps(queue, session) ==
    IF queue.active = <<>> \/ queue.index < 0 THEN NoIndex
    ELSE IF queue.index < LastIndex(queue) THEN queue.index + 1
    ELSE 0

NextIndexAfterFinish(queue, session) ==
    IF queue.active = <<>> \/ queue.index < 0 THEN NoIndex
    ELSE IF session.repeatOne THEN Clamped(queue.index, LastIndex(queue))
    ELSE IF queue.index < LastIndex(queue) THEN queue.index + 1
    ELSE IF session.repeatAll THEN 0
    ELSE NoIndex

\* Stepping wraps under repeat-all and sticks to the ends otherwise.
SteppedIndex(queue, session, delta) ==
    LET next == queue.index + delta
        last == LastIndex(queue)
    IN  IF next < 0 THEN IF session.repeatAll THEN last ELSE 0
        ELSE IF next > last THEN IF session.repeatAll THEN 0 ELSE last
        ELSE next

ResetFinishPending(session) ==
    [session EXCEPT !.finishPending = FALSE, !.pendingFor = 0]

(***************************************************************************)
(* The finish gate: a backend that reports Finished is believed when the   *)
(* duration is unknown or the observed position is near the end.  An early *)
(* finish is deferred; with a reliable position it is rejected once it has *)
(* been pending for ConfirmAfter, without one the session clock itself     *)
(* runs on towards the end while the session is playing.                   *)
(***************************************************************************)
Observed(session, duration, position) ==
    Least(IF position = NoPosition THEN session.elapsed ELSE position, duration)

\* Mutant: the remaining time is compared off by one quantum.
FinishAcceptedEarly(session, duration, position) ==
    \/ duration = 0
    \/ duration - Observed(session, duration, position) <= AcceptRemaining + 1

FinishAccepted(session, duration, position) ==
    \/ duration = 0
    \/ duration - Observed(session, duration, position) <= AcceptRemaining

PendingAfter(session, delta) ==
    Least(session.pendingFor + Least(delta, PendingStep), ConfirmAfter)

FinishRejected(session, duration, position, delta) ==
    /\ ~FinishAccepted(session, duration, position)
    /\ position # NoPosition
    /\ PendingAfter(session, delta) >= ConfirmAfter

AcceptedFinish(session, duration, position) ==
    IF duration = 0 THEN session
    ELSE [session EXCEPT !.elapsed = Observed(session, duration, position)]

\* Mutant: the time a finish has been pending is not accumulated.
PendingFinishUntimed(session, duration, position, delta) ==
    [session EXCEPT !.finishPending = TRUE,
                    !.elapsed = Observed(session, duration, position)]

PendingFinish(session, duration, position, delta) ==
    LET seen == Observed(session, duration, position)
    IN  [session EXCEPT
           !.finishPending = TRUE,
           !.pendingFor = PendingAfter(session, delta),
           !.elapsed = IF position # NoPosition THEN seen
                       ELSE IF session.status = "Playing"
                            THEN Least(duration, seen + delta)
                            ELSE session.elapsed]

\* The session clock follows the backend's position when it reports one.
ClockAdvanced(session, position, delta) ==
    IF session.status # "Playing" THEN session
    ELSE [session EXCEPT !.elapsed =
            Saturated(IF position = NoPosition THEN @ + delta ELSE position)]

\* A paused item without audio restarts rather than seeks at its known end.
AtKnownEnd(session, duration) == duration > 0 /\ session.elapsed >= duration
=============================================================================
