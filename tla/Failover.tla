------------------------------- MODULE Failover --------------------------------
(***************************************************************************)
(* The pure failover state machine of src/failover.rs: how one attempt's   *)
(* outcome bears on the next, and the record, one per call, that decides   *)
(* which endpoint is tried next, after which pause, and when to stop.      *)
(*                                                                         *)
(* A method of Failover that mutates self is an operator from the record   *)
(* before to the record after.  A status code and the label of a transport *)
(* failure share one domain of strings, as RetryReason::label has them.    *)
(***************************************************************************)
EXTENDS RetryPolicy, Sequences

CONSTANT MaxCount  \* the largest u32, at which attempts and pauses saturate

ASSUME MaxCountAssumption == MaxCount \in Nat \ {0}

\* A Stop is not an absent one.
ASSUME StopAssumption == None \notin {"Raw", "Exhausted", "NothingSent"}

-----------------------------------------------------------------------------
(* Outcomes.                                                               *)

Rotation(reason, retryAfter) ==
    [kind |-> "Rotate", reason |-> reason, retry_after |-> retryAfter]

InPlace(reason, retryAfter) ==
    [kind |-> "Retry", reason |-> reason, retry_after |-> retryAfter]

Final == [kind |-> "Final", reason |-> None, retry_after |-> None]

\* Mutant: an accepted status is an answer even when it is listed.
OfStatusAcceptedFirst(status, retryAfter, accepted, retryOn) ==
    IF accepted THEN Final
    ELSE IF status \in retryOn THEN Rotation(status, retryAfter)
    ELSE IF StatusIsRetriable(status, retryAfter) THEN InPlace(status, retryAfter)
    ELSE Final

\* A listed status rotates, accepted or not; the rest retry in place when
\* they are retriable by default.
OfStatus(status, retryAfter, accepted, retryOn) ==
    IF status \in retryOn THEN Rotation(status, retryAfter)
    ELSE IF ~accepted /\ StatusIsRetriable(status, retryAfter)
         THEN InPlace(status, retryAfter)
         ELSE Final

\* A connect timeout is both a connect failure and a timeout: it is the first.
OfTransport(connect, timeout) ==
    IF connect THEN Rotation("connect", None)
    ELSE IF timeout THEN Rotation("timeout", None)
    ELSE Final

\* Mutant: the retry in place is taken for the rotation.
IsRetryInPlace(outcome) == outcome.kind = "Retry"

IsRotation(outcome) == outcome.kind = "Rotate"

\* Mutant: a timeout counts as never having reached the endpoint.
NoAnswerProves(reason) == reason \in {"connect", "timeout", "421"}

\* RetryReason::proves_not_processed, and a trace of nothing but such reasons.
ProvesNotProcessed(reason) == reason \in {"connect", "421"}

TraceProvesNotProcessed(trace) ==
    \A i \in DOMAIN trace : ProvesNotProcessed(trace[i].outcome)

-----------------------------------------------------------------------------
(* The record.                                                             *)
(*                                                                         *)
(* cycle is the Option<Option<Duration>> cycle_retry_after: << >> is       *)
(* nothing yet, << None >> that some rotation of this cycle came without   *)
(* a Retry-After, << d >> the smallest when every one came with one.       *)

New(len, start) ==
    [len      |-> Greatest(len, 1),
     current  |-> start % Greatest(len, 1),
     attempts |-> 0,
     pauses   |-> 0,
     streak   |-> 0,
     cycle    |-> << >>,
     pending  |-> None,
     trace    |-> << >>]

SaturatingInc(n) == Least(n + 1, MaxCount)

\* Out of budget: the trace once the call has rotated, else the last outcome.
Spent(f) ==
    IF \E i \in DOMAIN f.trace : f.trace[i].rotated THEN "Exhausted" ELSE "Raw"

RotationPending(f) == f.pending # None /\ f.pending.kind = "Rotation"

\* Why Failover::begin refuses an attempt, given that the deadline has passed.
BeginStop(f) == IF f.attempts = 0 THEN "NothingSent" ELSE Spent(f)

\* Failover::begin otherwise: the attempt, and the record once it is made.
\* Only now does the pending rotation count as one.
NextAttempt(f) ==
    [endpoint |-> f.current,
     number   |-> SaturatingInc(f.attempts),
     resend   |-> f.pending]

\* Mutant: every re-send marks the attempt before it as rotated.
BegunMarkingAll(f) ==
    [f EXCEPT !.attempts = SaturatingInc(@),
              !.pending  = None,
              !.trace    = IF f.pending # None /\ f.trace # << >>
                           THEN [f.trace EXCEPT ![Len(f.trace)].rotated = TRUE]
                           ELSE f.trace]

Begun(f) ==
    [f EXCEPT !.attempts = SaturatingInc(@),
              !.pending  = None,
              !.trace    = IF RotationPending(f) /\ f.trace # << >>
                           THEN [f.trace EXCEPT ![Len(f.trace)].rotated = TRUE]
                           ELSE f.trace]

-----------------------------------------------------------------------------
(* Failover::after.  The answer is the record after, why the call stops    *)
(* (None when it goes on), and the pause before the next attempt (None for *)
(* at once).                                                               *)

Halt(f, why)    == [failover |-> f, stop |-> why,  pause |-> None]
GoOn(f, pause)  == [failover |-> f, stop |-> None, pause |-> pause]

Resending(step, resend) == [step EXCEPT !.failover.pending = resend]

\* Mutant: the backoff starts one step behind.
TakePauseOneBehind(f, policy, retryAfter, draw, remaining) ==
    LET pause == IF retryAfter # None
                 THEN FitsBefore(retryAfter, remaining)
                 ELSE Pause(policy, f.pauses, draw, remaining)
    IN  IF pause = None THEN Halt(f, Spent(f))
        ELSE GoOn([f EXCEPT !.pauses = SaturatingInc(@)], pause)

TakePause(f, policy, retryAfter, draw, remaining) ==
    LET pause == IF retryAfter # None
                 THEN FitsBefore(retryAfter, remaining)
                 ELSE Pause(policy, SaturatingInc(f.pauses), draw, remaining)
    IN  IF pause = None THEN Halt(f, Spent(f))
        ELSE GoOn([f EXCEPT !.pauses = SaturatingInc(@)], pause)

\* Mutant: the latest Retry-After of the cycle wins.
LatestRetryAfter(f, retryAfter) == retryAfter

\* The smallest Retry-After of the cycle so far, None once one had none.
CycleRetryAfter(f, retryAfter) ==
    IF f.cycle = << >> THEN retryAfter
    ELSE IF None \in {f.cycle[1], retryAfter} THEN None
    ELSE Least(f.cycle[1], retryAfter)

\* Mutant: one rotation too many before the pause.
EndsCycleLate(f) == (f.streak + 1) % (f.len + 1) = 0

EndsCycle(f) == (f.streak + 1) % f.len = 0

\* Mutant: the index of the next endpoint does not wrap around.
RotateWithoutWrap(f, policy, reason, retryAfter, draw, remaining) ==
    LET smallest == CycleRetryAfter(f, retryAfter)
        counted  == [f EXCEPT !.streak = @ + 1,
                              !.cycle  = IF EndsCycle(f) THEN << >> ELSE << smallest >>]
        step     == IF EndsCycle(f)
                    THEN TakePause(counted, policy, smallest, draw, remaining)
                    ELSE GoOn(counted, None)
    IN  IF step.stop # None THEN step
        ELSE Resending([step EXCEPT !.failover.current = @ + 1],
                       [kind |-> "Rotation", from |-> f.current, reason |-> reason])

\* On to the next endpoint: at once within a cycle, after a pause at its end.
Rotate(f, policy, reason, retryAfter, draw, remaining) ==
    LET smallest == CycleRetryAfter(f, retryAfter)
        counted  == [f EXCEPT !.streak = @ + 1,
                              !.cycle  = IF EndsCycle(f) THEN << >> ELSE << smallest >>]
        step     == IF EndsCycle(f)
                    THEN TakePause(counted, policy, smallest, draw, remaining)
                    ELSE GoOn(counted, None)
    IN  IF step.stop # None THEN step
        ELSE Resending([step EXCEPT !.failover.current = (@ + 1) % f.len],
                       [kind |-> "Rotation", from |-> f.current, reason |-> reason])

\* Mutant: the streak of rotations survives a retry in place.
RetryKeepingStreak(f, policy, reason, retryAfter, draw, remaining) ==
    LET step == TakePause(f, policy, retryAfter, draw, remaining)
    IN  IF step.stop # None THEN step
        ELSE Resending(step, [kind |-> "Retry", reason |-> reason])

RetryInPlace(f, policy, reason, retryAfter, draw, remaining) ==
    LET step == TakePause([f EXCEPT !.streak = 0, !.cycle = << >>],
                          policy, retryAfter, draw, remaining)
    IN  IF step.stop # None THEN step
        ELSE Resending(step, [kind |-> "Retry", reason |-> reason])

Traced(f, reason) ==
    [f EXCEPT !.trace = Append(@, [endpoint |-> f.current,
                                   outcome  |-> reason,
                                   rotated  |-> FALSE])]

\* Mutant: the last attempt of the budget is not traced.
AfterUntraced(f, outcome, policy, draw, remaining) ==
    LET g == Traced(f, outcome.reason)
    IN  IF outcome.kind = "Final" \/ policy = None THEN Halt(f, "Raw")
        ELSE IF ~ShouldRetry(policy, f.attempts) THEN Halt(f, Spent(f))
        ELSE IF g.len > 1 /\ IsRotation(outcome)
             THEN Rotate(g, policy, outcome.reason, outcome.retry_after, draw, remaining)
             ELSE RetryInPlace(g, policy, outcome.reason, outcome.retry_after,
                               draw, remaining)

\* A policy of None: retries do not apply to the request.
After(f, outcome, policy, draw, remaining) ==
    LET g == Traced(f, outcome.reason)
    IN  IF outcome.kind = "Final" THEN Halt(f, "Raw")
        ELSE IF policy = None THEN Halt(g, "Raw")
        ELSE IF ~ShouldRetry(policy, g.attempts) THEN Halt(g, Spent(g))
        ELSE IF g.len > 1 /\ IsRotation(outcome)
             THEN Rotate(g, policy, outcome.reason, outcome.retry_after, draw, remaining)
             ELSE RetryInPlace(g, policy, outcome.reason, outcome.retry_after,
                               draw, remaining)
=============================================================================
