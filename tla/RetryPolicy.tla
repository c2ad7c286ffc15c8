------------------------------ MODULE RetryPolicy ------------------------------
(***************************************************************************)
(* The retry rules of src/retry.rs as operators: which attempts may be     *)
(* followed by another, how long the pause before it is, how one attempt's *)
(* timeout is chosen, and which responses ask to be retried.               *)
(*                                                                         *)
(* A Duration is a natural number of ticks.  The backoff is computed, as   *)
(* in the code, in whole milliseconds of TicksPerMs ticks on integers of   *)
(* Width bits.  An Option is its value, or None.                           *)
(*                                                                         *)
(* A random draw is a multiple of 1 / DrawDen, or NaN: DrawDen stands for  *)
(* 2^53, so (DrawDen - 1) / DrawDen is DRAW_MAX.                           *)
(***************************************************************************)
EXTENDS Integers

CONSTANTS
    None,        \* the absent value of every Option
    NaN,         \* the draw that is not a number
    TicksPerMs,  \* resolution of a Duration, in ticks per millisecond
    Width,       \* bits of the machine integer (64 in the code)
    DrawDen      \* the number of distinct draws in [0, 1)

ASSUME NoneAssumption  == None \notin Int
ASSUME TicksAssumption == TicksPerMs \in Nat \ {0}
ASSUME WidthAssumption == Width \in Nat \ {0}
ASSUME DrawAssumption  == DrawDen \in Nat \ {0}

Option(S) == S \cup {None}
Duration  == Nat
Draws     == Int \cup {NaN}

Jitters  == {"None", "Full"}
Policies == [max_attempts : Nat,
             base_delay   : Duration,
             max_delay    : Duration,
             deadline     : Option(Duration),
             jitter       : Jitters]

-----------------------------------------------------------------------------
(* Machine arithmetic.                                                     *)

Least(a, b)    == IF a <= b THEN a ELSE b
Greatest(a, b) == IF a >= b THEN a ELSE b

\* 2 to the n, as a recursive function so that theorems can unfold it.
Pow2[n \in Nat] == IF n = 0 THEN 1 ELSE 2 * Pow2[n - 1]

MaxInt == Pow2[Width] - 1

SaturatingMul(a, b) == Least(a * b, MaxInt)

\* Whole milliseconds of a duration, saturating; and a duration of them.
DurationMs(d)  == Least(d \div TicksPerMs, MaxInt)
FromMillis(ms) == ms * TicksPerMs

-----------------------------------------------------------------------------
(* The pause after an attempt.                                             *)

\* Mutant: the exponent is the attempt's own number.
CeilingOneLate(policy, attempt) ==
    Least(SaturatingMul(DurationMs(policy.base_delay),
                        Pow2[Least(attempt, Width - 1)]),
          DurationMs(policy.max_delay))

\* The exponential ceiling: the exponent is clamped to the integer's width,
\* so the shift itself never overflows, and the product saturates.
CeilingMs(policy, attempt) ==
    LET exponent == Greatest(attempt - 1, 0)
    IN  Least(SaturatingMul(DurationMs(policy.base_delay),
                            Pow2[Least(exponent, Width - 1)]),
              DurationMs(policy.max_delay))

BackoffDelay(policy, attempt) == FromMillis(CeilingMs(policy, attempt))

\* Mutant: a draw is taken as it comes.
Unclamped(draw) == IF draw = NaN THEN 0 ELSE draw

\* The numerator of a draw clamped to [0, DRAW_MAX], NaN counting as 0.
Clamped(draw) == IF draw = NaN THEN 0 ELSE Least(Greatest(draw, 0), DrawDen - 1)

Spread(span, draw) == Least((span * Clamped(draw)) \div DrawDen, span)

\* Mutant: a pause may end exactly at the deadline.
FitsUpTo(pause, remaining) ==
    IF remaining # None /\ pause > remaining THEN None ELSE pause

\* A pause that would end at or after the deadline is refused.
FitsBefore(pause, remaining) ==
    IF remaining # None /\ pause >= remaining THEN None ELSE pause

\* Mutant: full jitter down to nothing, with no floor.
PauseFullJitter(policy, attempt, draw, remaining) ==
    LET ceiling == CeilingMs(policy, attempt)
        ms      == IF policy.jitter = "None" THEN ceiling ELSE Spread(ceiling, draw)
    IN  FitsBefore(FromMillis(ms), remaining)

Pause(policy, attempt, draw, remaining) ==
    LET ceiling == CeilingMs(policy, attempt)
        floor   == Least(DurationMs(policy.base_delay), ceiling)
        ms      == IF policy.jitter = "None" THEN ceiling
                   ELSE floor + Spread(ceiling - floor, draw)
    IN  FitsBefore(FromMillis(ms), remaining)

\* Mutant: max_attempts counts the retries only.
ShouldRetryOnceMore(policy, attempt) == attempt <= Greatest(policy.max_attempts, 1)

ShouldRetry(policy, attempt) == attempt < Greatest(policy.max_attempts, 1)

\* The client's whole decision for one endpoint: None is "stop".
NextPause(policy, attempt, draw, retryAfter, remaining) ==
    IF ~ShouldRetry(policy, attempt) THEN None
    ELSE IF retryAfter # None THEN FitsBefore(retryAfter, remaining)
    ELSE Pause(policy, attempt, draw, remaining)

-----------------------------------------------------------------------------
(* One attempt's timeout, and the responses that ask for another attempt.  *)

Or(option, default) == IF option # None THEN option ELSE default

\* Mutant: the deadline does not reach into an attempt.
ConfiguredTimeout(request, clientAttempt, builder, remaining) ==
    Or(request, clientAttempt)

AttemptTimeout(request, clientAttempt, builder, remaining) ==
    LET configured == Or(request, clientAttempt)
        own        == Or(configured, builder)
    IN  IF remaining = None THEN configured
        ELSE IF own = None THEN remaining
        ELSE Least(own, remaining)

\* Retriable by default: 423 only when the server says when.
StatusIsRetriable(status, retryAfter) ==
    \/ status \in {"429", "502", "503", "504"}
    \/ status = "423" /\ retryAfter # None

WantsRetry(status, retryAfter, accepted, retryOn) ==
    \/ status \in retryOn
    \/ ~accepted /\ StatusIsRetriable(status, retryAfter)

IsIdempotent(method) == method \in {"GET", "HEAD", "DELETE", "PUT"}
=============================================================================
