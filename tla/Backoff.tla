-------------------------------- MODULE Backoff --------------------------------
(***************************************************************************)
(* SingleEndpoint with the pauses it took kept as a history, and what      *)
(* src/retry.rs says of them: the schedule grows by doubling to max_delay, *)
(* jitter keeps a floor, and a deadline bounds the number of attempts.     *)
(***************************************************************************)
EXTENDS SingleEndpoint, Sequences, FiniteSets

VARIABLE waits  \* the pauses taken, each with the Retry-After it answered

backoffVars == <<vars, waits>>

BackoffInit == Init /\ waits = << >>

Waits == IF phase = "answered" /\ phase' = "waiting"
         THEN Append(waits, [length |-> nap', asked |-> retryAfter])
         ELSE waits

BackoffNext == Next /\ waits' = Waits

BackoffSpec == BackoffInit /\ [][BackoffNext]_backoffVars

-----------------------------------------------------------------------------
(* Properties.                                                             *)

Policy == choice.policy

\* The indices of the pauses the policy computed itself.
Computed == {i \in DOMAIN waits : waits[i].asked = None}

\* base * 2^(n - 1) capped at max_delay, the schedule backoff_delay documents,
\* doubled step by step with no width to overflow and no exponent to clamp.
Doubling[n \in Nat] ==
    IF n = 0 THEN Policy.base_delay
    ELSE Least(2 * Doubling[n - 1], Policy.max_delay)

\* backoff_delay: without jitter a computed pause is the documented schedule's,
\* whatever pauses the server asked for in between, while base_delay and
\* max_delay are whole milliseconds.
UnjitteredPauseFollowsTheSchedule ==
    choice # None /\ waits # << >> =>
        (Policy.jitter = "None" =>
            \A i \in Computed : waits[i].length = Least(Doubling[i - 1], Policy.max_delay))

\* Jitter::Full: a computed pause is never shorter than base_delay, or than
\* max_delay where that is the shorter, and never longer than the schedule's,
\* whatever the draw, NaN and draws outside [0, 1) included.
JitterStaysBetweenFloorAndCeiling ==
    choice # None /\ waits # << >> =>
        \A i \in Computed :
            /\ waits[i].length >= Least(Policy.base_delay, Policy.max_delay)
            /\ waits[i].length <= Least(Doubling[i - 1], Policy.max_delay)

\* Jitter: "the attempt count is always bounded by deadline / base_delay", for
\* a call whose pauses are all computed.
FloorBoundsTheAttempts ==
    choice # None /\ waits # << >> =>
        (choice.deadline # None /\ Computed = DOMAIN waits =>
            Len(waits) * Least(Policy.base_delay, Policy.max_delay) < choice.deadline)

\* The same as it is written, with no exception for pauses a server asked for.
FloorAlwaysBoundsTheAttempts ==
    choice # None /\ waits # << >> =>
        (choice.deadline # None =>
            Len(waits) * Least(Policy.base_delay, Policy.max_delay) < choice.deadline)
=============================================================================
