------------------------------- MODULE MCBackoff -------------------------------
(***************************************************************************)
(* Instances of Backoff for TLC: integers of a few bits, so that the       *)
(* schedule reaches its cap and saturates within a few attempts, and draws *)
(* on both sides of [0, 1).                                                *)
(***************************************************************************)
EXTENDS Backoff

Scheme(most, base, max, jitter) ==
    [max_attempts |-> most, base_delay |-> base, max_delay |-> max,
     deadline |-> None, jitter |-> jitter]

Called(policy, deadline) ==
    [policy |-> policy, accept |-> {}, retry_on |-> {}, deadline |-> deadline]

\* Whole milliseconds: base 0, base above the cap, a cap the doubling meets
\* exactly, and one it steps over.
WholeChoices ==
    {Called(Scheme(5, b, m, j), d) :
        b \in {0, 1, 3}, m \in {2, 4, 7}, j \in Jitters, d \in {None, 0, 9}}
        \cup {Called(None, 2)}

\* Draws below, inside and above [0, 1), of a denominator of 4.
Sampled == {NaN, -1, 0, 1, 3, 4, 9}
=============================================================================
