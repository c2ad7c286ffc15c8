----------------------------- MODULE SingleEndpoint ----------------------------
(***************************************************************************)
(* What src/retry.rs promises of a call to one endpoint: the loop a caller *)
(* that does its own sending writes from wants_retry, next_pause and       *)
(* is_idempotent, which is "the client's decision for a single endpoint".  *)
(* ServiceClient is shown to implement it when its set has one endpoint.   *)
(***************************************************************************)
EXTENDS RetryPolicy

CONSTANTS
    Choices,      \* what a call may be made with: see ChoiceType
    Statuses,     \* the statuses that are not a success
    Successes,    \* the statuses that are
    RetryAfters,  \* what the Retry-After of a response may parse to
    Samples       \* the draws the caller may supply

ChoiceType ==
    [policy   : Option(Policies),
     accept   : SUBSET Statuses,
     retry_on : SUBSET Statuses,
     deadline : Option(Duration)]

ASSUME ChoicesAssumption     == Choices \subseteq ChoiceType
ASSUME RetryAftersAssumption == RetryAfters \subseteq Option(Duration)
ASSUME SamplesAssumption     == Samples \subseteq Draws

VARIABLES
    choice,      \* what the call is made with
    phase,       \* where it is
    attempts,    \* attempts sent
    left,        \* time to the deadline
    nap,         \* time left of the pause
    last,        \* the latest attempt's own result
    retryAfter,  \* the Retry-After that came with it
    result       \* what the call returned

vars == <<choice, phase, attempts, left, nap, last, retryAfter, result>>

Init ==
    /\ choice = None
    /\ phase = "idle"
    /\ attempts = 0
    /\ left = None
    /\ nap = 0
    /\ last = None
    /\ retryAfter = None
    /\ result = None

Start ==
    /\ phase = "idle"
    /\ \E ch \in Choices : choice' = ch /\ left' = ch.deadline
    /\ phase' = "ready"
    /\ UNCHANGED <<attempts, nap, last, retryAfter, result>>

Send ==
    /\ phase = "ready"
    /\ left # 0
    /\ attempts' = attempts + 1
    /\ phase' = "sending"
    /\ UNCHANGED <<choice, left, nap, last, retryAfter, result>>

\* The deadline passed first: the latest result, if there is one.
SendTooLate ==
    /\ phase = "ready"
    /\ left = 0
    /\ result' = IF attempts = 0 THEN [kind |-> "DeadlineExceeded"] ELSE last
    /\ phase' = "done"
    /\ UNCHANGED <<choice, attempts, left, nap, last, retryAfter>>

Succeed ==
    /\ phase = "sending"
    /\ \E status \in Successes : result' = [kind |-> "Ok", outcome |-> status]
    /\ phase' = "done"
    /\ UNCHANGED <<choice, attempts, left, nap, last, retryAfter>>

Respond ==
    /\ phase = "sending"
    /\ \E status \in Statuses :
          last' = [kind    |-> IF status \in choice.accept THEN "Ok" ELSE "Api",
                   outcome |-> status]
    /\ retryAfter' \in RetryAfters
    /\ phase' = "answered"
    /\ UNCHANGED <<choice, attempts, left, nap, result>>

Break ==
    /\ phase = "sending"
    /\ \E how \in {"connect", "timeout", "io"} :
          last' = [kind |-> "Transport", outcome |-> how]
    /\ retryAfter' = None
    /\ phase' = "answered"
    /\ UNCHANGED <<choice, attempts, left, nap, result>>

\* A failed connection and a timeout are retried like a retriable status.
AsksForAnother ==
    IF last.kind = "Transport" THEN last.outcome \in {"connect", "timeout"}
    ELSE WantsRetry(last.outcome, retryAfter, last.outcome \in choice.accept, choice.retry_on)

\* The pause a draw leads to, None to stop.
PauseFor(draw) ==
    IF choice.policy # None /\ AsksForAnother
    THEN NextPause(choice.policy, attempts, draw, retryAfter, left)
    ELSE None

Stop ==
    /\ phase = "answered"
    /\ \E draw \in Samples : PauseFor(draw) = None
    /\ result' = last
    /\ phase' = "done"
    /\ UNCHANGED <<choice, attempts, left, nap, last, retryAfter>>

TakePause ==
    /\ phase = "answered"
    /\ \E draw \in Samples : PauseFor(draw) # None /\ nap' = PauseFor(draw)
    /\ phase' = "waiting"
    /\ UNCHANGED <<choice, attempts, left, last, retryAfter, result>>

Wake ==
    /\ phase = "waiting"
    /\ nap = 0
    /\ phase' = "ready"
    /\ UNCHANGED <<choice, attempts, left, nap, last, retryAfter, result>>

\* The caller gives the call up.
Drop ==
    /\ phase \in {"sending", "answered", "waiting"}
    /\ phase' = "dropped"
    /\ UNCHANGED <<choice, attempts, left, nap, last, retryAfter, result>>

Ticked(t) == IF t \in {None, 0} THEN t ELSE t - 1

Over == phase \in {"done", "dropped"}

Tick ==
    /\ ~Over
    /\ {left, nap} \ {None, 0} # {}
    /\ left' = Ticked(left)
    /\ nap' = Ticked(nap)
    /\ UNCHANGED <<choice, phase, attempts, last, retryAfter, result>>

Terminated == Over /\ UNCHANGED vars

Next ==
    \/ Start \/ Send \/ SendTooLate \/ Succeed \/ Respond \/ Break
    \/ Stop \/ TakePause \/ Wake \/ Drop \/ Tick \/ Terminated

Spec == Init /\ [][Next]_vars
=============================================================================
