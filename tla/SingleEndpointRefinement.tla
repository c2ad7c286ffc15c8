----------------------- MODULE SingleEndpointRefinement ------------------------
(***************************************************************************)
(* A call on a client with one endpoint implements SingleEndpoint: the     *)
(* refinement mapping, from ServiceClient's variables to that loop's.      *)
(* Reading a response body is part of having been answered; the trace, the *)
(* observers and the preference are not seen there.                        *)
(***************************************************************************)
EXTENDS ServiceClient

PhaseOf(c) ==
    CASE pc[c] = "begin"                -> "ready"
      [] pc[c] \in {"send", "inflight"} -> "sending"
      [] pc[c] \in {"body", "after"}    -> "answered"
      [] pc[c] = "sleeping"             -> "waiting"
      [] OTHER                          -> pc[c]

\* What a call of client cl may be made with.
ChoiceOf(cl, r) ==
    [policy   |-> IF IsIdempotent(r.method) \/ r.retriable THEN cl.retry ELSE None,
     accept   |-> r.accept,
     retry_on |-> r.retry_on,
     deadline |-> Or(r.deadline, IF cl.retry = None THEN None ELSE cl.retry.deadline)]

\* What the call returned, without the trace.
PlainResult(c) ==
    IF pc[c] # "done" THEN None
    ELSE IF result[c].kind = "DeadlineExceeded" THEN [kind |-> "DeadlineExceeded"]
    ELSE [kind |-> result[c].kind, outcome |-> result[c].outcome]

\* The call that is watched: any one of them.
Watched == CHOOSE c \in Calls : TRUE

OneEndpoint ==
    INSTANCE SingleEndpoint WITH
        Choices    <- {ChoiceOf(cl, r) : cl \in Clients, r \in Requests},
        Statuses   <- {s \in Statuses : ~IsSuccess(s)},
        Successes  <- {s \in Statuses : IsSuccess(s)},
        Samples    <- 0 .. DrawDen - 1,
        choice     <- IF pc[Watched] = "idle" THEN None ELSE ChoiceOf(inner, request[Watched]),
        phase      <- PhaseOf(Watched),
        attempts   <- IF pc[Watched] = "idle" THEN 0 ELSE failover[Watched].attempts,
        left       <- left[Watched],
        nap        <- nap[Watched],
        last       <- last[Watched],
        retryAfter <- IF last[Watched] = None THEN None ELSE outcome[Watched].retry_after,
        result     <- PlainResult(Watched)

\* "With one endpoint every decision is exactly 0.2.0's": a call on a client
\* with no failover endpoint is a behaviour of SingleEndpoint (Failover's
\* documentation, and next_pause's).
SingleEndpointBehaviour == OneEndpoint!Spec
=============================================================================
