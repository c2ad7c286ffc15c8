--------------------------- MODULE MCServiceClient -----------------------------
(***************************************************************************)
(* Instances of ServiceClient for TLC: the clients and the requests of     *)
(* each run.  Durations are small, in ticks of one millisecond.            *)
(***************************************************************************)
EXTENDS SingleEndpointRefinement, SetWalkRefinement, TLC

Policy(attempts, base, max, deadline, jitter) ==
    [max_attempts |-> attempts, base_delay |-> base, max_delay |-> max,
     deadline |-> deadline, jitter |-> jitter]

\* slots: e |-> builder timeout, or None for a supplied client.
Client(len, slots, retry, attemptTimeout, observer) ==
    [len |-> len, slots |-> slots, retry |-> retry,
     attempt_timeout |-> attemptTimeout, observer |-> observer]

Request(method, retriable, accept, retryOn, deadline, timeout) ==
    [method |-> method, retriable |-> retriable, accept |-> accept,
     retry_on |-> retryOn, deadline |-> deadline, timeout |-> timeout,
     observer |-> TRUE]

Slots(len, timeout) == [e \in 0 .. len - 1 |-> timeout]

Symmetric == Permutations(Calls)

-----------------------------------------------------------------------------
(* One call over a set of two or three endpoints, with a deadline and      *)
(* timers, and without, where endpoints say when to come back; built and   *)
(* supplied clients, which may redirect out of the set.                    *)

FailoverClients ==
    {Client(2, Slots(2, 2), Policy(4, 1, 2, 3, "Full"), None, TRUE),
     Client(2, Slots(2, None), Policy(4, 1, 4, None, "None"), None, FALSE),
     Client(2, [e \in 0 .. 1 |-> IF e = 0 THEN None ELSE 1],
            Policy(3, 1, 1, 2, "None"), None, FALSE),
     Client(3, Slots(3, None), Policy(5, 1, 1, None, "None"), None, TRUE)}

FailoverRequests ==
    {Request("GET", FALSE, {}, {"421"}, None, None),
     Request("POST", FALSE, {}, {"421"}, None, None),
     Request("POST", TRUE, {"421"}, {"421"}, None, None),
     Request("PUT", FALSE, {"421"}, {"503"}, 2, 1)}

-----------------------------------------------------------------------------
(* One call to one endpoint: with and without a policy, over a built and a *)
(* supplied client.                                                        *)

SingleClients ==
    {Client(1, Slots(1, 2), Policy(3, 1, 2, 3, "Full"), None, TRUE),
     Client(1, Slots(1, None), Policy(3, 1, 2, None, "None"), 1, FALSE),
     Client(1, Slots(1, None), Policy(0, 1, 1, None, "None"), None, FALSE),
     Client(1, Slots(1, 1), None, None, TRUE)}

SingleRequests ==
    {Request("GET", FALSE, {}, {}, None, None),
     Request("GET", FALSE, {"503"}, {"423"}, 2, 1),
     Request("PUT", FALSE, {"423"}, {"423"}, 0, None),
     Request("POST", FALSE, {"423"}, {"503"}, None, None)}

-----------------------------------------------------------------------------
(* Two calls at once over two endpoints, one of them a supplied client.    *)

ConcurrentClients ==
    {Client(2, [e \in 0 .. 1 |-> IF e = 0 THEN 1 ELSE None],
            Policy(2, 0, 0, None, "None"), None, TRUE)}

ConcurrentRequests ==
    {Request("GET", FALSE, {}, {"421"}, None, None),
     Request("POST", FALSE, {}, {"421"}, None, None)}

-----------------------------------------------------------------------------
(* Supplied clients, for the record of an error that is not retried.       *)

SuppliedClients ==
    {Client(2, Slots(2, None), Policy(3, 1, 1, 2, "None"), None, FALSE),
     Client(2, [e \in 0 .. 1 |-> IF e = 0 THEN None ELSE 1],
            Policy(3, 1, 1, None, "None"), None, FALSE)}

SuppliedRequests ==
    {Request("POST", TRUE, {"421"}, {"421", "503"}, None, None),
     Request("GET", FALSE, {}, {"421"}, 2, 1)}
=============================================================================
