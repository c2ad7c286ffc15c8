------------------------------ MODULE MCRedirects -------------------------------
(***************************************************************************)
(* Instances of Redirects for TLC.                                         *)
(***************************************************************************)
EXTENDS Redirects, TLC

Client(len, slots, deadline) ==
    [len |-> len, slots |-> slots,
     retry |-> [max_attempts |-> 3, base_delay |-> 1, max_delay |-> 1,
                deadline |-> deadline, jitter |-> "None"],
     attempt_timeout |-> None, observer |-> FALSE]

Built(len) == [e \in 0 .. len - 1 |-> 1]

\* The second endpoint has an HTTP client of its own.
Mixed == [e \in 0 .. 1 |-> IF e = 0 THEN 1 ELSE None]

Request(accept, observer) ==
    [method |-> "POST", retriable |-> TRUE, accept |-> accept,
     retry_on |-> {"421"}, deadline |-> None, timeout |-> None,
     observer |-> observer]

-----------------------------------------------------------------------------
(* Sets of built clients, of both kinds, and one endpoint.                 *)

RedirectClients ==
    {Client(1, Built(1), None), Client(2, Built(2), None), Client(2, Mixed, 2)}

RedirectRequests == {Request({}, FALSE), Request({"421"}, FALSE)}

-----------------------------------------------------------------------------
(* Two endpoints, built clients, or one of each kind, for a single question.*)

BuiltClients == {Client(2, Built(2), None)}

MixedClients == {Client(2, Mixed, None)}

PlainRequests == {Request({}, FALSE)}
=============================================================================
