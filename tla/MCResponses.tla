------------------------------ MODULE MCResponses -------------------------------
(***************************************************************************)
(* An instance of Responses for TLC: the calls of src/client.rs and two    *)
(* more, replies with each header read and unread, and bodies about the    *)
(* length of a snippet in characters of one to four bytes.                 *)
(***************************************************************************)
EXTENDS Responses

MCCalls ==
    {[accept |-> {"503"}, retry_on |-> {"421", "503"}, finish |-> "send", type |-> None],
     [accept |-> {}, retry_on |-> {"421"}, finish |-> "send_json", type |-> "T"]}

Text(number, pad) == [number |-> number, pad |-> pad, seen |-> pad # "no-break space"]

RetryAfterTexts ==
    {None, Text(3, "none"), Text(0, "space"), Text(3, "no-break space"), Text(None, "none"),
     Text(16, "none")}

Jsons ==
    {None, [type |-> "T"], [type |-> "ReadinessResponse"],
     [type |-> "ErrorResponse", code |-> "CODE", status |-> "400"]}

\* Every UTF-8 text of at most six bytes.
Texts == {bytes \in UNION {[1 .. n -> {"first", "rest"}] : n \in 0 .. 6} : IsUtf8(bytes)}

Bodies ==
    {[bytes |-> bytes, json |-> None] : bytes \in Texts}
    \cup {[bytes |-> <<"first", "rest", "rest">>, json |-> json] : json \in Jsons}

MCReplies ==
    [status : {"200", "404", "421", "423", "503"}, body : Bodies,
     retry_after : RetryAfterTexts, limit : {None, Text(5, "space")},
     remaining : {None, Text(0, "none")}, reset : {None, Text(16, "none")}]
=============================================================================
