----------------------------- MODULE MCEndpointSet ------------------------------
(***************************************************************************)
(* Instances of EndpointSet for TLC: two hosts, one of them in two         *)
(* spellings, with the default port written or not and another one, and a  *)
(* URL of each kind that is refused as an endpoint.                        *)
(***************************************************************************)
EXTENDS EndpointSet

Url(scheme, host, port, has) ==
    [scheme |-> scheme, host |-> host, port |-> port, has |-> has]

LowerCase == [host \in {"a", "A", "b"} |-> IF host = "A" THEN "a" ELSE host]

SomeUrls ==
    {Garbage,
     Url("https", "a", None, {}),
     Url("https", "A", 443, {}),
     Url("https", "a", 80, {}),
     Url("https", "b", None, {}),
     Url("http", "A", 443, {}),
     Url("http", "a", None, {}),
     Url("https", "b", None, {"path", "query"}),
     Url("https", "b", None, {"query", "fragment"}),
     Url("ftp", "b", None, {"user info"})}
=============================================================================
