---------------------------- MODULE MCRequestBuilder ----------------------------
(***************************************************************************)
(* An instance of RequestBuilder for TLC: few values of each kind, chosen  *)
(* so that the layers of a header meet.                                    *)
(***************************************************************************)
EXTENDS RequestBuilder

MCHeaderNames == PropagatedHeaders \cup {"authorization", "content-type"}

MCUuids == <<"uuid-1", "uuid-2", "uuid-3", "uuid-4">>

Header1(name, value) == [name |-> name, value |-> value]

MCDefaultHeaders == {Header1("authorization", "Basic"), Header1("x-client-id", "default")}

MCHeaders == {Header1("x-client-id", "own"), Header1("content-type", "text/csv"),
              Header1("x-request-id", "own"), Header1("x-span-id", "unfit")}

MCContexts == {With(With(EmptyContext, "x-request-id", "req"), "x-client-id", "opaque"),
               With(With(EmptyContext, "x-trace-id", "trace"), "x-client-id", "unfit")}

Target(method, path, versioned) ==
    [method |-> method, path |-> path, versioned |-> versioned]

MCTargets == {Target("GET", <<"/", "users", "/", "42", "/">>, TRUE),
              Target("POST", <<"/">>, FALSE)}

MCBases == {<<"/", "gateway", "/">>, <<"/", "gateway", "?", "key", "/">>}

MCBasePaths == {<<"api", "/", "internal", "/">>}

MCPolicies == {[deadline |-> 3]}

MCRawBodies == {[body |-> "raw", content_type |-> "text/plain"],
                [body |-> "raw", content_type |-> "unfit"]}

MCQueries == {<<"page", "2">>}
=============================================================================
