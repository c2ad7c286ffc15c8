----------------------------- MODULE RequestBuilder -----------------------------
(***************************************************************************)
(* What goes on the wire for a request, and what the send loop is told of  *)
(* it: the setters of ServiceClientBuilder and of RequestBuilder in any    *)
(* order, the URL, the headers and the tracking context (src/client.rs,    *)
(* src/request.rs, src/url.rs, src/context.rs, src/versioning.rs).         *)
(*                                                                         *)
(* A client is built, then requests are made on it, one after the other.   *)
(* ServiceClient decides when a request is sent again; here it may be as   *)
(* often as AttemptBound allows.  A service that received the request may  *)
(* make the next one under the context it was sent, with a client built    *)
(* alike.                                                                  *)
(*                                                                         *)
(* A text of a URL is a sequence of separators and words; a header value   *)
(* is a string, unfit for a header, opaque to a reader, or neither.        *)
(***************************************************************************)
EXTENDS RetryPolicy, SequencesExt

CONSTANTS
    HeaderNames,    \* the header names that occur
    Unfit,          \* the values HeaderValue::from_str refuses
    Opaque,         \* those it takes and HeaderValue::to_str refuses
    Uuids,          \* the UUIDs uuid::Uuid::new_v4 returns, in order
    Bases,          \* base URLs, from what follows the host on
    BasePaths, VersionTexts, DefaultHeaders, Tokens, RetryPolicies,
    Targets,        \* the method, path and versioning of each request
    Contexts, Headers, Queries, JsonBodies, RawBodies, StatusCodes, Durations,
    Observers,
    CallBound,      \* calls of setters and of request, at most
    AttemptBound    \* attempts of a request, at most

PropagatedHeaders ==
    {"x-request-id", "x-trace-id", "x-span-id", "x-correlation-id", "x-client-id"}

ASSUME HeadersAssumption ==
    /\ PropagatedHeaders \cup {"authorization", "content-type"} \subseteq HeaderNames
    /\ \A header \in Headers \cup DefaultHeaders : header.name \in HeaderNames
    /\ \A header \in DefaultHeaders : header.value \notin Unfit

ASSUME ContextsAssumption ==
    \A ctx \in Contexts : ctx = [name \in PropagatedHeaders |-> ctx[name]]

\* A UUID is fit for a header, and new: nobody else writes it as an id.
ASSUME UuidsAssumption ==
    /\ CallBound \in Nat /\ Uuids \in Seq({Uuids[i] : i \in DOMAIN Uuids})
    /\ CallBound <= Len(Uuids)
    /\ \A i, j \in DOMAIN Uuids : i # j => Uuids[i] # Uuids[j]
    /\ \A i \in DOMAIN Uuids :
          /\ Uuids[i] \notin Unfit \cup {None}
          /\ \A header \in Headers \cup DefaultHeaders :
                header.name = "x-request-id" => header.value # Uuids[i]
          /\ \A ctx \in Contexts : ctx["x-request-id"] # Uuids[i]

ASSUME DurationsAssumption == None \notin Durations

\* Two words have a separator between them, a query or fragment its sign
\* before it, and what follows a host begins with one of them.
ASSUME TextsAssumption ==
    LET signs == {"/", "?", "#"}
    IN  /\ \A text \in Bases \cup BasePaths \cup {target.path : target \in Targets} :
              /\ text \in Seq(STRING)
              /\ \A i \in DOMAIN text : i > 1 => text[i - 1] \in signs \/ text[i] \in signs
        /\ \A base \in Bases : base # << >> => base[1] \in signs

VARIABLES
    builder,    \* the ServiceClientBuilder
    client,     \* what build returned, None before
    request,    \* the RequestBuilder, None between requests
    prepared,   \* what execute computed before its loop, None before
    wire,       \* the messages sent for the request
    received,   \* the headers of the message before, at the service it reached
    issued,     \* how many UUIDs were generated
    calls       \* history: the calls made, in order

vars == <<builder, client, request, prepared, wire, received, issued, calls>>

Fit(value) == value \notin Unfit

Readable(value) == value \notin Opaque

-----------------------------------------------------------------------------
(* API versions and URLs.                                                  *)

Spellings == <<{"v1", "V1", "1"}, {"v2", "V2", "2"}, {"v3", "V3", "3"},
               {"v4", "V4", "4"}, {"v5", "V5", "5"}>>

\* ApiVersion::parse: a version is its number.
ParseVersion(text) ==
    IF \E v \in 1 .. 5 : text \in Spellings[v]
    THEN CHOOSE v \in 1 .. 5 : text \in Spellings[v] ELSE None

AsPathSegment(version) == <<"v1", "v2", "v3", "v4", "v5">>[version]

\* What is left of a text without the separators at its end, or at both.
Words(text) == {i \in DOMAIN text : text[i] # "/"}

TrimmedEnd(text) == IF Words(text) = {} THEN << >> ELSE SubSeq(text, 1, Max(Words(text)))

Trimmed(text) ==
    IF Words(text) = {} THEN << >> ELSE SubSeq(text, Min(Words(text)), Max(Words(text)))

\* Mutant: only the end of a part is trimmed.
SegmentUntrimmed(part) == IF Words(part) = {} THEN << >> ELSE <<"/">> \o TrimmedEnd(part)

\* A part with a separator before it, unless nothing is left of it.
Segment(part) == IF Words(part) = {} THEN << >> ELSE <<"/">> \o Trimmed(part)

JoinSegments(parts) ==
    LET joined == FlattenSeq([i \in DOMAIN parts |-> Segment(parts[i])])
    IN  IF joined = << >> THEN <<"/">> ELSE joined

BuildUrl(base, path) == TrimmedEnd(base) \o path

\* RequestBuilder::url_string, from what follows the host on.
UrlString(r) ==
    BuildUrl(client.base_url,
             IF r.versioned
             THEN JoinSegments(<<client.base_path, <<AsPathSegment(client.version)>>, r.path>>)
             ELSE JoinSegments(<<r.path>>))

\* The path of a URL ends at its query or its fragment.
Ends(text) == {i \in DOMAIN text : text[i] \in {"?", "#"}}

PathOf(text) == IF Ends(text) = {} THEN text ELSE SubSeq(text, 1, Min(Ends(text)) - 1)

-----------------------------------------------------------------------------
(* Headers: a value or None for every name.                                *)

NoHeaders == [name \in HeaderNames |-> None]

Overlaid(lower, upper) ==
    [name \in HeaderNames |-> IF upper[name] # None THEN upper[name] ELSE lower[name]]

EmptyContext == [name \in PropagatedHeaders |-> None]

\* RequestContext::with_request_id, with_trace_id and so on.
With(ctx, name, value) == [ctx EXCEPT ![name] = value]

\* Mutant: an id is generated for every request.
EnsureRequestIdAnew(ctx) == With(ctx, "x-request-id", Uuids[issued + 1])

\* RequestContext::ensure_request_id, of a clone: the request keeps its own.
EnsureRequestId(ctx) ==
    IF ctx["x-request-id"] = None THEN With(ctx, "x-request-id", Uuids[issued + 1]) ELSE ctx

\* RequestContext::to_headers: a value unfit for a header is skipped.
ToHeaders(ctx) ==
    [name \in HeaderNames |->
        IF name \in PropagatedHeaders /\ ctx[name] # None /\ Fit(ctx[name]) THEN ctx[name]
        ELSE None]

\* RequestContext::from_headers, which reads what to_str does.
FromHeaders(headers) ==
    [name \in PropagatedHeaders |->
        IF headers[name] # None /\ Readable(headers[name]) THEN headers[name] ELSE None]

\* Mutant: the client's own headers go on top of the context's.
EffectiveHeadersUnderneath(r) ==
    Overlaid(Overlaid(ToHeaders(EnsureRequestId(r.context)), client.default_headers), r.headers)

EffectiveHeaders(r) ==
    Overlaid(Overlaid(client.default_headers, ToHeaders(EnsureRequestId(r.context))), r.headers)

-----------------------------------------------------------------------------
(* What the send loop is told.                                             *)

\* Mutant: retriable is not needed.
RetryAllowedAlways(r) == client.retry # None

\* An Option as an iterator.
Present(option) == IF option = None THEN << >> ELSE <<option>>

RetryAllowed(r) == client.retry # None /\ (IsIdempotent(r.method) \/ r.retriable)

Settings(r) ==
    [retry           |-> IF RetryAllowed(r) THEN client.retry ELSE None,
     deadline        |-> Or(r.deadline_at, IF client.retry = None THEN None
                                           ELSE client.retry.deadline),
     timeout         |-> r.timeout,
     attempt_timeout |-> client.attempt_timeout,
     accept          |-> r.accept_extra,
     retry_on        |-> r.retry_on,
     observers       |-> Present(client.observer) \o Present(r.observer)]

-----------------------------------------------------------------------------
(* The client.                                                             *)

Init ==
    /\ \E base \in Bases :
          builder = [base_url |-> base, base_path |-> <<"/", "api">>, version |-> 1,
                     bearer_token |-> None, retry |-> None, attempt_timeout |-> None,
                     observer |-> None, default_headers |-> NoHeaders]
    /\ client   = None
    /\ request  = None
    /\ prepared = None
    /\ wire     = << >>
    /\ received = NoHeaders
    /\ issued   = 0
    /\ calls    = << >>

Noted(call) == Len(calls) < CallBound /\ calls' = Append(calls, call)

\* A setter of the ServiceClientBuilder.
Configure(fn, value, after) ==
    /\ client = None
    /\ builder # None
    /\ Noted([fn |-> fn, value |-> value])
    /\ builder' = after
    /\ UNCHANGED <<client, request, prepared, wire, received, issued>>

BasePath ==
    \E path \in BasePaths : Configure("base_path", path, [builder EXCEPT !.base_path = path])

ApiVersion ==
    \E text \in VersionTexts :
        /\ ParseVersion(text) # None
        /\ Configure("api_version", ParseVersion(text),
                     [builder EXCEPT !.version = ParseVersion(text)])

BearerToken ==
    \E token \in Tokens :
        Configure("bearer_token", token, [builder EXCEPT !.bearer_token = token])

DefaultHeader ==
    \E header \in DefaultHeaders :
        Configure("default_header", header,
                  [builder EXCEPT !.default_headers[header.name] = header.value])

Retry ==
    \E policy \in RetryPolicies : Configure("retry", policy, [builder EXCEPT !.retry = policy])

ClientAttemptTimeout ==
    \E d \in Durations : Configure("attempt_timeout", d, [builder EXCEPT !.attempt_timeout = d])

ClientObserver ==
    \E o \in Observers : Configure("client.retry_observer", o, [builder EXCEPT !.observer = o])

Bearer(token) == "Bearer " \o token

\* build consumes the builder: the token becomes a default header, whatever
\* was set for it, or is unfit for one, and there is no client.
Build ==
    /\ client = None
    /\ builder # None
    /\ builder' = None
    /\ client' =
          IF builder.bearer_token = None THEN builder
          ELSE IF Fit(builder.bearer_token)
          THEN [builder EXCEPT !.default_headers["authorization"] =
                                   Bearer(builder.bearer_token)]
          ELSE None
    /\ UNCHANGED <<request, prepared, wire, received, issued, calls>>

-----------------------------------------------------------------------------
(* The request.                                                            *)

New(target) ==
    [method |-> target.method, path |-> target.path, versioned |-> target.versioned,
     query |-> << >>, headers |-> NoHeaders, context |-> EmptyContext, body |-> None,
     retriable |-> FALSE, accept_extra |-> {}, retry_on |-> {}, timeout |-> None,
     deadline_at |-> None, observer |-> None]

\* ServiceClient::request, and request_unversioned.
Request ==
    /\ client # None
    /\ request = None
    /\ \E target \in Targets :
          /\ request' = New(target)
          /\ Noted([fn |-> "request", value |-> target])
    /\ UNCHANGED <<builder, client, prepared, wire, received, issued>>

\* A setter of the RequestBuilder.  One that fails consumes it.
Ask(fn, value, after) ==
    /\ request # None
    /\ prepared = None
    /\ Noted([fn |-> fn, value |-> value])
    /\ request' = after
    /\ UNCHANGED <<builder, client, prepared, wire, received, issued>>

Query ==
    \E pair \in Queries : Ask("query", pair, [request EXCEPT !.query = Append(@, pair)])

Header ==
    \E header \in Headers :
        Ask("header", header,
            IF Fit(header.value) THEN [request EXCEPT !.headers[header.name] = header.value]
            ELSE None)

Context ==
    \E ctx \in Contexts : Ask("context", ctx, [request EXCEPT !.context = ctx])

\* A service makes the request under the context of the one it received.
ContextReceived ==
    Ask("context_received", FromHeaders(received),
        [request EXCEPT !.context = FromHeaders(received)])

\* None stands for a value that cannot be serialized.
Json ==
    \E body \in JsonBodies :
        Ask("json", [body |-> body, content_type |-> "application/json"],
            IF body = None THEN None
            ELSE [request EXCEPT !.headers["content-type"] = "application/json",
                                 !.body = body])

Body ==
    \E raw \in RawBodies :
        Ask("body", raw,
            IF Fit(raw.content_type)
            THEN [request EXCEPT !.headers["content-type"] = raw.content_type,
                                 !.body = raw.body]
            ELSE None)

Retriable ==
    \E retriable \in BOOLEAN :
        Ask("retriable", retriable, [request EXCEPT !.retriable = retriable])

AcceptStatus ==
    \E status \in StatusCodes :
        Ask("accept_status", status, [request EXCEPT !.accept_extra = @ \cup {status}])

\* Mutant: one status replaces another.
RetryOnStatusReplacing ==
    \E status \in StatusCodes :
        Ask("retry_on_status", status, [request EXCEPT !.retry_on = {status}])

RetryOnStatus ==
    \E status \in StatusCodes :
        Ask("retry_on_status", status, [request EXCEPT !.retry_on = @ \cup {status}])

Timeout ==
    \E d \in Durations : Ask("timeout", d, [request EXCEPT !.timeout = d])

DeadlineAt ==
    \E d \in Durations : Ask("deadline_at", d, [request EXCEPT !.deadline_at = d])

Observer ==
    \E o \in Observers : Ask("retry_observer", o, [request EXCEPT !.observer = o])

-----------------------------------------------------------------------------
(* Sending it.                                                             *)

\* The head of execute: what every attempt shares is computed once.
Execute ==
    /\ request # None
    /\ prepared = None
    /\ prepared' = [url |-> UrlString(request), headers |-> EffectiveHeaders(request),
                    settings |-> Settings(request)]
    /\ issued' = IF request.context["x-request-id"] = None THEN issued + 1 ELSE issued
    /\ UNCHANGED <<builder, client, request, wire, received, calls>>

\* Mutant: each attempt computes its headers.
MessageAnew(attempt) ==
    [method |-> request.method, url |-> prepared.url, query |-> request.query,
     headers |-> IF attempt = 1 THEN prepared.headers ELSE EffectiveHeaders(request),
     body |-> request.body]

\* One attempt, to whichever endpoint: apply_to leaves the rest of the URL.
Message(attempt) ==
    [method |-> request.method, url |-> prepared.url, query |-> request.query,
     headers |-> prepared.headers, body |-> request.body]

Attempt ==
    /\ prepared # None
    /\ Len(wire) < AttemptBound
    /\ wire # << >> => prepared.settings.retry # None
    /\ wire' = Append(wire, Message(Len(wire) + 1))
    /\ UNCHANGED <<builder, client, request, prepared, received, issued, calls>>

\* The call returns, or is dropped; its last message may have been received.
Return ==
    /\ prepared # None
    /\ request'  = None
    /\ prepared' = None
    /\ wire'     = << >>
    /\ received' = IF wire = << >> THEN received ELSE Last(wire).headers
    /\ UNCHANGED <<builder, client, issued, calls>>

Next ==
    \/ BasePath \/ ApiVersion \/ BearerToken \/ DefaultHeader \/ Retry
    \/ ClientAttemptTimeout \/ ClientObserver \/ Build
    \/ Request
    \/ Query \/ Header \/ Context \/ ContextReceived \/ Json \/ Body
    \/ Retriable \/ AcceptStatus \/ RetryOnStatus \/ Timeout \/ DeadlineAt \/ Observer
    \/ Execute \/ Attempt \/ Return

Spec == Init /\ [][Next]_vars

-----------------------------------------------------------------------------
(* Properties.                                                             *)

\* The value of the last call of fn in a sequence of calls.
LastValue(made, fn, default) ==
    LET last == SelectLastInSeq(made, LAMBDA call : call.fn = fn)
    IN  IF last = 0 THEN default ELSE made[last].value

\* The calls made on the latest request.
Asked ==
    SubSeq(calls, SelectLastInSeq(calls, LAMBDA call : call.fn = "request") + 1, Len(calls))

Values(made, fn) == {made[i].value : i \in {j \in DOMAIN made : made[j].fn = fn}}

\* What the caller set a header to, on the request and on the client.
Explicit(name) ==
    LET sets(call) ==
            \/ call.fn = "header" /\ call.value.name = name
            \/ call.fn \in {"json", "body"} /\ name = "content-type"
        last == SelectLastInSeq(Asked, sets)
    IN  IF last = 0 THEN None
        ELSE IF Asked[last].fn = "header" THEN Asked[last].value.value
        ELSE Asked[last].value.content_type

Default(name) ==
    LET last == SelectLastInSeq(calls, LAMBDA call : call.fn = "default_header"
                                                     /\ call.value.name = name)
    IN  IF name = "authorization" /\ LastValue(calls, "bearer_token", None) # None
        THEN Bearer(LastValue(calls, "bearer_token", None))
        ELSE IF last = 0 THEN None ELSE calls[last].value.value

\* The last context attached, whichever it was.
Attached ==
    LET last == SelectLastInSeq(Asked, LAMBDA call : call.fn \in {"context", "context_received"})
    IN  IF last = 0 THEN EmptyContext ELSE Asked[last].value

\* A message carries this value of a header.
Carries(message, name) ==
    LET tracked   == IF name \in PropagatedHeaders THEN Attached[name] ELSE None
        generated == name = "x-request-id" /\ tracked = None
        value     == message.headers[name]
    IN  IF Explicit(name) # None THEN value = Explicit(name)
        ELSE IF generated THEN value \in ToSet(Uuids) /\ value # received[name]
        ELSE IF tracked # None /\ Fit(tracked) THEN value = tracked
        ELSE value = Default(name)

\* effective_headers: "Later layers override earlier ones by name", whatever
\* order the calls came in: the client's headers, over which go the context
\* attached last with an id of its own or a fresh one, over which go the
\* request's headers, json and body setting theirs last as any header call.
EachLayerOverridesTheOneBelow ==
    \A i \in DOMAIN wire : \A name \in HeaderNames : Carries(wire[i], name)

\* "the header map sent on every attempt": all attempts of a request, to any
\* endpoint, are the same message, the generated x-request-id included, so
\* that a service may know them for one.
SameRequestOnEveryAttempt ==
    \A i, j \in DOMAIN wire : wire[i] = wire[j]

\* A service that makes its requests under the context it received sends on
\* every tracking header it could read, its x-request-id above all, unless
\* it sets the header itself.
TrackingSurvivesTheChain ==
    LET last == SelectLastInSeq(Asked, LAMBDA call : call.fn \in {"context", "context_received"})
    IN  last # 0 /\ Asked[last].fn = "context_received" =>
            \A i \in DOMAIN wire : \A name \in PropagatedHeaders :
                received[name] # None /\ Readable(received[name]) /\ Explicit(name) = None =>
                    wire[i].headers[name] = received[name]

\* No separator follows another, and there is no query and no fragment.
Plain(text) ==
    /\ Ends(text) = {}
    /\ \A i \in DOMAIN text : i > 1 => text[i - 1] # "/" \/ text[i] # "/"

\* The words of a text, in order, and the path of these words.
OwnWords(text) ==
    LET own[n \in 0 .. Len(text)] ==
            IF n = 0 THEN << >>
            ELSE IF text[n] = "/" THEN own[n - 1] ELSE Append(own[n - 1], text[n])
    IN  own[Len(text)]

Spelled(words) ==
    [i \in 1 .. 2 * Len(words) |-> IF i % 2 = 1 THEN "/" ELSE words[i \div 2]]

\* A request goes to the path its parts name, however they were spelled with
\* separators: base URL, base path and version, then its own.  With nothing
\* after the base URL's own path, that path gets a separator.  A base URL
\* with a query or a fragment, which build takes, swallows all of it.
RequestReachesItsPath ==
    LET base     == client.base_url
        basePath == LastValue(calls, "base_path", <<"/", "api">>)
        version  == <<AsPathSegment(LastValue(calls, "api_version", 1))>>
        own      == IF request.versioned
                    THEN OwnWords(basePath) \o version \o OwnWords(request.path)
                    ELSE OwnWords(request.path)
    IN  prepared # None =>
            /\ Ends(base) # {} => PathOf(prepared.url) = PathOf(base)
            /\ Plain(base) /\ Plain(basePath) /\ Plain(request.path) =>
                  PathOf(prepared.url) = Spelled(OwnWords(base) \o own)
                                         \o IF own = << >> THEN <<"/">> ELSE << >>

\* What the send loop is told is what the calls asked for, in any order: of
\* most settings the last, of the statuses all; and a request goes out again
\* only if the client has a policy and its method or its caller allows it.
LoopGetsWhatWasAsked ==
    prepared # None =>
        LET told   == prepared.settings
            policy == LastValue(calls, "retry", None)
        IN  /\ told.accept = Values(Asked, "accept_status")
            /\ told.retry_on = Values(Asked, "retry_on_status")
            /\ told.timeout = LastValue(Asked, "timeout", None)
            /\ told.attempt_timeout = LastValue(calls, "attempt_timeout", None)
            /\ told.deadline = LastValue(Asked, "deadline_at",
                                         IF policy = None THEN None ELSE policy.deadline)
            /\ ToSet(told.observers) =
                  {LastValue(calls, "client.retry_observer", None),
                   LastValue(Asked, "retry_observer", None)} \ {None}
            /\ Len(wire) > 1 =>
                  /\ policy # None
                  /\ request.method \in {"GET", "HEAD", "DELETE", "PUT"}
                     \/ LastValue(Asked, "retriable", FALSE)
=============================================================================
