------------------------------ MODULE EndpointSet -------------------------------
(***************************************************************************)
(* ServiceClientBuilder, from its setters to build (src/client.rs          *)
(* 254-684), and the endpoint set it validates and addresses               *)
(* (src/failover.rs 181-258, 822-878).                                     *)
(*                                                                         *)
(* A URL as the caller writes it is Garbage, which does not parse, or its  *)
(* parts: the host in some spelling, the port if written, and which parts  *)
(* beyond an origin it has.                                                *)
(***************************************************************************)
EXTENDS Naturals, Sequences

CONSTANTS
    None,
    Garbage,
    Urls,           \* the URLs a caller may write
    Lower,          \* the lower-case spelling of each host
    HttpClients,    \* the reqwest clients a caller may supply
    Timeouts,       \* the timeouts a caller may set
    DefaultTimeout, \* the timeout without one set
    MaxFailovers    \* how many failover endpoints are added at most

Schemes == {"http", "https", "ftp"}
Parts   == {"user info", "path", "query", "fragment"}

ASSUME UrlsAssumption ==
    Urls \ {Garbage} \subseteq [scheme : Schemes, host : DOMAIN Lower,
                               port : Nat \cup {None}, has : SUBSET Parts]

\* A lower-case spelling is its own.
ASSUME LowerAssumption ==
    \A h \in DOMAIN Lower : Lower[h] \in DOMAIN Lower /\ Lower[Lower[h]] = Lower[h]

ASSUME ClientsAssumption ==
    /\ None \notin HttpClients \cup Timeouts \cup {DefaultTimeout} \cup Nat
    /\ "built" \notin HttpClients

VARIABLES
    builder,    \* what the setters have left
    client      \* what build returned, None before

vars == <<builder, client>>

-----------------------------------------------------------------------------
(* URLs and origins.                                                       *)

IsHttp(url) == url.scheme \in {"http", "https"}

DefaultPort(scheme) ==
    CASE scheme = "http" -> 80 [] scheme = "https" -> 443 [] OTHER -> 21

\* A default port is not kept in a URL.
Kept(port, scheme) == IF port = DefaultPort(scheme) THEN None ELSE port

\* url::Url::parse, of a URL that does.
Parsed(url) ==
    [url EXCEPT !.host = Lower[@], !.port = Kept(@, url.scheme)]

\* Mutant: the port as the URL keeps it.
FromUrlPort(url) == [scheme |-> url.scheme, host |-> url.host, port |-> url.port]

\* EndpointOrigin::from_url, of a parsed http or https URL, which has a host
\* and a known port.
FromUrl(url) ==
    [scheme |-> url.scheme, host |-> url.host,
     port   |-> IF url.port = None THEN DefaultPort(url.scheme) ELSE url.port]

\* EndpointOrigin::apply_to: another host and port in the same URL.
Applied(origin, base) ==
    [base EXCEPT !.host = origin.host, !.port = Kept(origin.port, base.scheme)]

\* What bare_origin refuses, in the order it looks.
Faults == <<"not a URL", "scheme", "user info", "path", "query", "fragment">>

\* Mutant: a query is taken for a path.
HasFaultQueryInPath(url, fault) ==
    IF url = Garbage
    THEN fault = "not a URL"
    ELSE \/ fault \in url.has
         \/ fault = "scheme" /\ ~IsHttp(url)
         \/ fault = "path" /\ "query" \in url.has

HasFault(url, fault) ==
    IF url = Garbage
    THEN fault = "not a URL"
    ELSE fault \in url.has \/ (fault = "scheme" /\ ~IsHttp(url))

\* The first fault of a failover endpoint, None when it is a bare origin.
FaultOf(url) ==
    LET found == {i \in DOMAIN Faults : HasFault(url, Faults[i])}
    IN  IF found = {} THEN None
        ELSE Faults[CHOOSE i \in found : \A j \in found : i <= j]

-----------------------------------------------------------------------------
(* validate_set: the origins so far, and the error that ended the walk.    *)

NotAnOrigin(index, fault) == [kind |-> "NotAnOrigin", index |-> index, reason |-> fault]

MixedScheme(index, expected, found) ==
    [kind |-> "MixedScheme", index |-> index, expected |-> expected, found |-> found]

DuplicateOrigin(origin, first, duplicate) ==
    [kind |-> "DuplicateOrigin", origin |-> origin, first |-> first, index |-> duplicate]

\* Mutant: the schemes of a set are not compared.
SameSchemeAssumed(set, origin) == FALSE

ForeignScheme(set, origin) == origin.scheme # set.origins[1].scheme

\* Mutant: only the base URL is compared with.
PlacesOfPrimary(set, origin) == {i \in {1} : set.origins[i] = origin}

\* Where an origin is in the set so far, and the first such place as it is
\* reported, the base URL being endpoint 0.
Places(set, origin) == {i \in DOMAIN set.origins : set.origins[i] = origin}

FirstPlace(set, origin) ==
    (CHOOSE i \in Places(set, origin) : \A j \in Places(set, origin) : i <= j) - 1

\* One failover endpoint more.
Admitted(set, index, url) ==
    LET origin == FromUrl(Parsed(url))
    IN  IF FaultOf(url) # None
        THEN [set EXCEPT !.error = NotAnOrigin(index, FaultOf(url))]
        ELSE IF ForeignScheme(set, origin)
        THEN [set EXCEPT !.error = MixedScheme(index, set.origins[1].scheme, origin.scheme)]
        ELSE IF Places(set, origin) # {}
        THEN [set EXCEPT !.error = DuplicateOrigin(origin, FirstPlace(set, origin), index)]
        ELSE [set EXCEPT !.origins = Append(@, origin)]

ValidateSet(primary, failovers) ==
    LET walk[n \in 0 .. Len(failovers)] ==
            IF n = 0 THEN [origins |-> <<primary>>, error |-> None]
            ELSE IF walk[n - 1].error # None THEN walk[n - 1]
            ELSE Admitted(walk[n - 1], n, failovers[n].url)
    IN  walk[Len(failovers)]

-----------------------------------------------------------------------------
(* The builder.                                                            *)

Init ==
    /\ \E base \in Urls :
          builder = [base_url |-> base, timeout |-> DefaultTimeout, http_client |-> None,
                     token |-> None, failovers |-> << >>]
    /\ client = None

WithHttpClient ==
    /\ client = None
    /\ \E http \in HttpClients : builder' = [builder EXCEPT !.http_client = http]
    /\ UNCHANGED client

Timeout ==
    /\ client = None
    /\ \E timeout \in Timeouts : builder' = [builder EXCEPT !.timeout = timeout]
    /\ UNCHANGED client

\* A token may not be fit for a header.
BearerToken ==
    /\ client = None
    /\ \E token \in {"fit", "unfit"} : builder' = [builder EXCEPT !.token = token]
    /\ UNCHANGED client

FailoverEndpoint ==
    /\ client = None
    /\ Len(builder.failovers) < MaxFailovers
    /\ \E url \in Urls, http \in HttpClients \cup {None} :
          builder' = [builder EXCEPT !.failovers = Append(@, [url |-> url, http |-> http])]
    /\ UNCHANGED client

\* A client of the caller's, whose timeout is not known.
SuppliedSlot(http) == [http |-> http, inside |-> None, timeout |-> None]

\* Mutant: redirects are held to the set only by a client that serves it whole.
SharedSlotUnheld(origins) ==
    IF builder.http_client # None
    THEN SuppliedSlot(builder.http_client)
    ELSE [http    |-> "built",
          inside  |-> IF \A i \in DOMAIN builder.failovers : builder.failovers[i].http = None
                         /\ Len(origins) > 1
                      THEN origins ELSE None,
          timeout |-> builder.timeout]

\* The client of every endpoint that has none of its own.  One the builder
\* constructs has its timeout, and follows redirects inside a set only.
SharedSlot(origins) ==
    IF builder.http_client # None
    THEN SuppliedSlot(builder.http_client)
    ELSE [http    |-> "built",
          inside  |-> IF Len(origins) > 1 THEN origins ELSE None,
          timeout |-> builder.timeout]

\* Mutant: the slot of the base URL is put last.
SlotsAppended(origins) ==
    Append([i \in DOMAIN builder.failovers |->
               IF builder.failovers[i].http = None THEN SharedSlot(origins)
               ELSE SuppliedSlot(builder.failovers[i].http)],
           SharedSlot(origins))

Slots(origins) ==
    <<SharedSlot(origins)>> \o
    [i \in DOMAIN builder.failovers |->
        IF builder.failovers[i].http = None THEN SharedSlot(origins)
        ELSE SuppliedSlot(builder.failovers[i].http)]

\* The base URL, the token and the set are looked at in this order.
Build ==
    /\ client = None
    /\ client' =
          IF builder.base_url = Garbage \/ ~IsHttp(builder.base_url) \/ builder.token = "unfit"
          THEN [kind |-> "Config"]
          ELSE LET set == ValidateSet(FromUrl(Parsed(builder.base_url)), builder.failovers)
               IN  IF set.error # None
                   THEN [kind |-> "InvalidEndpoints", error |-> set.error]
                   ELSE [kind |-> "Ok", origins |-> set.origins, slots |-> Slots(set.origins)]
    /\ UNCHANGED builder

\* The builder is consumed.
Consumed == client # None /\ UNCHANGED vars

Next ==
    \/ WithHttpClient \/ Timeout \/ BearerToken \/ FailoverEndpoint
    \/ Build
    \/ Consumed

Spec == Init /\ [][Next]_vars

\* Where a request goes when it is sent to the endpoint at a place.
UrlAt(place) ==
    IF place = 1 THEN Parsed(builder.base_url)
    ELSE Applied(client.origins[place], Parsed(builder.base_url))
-----------------------------------------------------------------------------
(* Properties.                                                             *)

Origins == [scheme : {"http", "https"}, host : {Lower[h] : h \in DOMAIN Lower}, port : Nat]

SlotTypes ==
    [http : HttpClients \cup {"built"}, inside : {None} \cup Seq(Origins),
     timeout : Timeouts \cup {None, DefaultTimeout}]

Errors ==
    [kind : {"NotAnOrigin"}, index : Nat, reason : {Faults[i] : i \in DOMAIN Faults}]
    \cup [kind : {"MixedScheme"}, index : Nat, expected : Schemes, found : Schemes]
    \cup [kind : {"DuplicateOrigin"}, origin : Origins, first : Nat, index : Nat]

\* Neither an error, its reason nor a set of origins is an absent one.
ASSUME ErrorAssumption ==
    /\ None \notin Errors \cup Seq(Origins)
    /\ \A i \in DOMAIN Faults : Faults[i] # None

\* What the setters leave and what build returns keep their types: every
\* origin of a client is an http or https one with a port.
TypeOK ==
    /\ builder.base_url \in Urls
    /\ builder.timeout \in Timeouts \cup {DefaultTimeout}
    /\ builder.http_client \in HttpClients \cup {None}
    /\ builder.token \in {None, "fit", "unfit"}
    /\ builder.failovers \in Seq([url : Urls, http : HttpClients \cup {None}])
    /\ client \in {None} \cup [kind : {"Config"}]
                  \cup [kind : {"InvalidEndpoints"}, error : Errors]
                  \cup [kind : {"Ok"}, origins : Seq(Origins), slots : Seq(SlotTypes)]

\* The URL of endpoint i as the caller wrote it, the base URL being 0.
Written(i) == IF i = 0 THEN builder.base_url ELSE builder.failovers[i].url

\* The port a server listens on, and whether two URLs are of the same server.
PortOf(url) == IF url.port # None THEN url.port ELSE DefaultPort(url.scheme)

SameServer(url, other) ==
    /\ url.scheme = other.scheme
    /\ Lower[url.host] = Lower[other.host]
    /\ PortOf(url) = PortOf(other)

Bare(url) == url # Garbage /\ IsHttp(url) /\ url.has = {}

\* The base URL and the first n failover endpoints are a set: bare origins of
\* one scheme, no two of the same server.
IsSet(n) ==
    /\ Written(0) # Garbage
    /\ IsHttp(Written(0))
    /\ \A i \in 1 .. n :
          /\ Bare(Written(i))
          /\ Written(i).scheme = Written(0).scheme
          /\ \A j \in 0 .. i - 1 : ~SameServer(Written(j), Written(i))

\* build accepts exactly the endpoints that make a set, whatever the spelling
\* of their hosts and ports and whatever the order of the setters: no server
\* is twice in a set, to be tried twice in a cycle.
BuildAcceptsExactlySets ==
    client # None =>
        (client.kind = "Ok" <=> builder.token # "unfit" /\ IsSet(Len(builder.failovers)))

\* What is wrong with a URL as an endpoint: of one that is not http or https,
\* that alone, since its other parts may mean anything.
Wrong(url) ==
    IF url = Garbage THEN {"not a URL"}
    ELSE IF ~IsHttp(url) THEN {"scheme"}
    ELSE url.has

\* EndpointSetError: the endpoint blamed is the first that does not fit, and
\* what the error says of it is so: the reason it is no origin, the two schemes
\* that differ, or the server it repeats and the place of it.
FirstOffenderIsBlamed ==
    client # None /\ client.kind = "InvalidEndpoints" =>
        LET error == client.error
            url   == Written(error.index)
        IN  /\ error.index \in 1 .. Len(builder.failovers)
            /\ IsSet(error.index - 1)
            /\ error.kind = "NotAnOrigin" => error.reason \in Wrong(url)
            /\ error.kind = "MixedScheme" =>
                  /\ Bare(url)
                  /\ error.found = url.scheme
                  /\ error.expected = Written(0).scheme
                  /\ error.expected # error.found
            /\ error.kind = "DuplicateOrigin" =>
                  /\ error.first < error.index
                  /\ SameServer(Written(error.first), url)
                  /\ error.origin = [scheme |-> url.scheme, host |-> Lower[url.host],
                                     port |-> PortOf(url)]

\* A request sent to an endpoint goes to the server the caller named there,
\* with the path and query of the base URL: apply_to changes no scheme, and
\* relies on validate_set for it.
RequestsGoWhereTheyAreSent ==
    client # None /\ client.kind = "Ok" =>
        \A place \in DOMAIN client.origins :
            /\ SameServer(UrlAt(place), Written(place - 1))
            /\ UrlAt(place).has = builder.base_url.has

\* with_http_client: an endpoint is reached by the client given with it, else
\* by the client supplied for all, else by one the builder constructs, index
\* for index with the origins.
SlotsServeTheirOrigins ==
    client # None /\ client.kind = "Ok" =>
        /\ Len(client.slots) = Len(client.origins)
        /\ \A place \in DOMAIN client.slots :
              LET own    == IF place = 1 THEN None ELSE builder.failovers[place - 1].http
                  shared == builder.http_client
              IN  client.slots[place].http = IF own # None THEN own
                                             ELSE IF shared # None THEN shared ELSE "built"

\* failover_endpoint: every client the builder constructs for a set follows
\* redirects to the origins of the whole set, and to no other; a timeout is
\* known of those it constructs, and of no other.
BuiltClientsAreHeldToTheSet ==
    client # None /\ client.kind = "Ok" =>
        \A place \in DOMAIN client.slots :
            LET slot == client.slots[place]
            IN  /\ slot.http = "built" <=> slot.timeout # None
                /\ slot.http = "built" /\ Len(client.slots) > 1 =>
                      /\ slot.inside # None
                      /\ {slot.inside[i] : i \in DOMAIN slot.inside} =
                            {FromUrl(Parsed(Written(i))) : i \in 0 .. Len(builder.failovers)}
=============================================================================
