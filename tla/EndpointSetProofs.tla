---------------------------- MODULE EndpointSetProofs ---------------------------
(***************************************************************************)
(* What ServiceClientBuilder::build promises of the set it accepts, for    *)
(* any URLs, hosts, clients and number of endpoints.                       *)
(*                                                                         *)
(* validate_set is a recursive function over the failover endpoints: that  *)
(* it exists, and what it has found after each of them, are inductions     *)
(* over Nat, for a set, which rest on the pigeonhole principle.            *)
(***************************************************************************)
EXTENDS EndpointSet, FiniteSetTheorems, SequenceTheorems, TLAPS

-----------------------------------------------------------------------------
(* Induction over Nat, for a set: were x missing from T, the function that *)
(* moves the members of T up by one would map 0 .. x into 1 .. x without a *)
(* collision.                                                              *)

LEMMA SetInduction ==
    ASSUME NEW T, 0 \in T, \A n \in Nat : n \in T => n + 1 \in T
    PROVE  \A n \in Nat : n \in T
<1> SUFFICES ASSUME NEW x \in Nat, x \notin T PROVE FALSE
    OBVIOUS
<1> DEFINE A == 0 .. x
           B == 1 .. x
           f == [k \in A |-> IF k \in T THEN k + 1 ELSE k]
<1>1. f \in [A -> B]
    <2> SUFFICES ASSUME NEW k \in A
                 PROVE  (IF k \in T THEN k + 1 ELSE k) \in B
        OBVIOUS
    <2>1. k = x => k \notin T
        OBVIOUS
    <2>2. k = 0 => k \in T
        OBVIOUS
    <2> QED BY <2>1, <2>2
<1>2. IsFiniteSet(A) /\ IsFiniteSet(B) /\ Cardinality(B) < Cardinality(A)
    <2>1. /\ IsFiniteSet(A) /\ Cardinality(A) = x + 1
          /\ IsFiniteSet(B) /\ Cardinality(B) = x
        BY FS_Interval
    <2> HIDE DEF A, B
    <2> QED BY <2>1
<1>3. PICK i \in A, j \in A : i # j /\ f[i] = f[j]
    <2> HIDE DEF f, A, B
    <2>1. \E i, j \in A : i # j /\ f[i] = f[j]
        BY <1>1, <1>2, FS_PigeonHole, Zenon
    <2> QED BY <2>1
<1> QED BY <1>3

LEMMA LeastExists ==
    ASSUME NEW S \in SUBSET Nat, NEW x \in S
    PROVE  \E i \in S : \A j \in S : i <= j
<1> DEFINE Found == \E i \in S : \A j \in S : i <= j
           T == {k \in Nat : (\E y \in S : y <= k) => Found}
<1>1. 0 \in T
    <2>1. ASSUME NEW y \in S, y <= 0 PROVE Found
        <3>1. y = 0
            BY <2>1
        <3> QED BY <3>1
    <2> QED BY <2>1
<1>2. ASSUME NEW k \in Nat, k \in T PROVE k + 1 \in T
    <2>1. ASSUME NEW y \in S, y <= k + 1, \A z \in S : ~(z <= k) PROVE Found
        <3>1. \A j \in S : y <= j
            BY <2>1
        <3> QED BY <3>1
    <2>2. (\E y \in S : y <= k) => Found
        BY <1>2
    <2> HIDE DEF Found
    <2> QED BY <2>1, <2>2
<1> HIDE DEF T, Found
<1>3. x \in T
    BY <1>1, <1>2, SetInduction
<1> QED BY <1>3 DEF T, Found

-----------------------------------------------------------------------------
(* URLs and origins.                                                       *)

Url == [scheme : Schemes, host : DOMAIN Lower, port : Nat \cup {None}, has : SUBSET Parts]

LEMMA UrlType ==
    ASSUME NEW url \in Urls, url # Garbage
    PROVE  url \in Url
    BY UrlsAssumption DEF Url

LEMMA DefaultPortType ==
    ASSUME NEW scheme
    PROVE  DefaultPort(scheme) \in Nat
    BY DEF DefaultPort

\* Parsing keeps the server, and the rest of the URL.
LEMMA ParsedKeeps ==
    ASSUME NEW url \in Url
    PROVE  /\ Parsed(url).scheme = url.scheme
           /\ Parsed(url).host = Lower[url.host]
           /\ Parsed(url).port = Kept(url.port, url.scheme)
           /\ Parsed(url).has = url.has
           /\ Parsed(url) \in Url
<1>1. Lower[url.host] \in DOMAIN Lower /\ Kept(url.port, url.scheme) \in Nat \cup {None}
    BY LowerAssumption DEF Url, Kept
<1> QED BY <1>1 DEF Parsed, Url

\* The origin of a URL is the server it names, with its port spelled out.
LEMMA OriginIsServer ==
    ASSUME NEW url \in Url
    PROVE  /\ FromUrl(Parsed(url)) = [scheme |-> url.scheme, host |-> Lower[url.host],
                                      port |-> PortOf(url)]
           /\ PortOf(url) \in Nat
<1>1. Kept(url.port, url.scheme) # None =>
          Kept(url.port, url.scheme) = url.port /\ url.port \in Nat
    BY DEF Kept, Url
<1>2. Kept(url.port, url.scheme) = None =>
          url.port = None \/ url.port = DefaultPort(url.scheme)
    BY DEF Kept
<1>3. (IF Kept(url.port, url.scheme) = None THEN DefaultPort(url.scheme)
       ELSE Kept(url.port, url.scheme)) = PortOf(url)
    BY <1>1, <1>2, DefaultPortType, ClientsAssumption DEF PortOf
<1>4. PortOf(url) \in Nat
    BY DefaultPortType DEF PortOf, Url
<1> QED BY <1>3, <1>4, ParsedKeeps DEF FromUrl

LEMMA OriginType ==
    ASSUME NEW url \in Url, IsHttp(url)
    PROVE  FromUrl(Parsed(url)) \in Origins
    BY OriginIsServer DEF Url, Origins, IsHttp

\* Two URLs are of one server when their origins are the same.
LEMMA SameServerSameOrigin ==
    ASSUME NEW url \in Url, NEW other \in Url
    PROVE  SameServer(url, other) <=> FromUrl(Parsed(url)) = FromUrl(Parsed(other))
<1> DEFINE a == FromUrl(Parsed(url))
           b == FromUrl(Parsed(other))
<1>1. /\ a.scheme = url.scheme /\ a.host = Lower[url.host] /\ a.port = PortOf(url)
      /\ b.scheme = other.scheme /\ b.host = Lower[other.host] /\ b.port = PortOf(other)
    BY OriginIsServer
<1>2. a = [scheme |-> a.scheme, host |-> a.host, port |-> a.port]
      /\ b = [scheme |-> b.scheme, host |-> b.host, port |-> b.port]
    BY <1>1, OriginIsServer
<1> HIDE DEF a, b
<1> QED BY <1>1, <1>2 DEF SameServer, a, b

\* bare_origin refuses exactly what is not a bare http or https origin.
LEMMA FaultlessIsBare ==
    ASSUME NEW url \in Urls
    PROVE  /\ FaultOf(url) = None <=> Bare(url)
           /\ FaultOf(url) # None => /\ FaultOf(url) \in {Faults[i] : i \in DOMAIN Faults}
                                     /\ FaultOf(url) \in Wrong(url)
<1> DEFINE found == {i \in DOMAIN Faults : HasFault(url, Faults[i])}
<1>1. /\ DOMAIN Faults = 1 .. 6
      /\ Faults[1] = "not a URL" /\ Faults[2] = "scheme" /\ Faults[3] = "user info"
      /\ Faults[4] = "path" /\ Faults[5] = "query" /\ Faults[6] = "fragment"
    BY DEF Faults
<1>0. /\ found \subseteq 1 .. 6
      /\ \A i \in 1 .. 6 : i \in found <=> HasFault(url, Faults[i])
    BY <1>1
<1>5. found = {} => FaultOf(url) = None
    BY DEF FaultOf
<1>6. FaultOf(url) = IF found = {} THEN None
                     ELSE Faults[CHOOSE i \in found : \A j \in found : i <= j]
    BY DEF FaultOf
<1> HIDE DEF found
<1>2. found = {} <=> Bare(url)
    <2>1. CASE url = Garbage
        <3>1. HasFault(url, Faults[1])
            BY <1>1, <2>1, Zenon DEF HasFault
        <3>2. 1 \in 1 .. 6
            OBVIOUS
        <3>3. 1 \in found
            BY <1>0, <3>1, <3>2
        <3> QED BY <2>1, <3>3 DEF Bare
    <2>2. CASE url # Garbage
        <3>1. url.has \subseteq Parts /\ "not a URL" \notin Parts /\ "scheme" \notin Parts
            BY <2>2, UrlType DEF Url, Parts
        <3>2. ASSUME Bare(url), NEW i \in 1 .. 6, HasFault(url, Faults[i]) PROVE FALSE
            BY <2>2, <3>2 DEF HasFault, Bare
        <3>3. ASSUME found = {} PROVE Bare(url)
            <4>1. /\ ~HasFault(url, Faults[2]) /\ ~HasFault(url, Faults[3])
                  /\ ~HasFault(url, Faults[4]) /\ ~HasFault(url, Faults[5])
                  /\ ~HasFault(url, Faults[6])
                BY <1>0, <3>3
            <4>2. IsHttp(url) /\ {"user info", "path", "query", "fragment"} \cap url.has = {}
                BY <1>1, <2>2, <4>1 DEF HasFault
            <4> QED BY <2>2, <3>1, <4>2 DEF Bare, Parts
        <3> QED BY <1>0, <3>2, <3>3
    <2> QED BY <2>1, <2>2
<1>3. found # {} => \E i \in found : \A j \in found : i <= j
    <2>1. found \in SUBSET Nat
        BY <1>0
    <2> QED BY <2>1, LeastExists
<1>4. ASSUME found # {}
      PROVE  FaultOf(url) \in {Faults[i] : i \in DOMAIN Faults} /\ FaultOf(url) \in Wrong(url)
    <2> DEFINE first == CHOOSE i \in found : \A j \in found : i <= j
    <2>1. first \in found /\ \A j \in found : first <= j
        BY <1>3, <1>4
    <2>2. FaultOf(url) = Faults[first]
        BY <1>4, <1>6
    <2> HIDE DEF first
    <2>3. first \in 1 .. 6 /\ HasFault(url, Faults[first])
        BY <1>0, <2>1
    <2>4. Faults[first] \in Wrong(url)
        <3>1. CASE url = Garbage
            BY <2>3, <3>1, Zenon DEF HasFault, Wrong
        <3>2. CASE url # Garbage /\ IsHttp(url)
            BY <2>3, <3>2, Zenon DEF HasFault, Wrong
        <3>3. CASE url # Garbage /\ ~IsHttp(url)
            <4>1. HasFault(url, Faults[2])
                BY <1>1, <3>3, Zenon DEF HasFault
            <4>2. 2 \in found
                BY <1>0, <4>1
            <4>3. first \in {1, 2}
                BY <2>1, <2>3, <4>2
            <4>4. ~HasFault(url, Faults[1])
                <5>1. "not a URL" \notin url.has /\ "not a URL" # "scheme"
                    BY <3>3, UrlType DEF Url, Parts
                <5> QED BY <1>1, <3>3, <5>1, Zenon DEF HasFault
            <4>5. first = 2
                BY <2>3, <4>3, <4>4
            <4> QED BY <1>1, <3>3, <4>5, Zenon DEF Wrong
        <3> QED BY <3>1, <3>2, <3>3
    <2> QED BY <1>1, <2>2, <2>3, <2>4
<1> QED BY <1>2, <1>4, <1>5, ErrorAssumption

-----------------------------------------------------------------------------
(* validate_set is a walk over the failover endpoints.                     *)

WalkTo(walk, primary, failovers, m) ==
    walk = [n \in 0 .. m |->
               IF n = 0 THEN [origins |-> <<primary>>, error |-> None]
               ELSE IF walk[n - 1].error # None THEN walk[n - 1]
               ELSE Admitted(walk[n - 1], n, failovers[n].url)]

LEMMA WalksExist ==
    ASSUME NEW primary, NEW failovers
    PROVE  \A m \in Nat : \E walk : WalkTo(walk, primary, failovers, m)
<1> DEFINE T == {m \in Nat : \E walk : WalkTo(walk, primary, failovers, m)}
<1>1. 0 \in T
    <2>1. WalkTo([n \in 0 .. 0 |-> [origins |-> <<primary>>, error |-> None]],
                 primary, failovers, 0)
        BY DEF WalkTo
    <2> QED BY <2>1
<1>2. ASSUME NEW m \in Nat, m \in T PROVE m + 1 \in T
    <2>1. PICK walk : WalkTo(walk, primary, failovers, m)
        BY <1>2
    <2> DEFINE next == IF walk[m].error # None THEN walk[m]
                       ELSE Admitted(walk[m], m + 1, failovers[m + 1].url)
               longer == [n \in 0 .. m + 1 |-> IF n = m + 1 THEN next ELSE walk[n]]
               step(n) == IF n = 0 THEN [origins |-> <<primary>>, error |-> None]
                          ELSE IF longer[n - 1].error # None THEN longer[n - 1]
                          ELSE Admitted(longer[n - 1], n, failovers[n].url)
    <2>2. ASSUME NEW n \in 0 .. m + 1 PROVE longer[n] = step(n)
        <3>1. CASE n = m + 1
            <4>1. longer[n] = next /\ longer[n - 1] = walk[m] /\ n # 0
                BY <3>1
            <4> QED BY <3>1, <4>1
        <3>2. CASE n \in 0 .. m
            <4>1. longer[n] = walk[n] /\ (n # 0 => longer[n - 1] = walk[n - 1])
                BY <3>2
            <4>2. walk[n] = IF n = 0 THEN [origins |-> <<primary>>, error |-> None]
                            ELSE IF walk[n - 1].error # None THEN walk[n - 1]
                            ELSE Admitted(walk[n - 1], n, failovers[n].url)
                BY <2>1, <3>2 DEF WalkTo
            <4> QED BY <4>1, <4>2
        <3> QED BY <3>1, <3>2
    <2>3. longer = [n \in 0 .. m + 1 |-> step(n)]
        BY <2>2
    <2>4. WalkTo(longer, primary, failovers, m + 1)
        BY <2>3, Zenon DEF WalkTo
    <2> HIDE DEF longer
    <2> QED BY <2>4
<1> HIDE DEF T
<1>3. \A m \in Nat : m \in T
    BY <1>1, <1>2, SetInduction
<1> QED BY <1>3 DEF T

LEMMA ValidateSetWalks ==
    ASSUME NEW primary, NEW failovers, Len(failovers) \in Nat
    PROVE  \E walk : /\ WalkTo(walk, primary, failovers, Len(failovers))
                     /\ ValidateSet(primary, failovers) = walk[Len(failovers)]
<1> DEFINE walk == CHOOSE w : WalkTo(w, primary, failovers, Len(failovers))
<1>1. WalkTo(walk, primary, failovers, Len(failovers))
    BY WalksExist
<1>2. ValidateSet(primary, failovers) = walk[Len(failovers)]
    BY DEF ValidateSet, WalkTo
<1> QED BY <1>1, <1>2

-----------------------------------------------------------------------------
(* What the walk has found after n of the failover endpoints.              *)

Chosen == [base_url : Urls, timeout : Timeouts \cup {DefaultTimeout},
           http_client : HttpClients \cup {None}, token : {None, "fit", "unfit"},
           failovers : Seq([url : Urls, http : HttpClients \cup {None}])]

\* The error is of the first endpoint that does not fit, and of no other.
Blamed(error) ==
    LET url == Written(error.index)
    IN  /\ error.index \in 1 .. Len(builder.failovers)
        /\ IsSet(error.index - 1)
        /\ ~IsSet(error.index)
        /\ error.kind = "NotAnOrigin" => error.reason \in Wrong(url)
        /\ error.kind = "MixedScheme" =>
              /\ Bare(url)
              /\ error.found = url.scheme
              /\ error.expected = Written(0).scheme
              /\ error.expected # error.found
        /\ error.kind = "DuplicateOrigin" =>
              /\ error.first < error.index
              /\ SameServer(Written(error.first), url)
              /\ error.origin = [scheme |-> url.scheme, host |-> Lower[url.host],
                                 port |-> PortOf(url)]

Walked(set, n) ==
    /\ set \in [origins : Seq(Origins), error : Errors \cup {None}]
    /\ set.error = None =>
          /\ Len(set.origins) = n + 1
          /\ \A i \in 0 .. n : set.origins[i + 1] = FromUrl(Parsed(Written(i)))
          /\ IsSet(n)
    /\ set.error # None => Blamed(set.error)

LEMMA WrittenType ==
    ASSUME builder \in Chosen, NEW i \in 0 .. Len(builder.failovers)
    PROVE  /\ Written(i) \in Urls
           /\ i # 0 => builder.failovers[i].http \in HttpClients \cup {None}
           /\ Len(builder.failovers) \in Nat
<1>1. builder.failovers \in Seq([url : Urls, http : HttpClients \cup {None}])
      /\ builder.base_url \in Urls
    BY DEF Chosen
<1>2. Len(builder.failovers) \in Nat
    BY <1>1, LenProperties
<1>3. ASSUME i # 0
      PROVE  builder.failovers[i] \in [url : Urls, http : HttpClients \cup {None}]
    <2>1. i \in 1 .. Len(builder.failovers)
        BY <1>2, <1>3
    <2> QED BY <1>1, <2>1, ElementOfSeq
<1> QED BY <1>1, <1>2, <1>3 DEF Written

\* One endpoint more is in the set, unless it does not fit.
LEMMA OneMore ==
    ASSUME builder \in Chosen, NEW n \in Nat, n + 1 <= Len(builder.failovers), IsSet(n)
    PROVE  IsSet(n + 1) <=> /\ Bare(Written(n + 1))
                            /\ Written(n + 1).scheme = Written(0).scheme
                            /\ \A j \in 0 .. n : ~SameServer(Written(j), Written(n + 1))
<1>1. \A i \in 1 .. n + 1 : i = n + 1 \/ i \in 1 .. n
    OBVIOUS
<1>2. n + 1 \in 1 .. n + 1 /\ (n + 1) - 1 = n /\ 1 .. n \subseteq 1 .. n + 1
    OBVIOUS
<1> QED BY <1>1, <1>2 DEF IsSet

LEMMA AdmittedWalks ==
    ASSUME builder \in Chosen, NEW n \in Nat, n + 1 <= Len(builder.failovers),
           NEW set, Walked(set, n), set.error = None
    PROVE  Walked(Admitted(set, n + 1, Written(n + 1)), n + 1)
<1> DEFINE url    == Written(n + 1)
           origin == FromUrl(Parsed(url))
           answer == Admitted(set, n + 1, url)
<1> SUFFICES Walked(answer, n + 1)
    OBVIOUS
<1>1. /\ set \in [origins : Seq(Origins), error : Errors \cup {None}]
      /\ Len(set.origins) = n + 1
      /\ \A i \in 0 .. n : set.origins[i + 1] = FromUrl(Parsed(Written(i)))
      /\ IsSet(n)
    BY DEF Walked
<1>2. /\ n + 1 \in 0 .. Len(builder.failovers) /\ n + 1 \in 1 .. Len(builder.failovers)
      /\ \A i \in 0 .. n : i \in 0 .. Len(builder.failovers)
      /\ url \in Urls /\ \A i \in 0 .. n : Written(i) \in Urls
    <2>1. Len(builder.failovers) \in Nat
        BY LenProperties DEF Chosen
    <2> QED BY <2>1, WrittenType
<1>3. \A i \in 0 .. n : Written(i) \in Url /\ IsHttp(Written(i))
    <2>1. \A i \in 0 .. n : i = 0 \/ i \in 1 .. n
        OBVIOUS
    <2>2. \A i \in 0 .. n : Written(i) # Garbage /\ IsHttp(Written(i))
        BY <1>1, <2>1 DEF IsSet, Bare
    <2> QED BY <1>2, <2>2, UrlType
<1>4. ASSUME NEW error \in Errors, Blamed(error), answer = [set EXCEPT !.error = error]
      PROVE  Walked(answer, n + 1)
    <2>1. /\ answer \in [origins : Seq(Origins), error : Errors \cup {None}]
          /\ answer.error = error
        BY <1>1, <1>4
    <2>2. error # None
        BY ErrorAssumption
    <2> HIDE DEF answer
    <2> QED BY <1>4, <2>1, <2>2 DEF Walked
<1>5. CASE FaultOf(url) # None
    <2> DEFINE error == NotAnOrigin(n + 1, FaultOf(url))
    <2>1. /\ error \in Errors /\ error.index = n + 1 /\ error.kind = "NotAnOrigin"
          /\ error.reason \in Wrong(url)
        BY <1>2, <1>5, FaultlessIsBare DEF NotAnOrigin, Errors
    <2>2. ~Bare(url)
        BY <1>2, <1>5, FaultlessIsBare
    <2>3. answer = [set EXCEPT !.error = error]
        BY <1>5 DEF Admitted
    <2> HIDE DEF error, answer
    <2>4. Blamed(error)
        BY <1>1, <1>2, <2>1, <2>2, OneMore DEF Blamed
    <2> QED BY <1>4, <2>1, <2>3, <2>4
<1>6. CASE FaultOf(url) = None
    <2>1. Bare(url)
        BY <1>2, <1>6, FaultlessIsBare
    <2>2. url \in Url /\ IsHttp(url) /\ url.scheme \in Schemes
        BY <1>2, <2>1, UrlType DEF Bare, Url
    <2>3. /\ origin \in Origins /\ origin.scheme = url.scheme
          /\ origin = [scheme |-> url.scheme, host |-> Lower[url.host], port |-> PortOf(url)]
        BY <2>2, OriginType, OriginIsServer DEF Origins
    <2>4. /\ set.origins[1] = FromUrl(Parsed(Written(0)))
          /\ set.origins[1].scheme = Written(0).scheme /\ Written(0).scheme \in Schemes
        <3>1. 0 \in 0 .. n /\ 0 + 1 = 1
            OBVIOUS
        <3>2. set.origins[1] = FromUrl(Parsed(Written(0))) /\ Written(0) \in Url
            BY <1>1, <1>3, <3>1
        <3> QED BY <3>2, OriginIsServer DEF Url
    <2>5. \A j \in 0 .. n : SameServer(Written(j), url) <=> set.origins[j + 1] = origin
        BY <1>1, <1>3, <2>2, SameServerSameOrigin
    <2>6. DOMAIN set.origins = 1 .. n + 1
        BY <1>1, LenProperties
    <2> HIDE DEF origin, url, answer
    <2>7. CASE ForeignScheme(set, origin)
        <3> DEFINE error == MixedScheme(n + 1, set.origins[1].scheme, origin.scheme)
        <3>1. /\ error \in Errors /\ error.index = n + 1 /\ error.kind = "MixedScheme"
              /\ error.found = url.scheme /\ error.expected = Written(0).scheme
              /\ url.scheme # Written(0).scheme
            BY <2>2, <2>3, <2>4, <2>7 DEF MixedScheme, Errors, ForeignScheme
        <3>2. answer = [set EXCEPT !.error = error]
            BY <1>6, <2>7 DEF Admitted, answer, origin
        <3> HIDE DEF error
        <3>3. Blamed(error)
            BY <1>1, <1>2, <2>1, <3>1, OneMore DEF Blamed, url
        <3> QED BY <1>4, <3>1, <3>2, <3>3
    <2>8. CASE ~ForeignScheme(set, origin) /\ Places(set, origin) # {}
        <3> DEFINE place == CHOOSE i \in Places(set, origin) :
                               \A j \in Places(set, origin) : i <= j
                   error == DuplicateOrigin(origin, FirstPlace(set, origin), n + 1)
        <3>1. Places(set, origin) \in SUBSET Nat /\ Places(set, origin) \subseteq 1 .. n + 1
            BY <2>6 DEF Places
        <3>2. place \in Places(set, origin)
            <4>1. \E i \in Places(set, origin) : \A j \in Places(set, origin) : i <= j
                BY <2>8, <3>1, LeastExists
            <4> QED BY <4>1
        <3>8. FirstPlace(set, origin) = place - 1
            BY DEF FirstPlace
        <3> HIDE DEF place
        <3>9. place \in 1 .. n + 1 /\ set.origins[place] = origin
            BY <3>1, <3>2 DEF Places
        <3>3. /\ FirstPlace(set, origin) = place - 1 /\ place - 1 \in 0 .. n
              /\ (place - 1) + 1 = place /\ set.origins[place] = origin
            BY <3>8, <3>9
        <3>4. /\ FirstPlace(set, origin) \in 0 .. n
              /\ SameServer(Written(FirstPlace(set, origin)), url)
            BY <2>5, <3>3
        <3>5. /\ error \in Errors /\ error.index = n + 1 /\ error.kind = "DuplicateOrigin"
              /\ error.first = FirstPlace(set, origin) /\ error.origin = origin
            BY <2>3, <3>4 DEF DuplicateOrigin, Errors
        <3>6. answer = [set EXCEPT !.error = error]
            BY <1>6, <2>8 DEF Admitted, answer, origin
        <3> HIDE DEF error
        <3>7. Blamed(error)
            <4>1. ~IsSet(n + 1) /\ (n + 1) - 1 = n /\ n + 1 \in 1 .. Len(builder.failovers)
                BY <1>1, <1>2, <3>4, OneMore DEF url
            <4>2. /\ Written(error.index) = url /\ error.first < error.index
                  /\ SameServer(Written(error.first), url)
                BY <3>4, <3>5 DEF url
            <4>3. error.origin = [scheme |-> url.scheme, host |-> Lower[url.host],
                                  port |-> PortOf(url)]
                BY <2>3, <3>5
            <4> HIDE DEF url
            <4> QED BY <1>1, <3>5, <4>1, <4>2, <4>3 DEF Blamed
        <3> QED BY <1>4, <3>5, <3>6, <3>7
    <2>9. CASE ~ForeignScheme(set, origin) /\ Places(set, origin) = {}
        <3>1. answer = [set EXCEPT !.origins = Append(set.origins, origin)]
            BY <1>6, <2>9 DEF Admitted, answer, origin
        <3>2. /\ Append(set.origins, origin) \in Seq(Origins)
              /\ Len(Append(set.origins, origin)) = n + 2
              /\ \A i \in 1 .. n + 1 : Append(set.origins, origin)[i] = set.origins[i]
              /\ Append(set.origins, origin)[n + 2] = origin
            BY <1>1, <2>3, <2>6, AppendProperties
        <3>3. /\ answer \in [origins : Seq(Origins), error : Errors \cup {None}]
              /\ answer.error = None
              /\ answer.origins = Append(set.origins, origin)
            <4> HIDE DEF answer
            <4> QED BY <1>1, <3>1, <3>2
        <3>4. \A i \in 0 .. n + 1 : answer.origins[i + 1] = FromUrl(Parsed(Written(i)))
            <4> SUFFICES ASSUME NEW i \in 0 .. n + 1
                         PROVE  answer.origins[i + 1] = FromUrl(Parsed(Written(i)))
                OBVIOUS
            <4>1. CASE i = n + 1
                BY <3>2, <3>3, <4>1 DEF origin, url
            <4>2. CASE i \in 0 .. n
                <5>1. i + 1 \in 1 .. n + 1
                    BY <4>2
                <5> QED BY <1>1, <3>2, <3>3, <4>2, <5>1
            <4> QED BY <4>1, <4>2
        <3>5. IsSet(n + 1)
            <4>1. url.scheme = Written(0).scheme
                BY <2>3, <2>4, <2>9 DEF ForeignScheme
            <4>2. \A j \in 0 .. n : ~SameServer(Written(j), url)
                <5>1. \A j \in 0 .. n : j + 1 \in 1 .. n + 1
                    OBVIOUS
                <5> QED BY <2>5, <2>6, <2>9, <5>1 DEF Places
            <4> QED BY <1>1, <2>1, <4>1, <4>2, OneMore DEF url
        <3> QED BY <3>2, <3>3, <3>4, <3>5 DEF Walked
    <2> QED BY <2>7, <2>8, <2>9
<1> QED BY <1>5, <1>6

\* What validate_set finds, of a base URL that is fit for one.
LEMMA SetIsWalked ==
    ASSUME builder \in Chosen, builder.base_url # Garbage, IsHttp(builder.base_url)
    PROVE  Walked(ValidateSet(FromUrl(Parsed(builder.base_url)), builder.failovers),
                  Len(builder.failovers))
<1> DEFINE primary   == FromUrl(Parsed(builder.base_url))
           failovers == builder.failovers
<1>1. Len(failovers) \in Nat /\ builder.base_url \in Urls
    BY LenProperties DEF Chosen
<1>2. primary \in Origins /\ Written(0) = builder.base_url
    BY <1>1, UrlType, OriginType DEF Written
<1>3. PICK walk : /\ WalkTo(walk, primary, failovers, Len(failovers))
                  /\ ValidateSet(primary, failovers) = walk[Len(failovers)]
    BY <1>1, ValidateSetWalks
<1> DEFINE T == {n \in Nat : n <= Len(failovers) => Walked(walk[n], n)}
<1>4. 0 \in T
    <2>1. walk[0] = [origins |-> <<primary>>, error |-> None]
        BY <1>1, <1>3 DEF WalkTo
    <2>2. /\ <<primary>> \in Seq(Origins) /\ Len(<<primary>>) = 1 /\ <<primary>>[1] = primary
          /\ \A i \in 0 .. 0 : i = 0
        BY <1>2
    <2>3. IsSet(0)
        BY <1>2 DEF IsSet
    <2>4. \A i \in 0 .. 0 : <<primary>>[i + 1] = FromUrl(Parsed(Written(i)))
        BY <1>2, <2>2
    <2> HIDE DEF primary
    <2>5. Walked(walk[0], 0)
        BY <2>1, <2>2, <2>3, <2>4 DEF Walked
    <2> QED BY <2>5
<1>5. ASSUME NEW n \in Nat, n \in T PROVE n + 1 \in T
    <2> SUFFICES ASSUME n + 1 <= Len(failovers) PROVE Walked(walk[n + 1], n + 1)
        OBVIOUS
    <2>1. Walked(walk[n], n)
        BY <1>1, <1>5
    <2>2. walk[n + 1] = IF walk[n].error # None THEN walk[n]
                        ELSE Admitted(walk[n], n + 1, Written(n + 1))
        <3>1. n + 1 \in 0 .. Len(failovers) /\ n + 1 # 0 /\ (n + 1) - 1 = n
            BY <1>1
        <3> HIDE DEF primary
        <3> QED BY <1>3, <3>1 DEF WalkTo, Written
    <2>3. CASE walk[n].error # None
        BY <2>1, <2>2, <2>3 DEF Walked
    <2>4. CASE walk[n].error = None
        <3>1. Walked(Admitted(walk[n], n + 1, Written(n + 1)), n + 1)
            BY <2>1, <2>4, AdmittedWalks
        <3> QED BY <2>2, <2>4, <3>1
    <2> QED BY <2>3, <2>4
<1> HIDE DEF T
<1>6. Len(failovers) \in T
    BY <1>1, <1>4, <1>5, SetInduction
<1> QED BY <1>3, <1>6 DEF T

-----------------------------------------------------------------------------
(* The clients of a set.                                                   *)

LEMMA SlotsAreListed ==
    ASSUME builder \in Chosen, NEW origins
    PROVE  LET slots == Slots(origins)
               own(place) == builder.failovers[place - 1].http
           IN  /\ Len(slots) = Len(builder.failovers) + 1
               /\ DOMAIN slots = 1 .. Len(builder.failovers) + 1
               /\ slots[1] = SharedSlot(origins)
               /\ \A place \in 2 .. Len(builder.failovers) + 1 :
                     slots[place] = IF own(place) = None THEN SharedSlot(origins)
                                    ELSE SuppliedSlot(own(place))
               /\ origins \in Seq(Origins) => slots \in Seq(SlotTypes)
<1> DEFINE failovers == builder.failovers
           SlotOf(i) == IF failovers[i].http = None THEN SharedSlot(origins)
                        ELSE SuppliedSlot(failovers[i].http)
           rest == [i \in DOMAIN failovers |-> SlotOf(i)]
           first == <<SharedSlot(origins)>>
           slots == Slots(origins)
           All == {SharedSlot(origins)} \cup {SlotOf(i) : i \in DOMAIN failovers}
<1>1. Len(failovers) \in Nat /\ DOMAIN failovers = 1 .. Len(failovers)
    BY LenProperties DEF Chosen
<1>2. rest \in Seq(All) /\ first \in Seq(All) /\ Len(first) = 1 /\ Len(rest) = Len(failovers)
    <2>1. \A i \in 1 .. Len(failovers) : rest[i] \in All
        BY <1>1
    <2>2. DOMAIN rest = 1 .. Len(failovers)
        BY <1>1
    <2>3. rest = [i \in 1 .. Len(failovers) |-> rest[i]]
        BY <1>1
    <2>4. SharedSlot(origins) \in All
        OBVIOUS
    <2> HIDE DEF All, rest
    <2>5. rest \in Seq(All)
        BY <1>1, <2>1, <2>3, IsASeq
    <2> QED BY <1>1, <2>2, <2>4, <2>5, LenProperties
<1>3. slots = first \o rest
    BY DEF Slots
<1>4. \A i \in 1 .. Len(failovers) : rest[i] = SlotOf(i)
    BY <1>1
<1>5. first[1] = SharedSlot(origins)
    OBVIOUS
<1>6. /\ slots \in Seq(All) /\ Len(slots) = Len(failovers) + 1
      /\ slots[1] = SharedSlot(origins)
      /\ \A place \in 2 .. Len(failovers) + 1 : slots[place] = SlotOf(place - 1)
    <2> HIDE DEF slots, first, rest, All, SlotOf, failovers
    <2>1. /\ slots \in Seq(All) /\ Len(slots) = 1 + Len(failovers)
          /\ \A i \in 1 .. 1 + Len(failovers) :
                slots[i] = IF i <= 1 THEN first[i] ELSE rest[i - 1]
        <3>1. /\ first \o rest \in Seq(All) /\ Len(first \o rest) = Len(first) + Len(rest)
              /\ \A i \in 1 .. Len(first) + Len(rest) :
                    (first \o rest)[i] = IF i <= Len(first) THEN first[i] ELSE rest[i - Len(first)]
            BY <1>2, ConcatProperties, Zenon
        <3> QED BY <1>2, <1>3, <3>1
    <2>2. slots[1] = first[1] /\ Len(slots) = Len(failovers) + 1
        BY <1>1, <2>1
    <2>3. ASSUME NEW place \in 2 .. Len(failovers) + 1 PROVE slots[place] = SlotOf(place - 1)
        <3>1. place - 1 \in 1 .. Len(failovers) /\ place \in 1 .. 1 + Len(failovers) /\ ~(place <= 1)
            BY <1>1
        <3> QED BY <1>4, <2>1, <3>1
    <2> QED BY <1>5, <2>1, <2>2, <2>3
<1>7. ASSUME origins \in Seq(Origins) PROVE All \subseteq SlotTypes
    <2>1. \A i \in DOMAIN failovers : failovers[i].http \in HttpClients \cup {None}
        <3>1. failovers \in Seq([url : Urls, http : HttpClients \cup {None}])
            BY DEF Chosen
        <3> SUFFICES ASSUME NEW i \in DOMAIN failovers
                     PROVE  failovers[i].http \in HttpClients \cup {None}
            OBVIOUS
        <3>2. failovers[i] \in [url : Urls, http : HttpClients \cup {None}]
            BY <1>1, <3>1, ElementOfSeq
        <3> QED BY <3>2
    <2>2. SharedSlot(origins) \in SlotTypes
        BY <1>7 DEF SharedSlot, SuppliedSlot, SlotTypes, Chosen
    <2>3. \A http \in HttpClients : SuppliedSlot(http) \in SlotTypes
        BY DEF SuppliedSlot, SlotTypes
    <2> HIDE DEF failovers
    <2> QED BY <2>1, <2>2, <2>3
<1>8. origins \in Seq(Origins) => slots \in Seq(SlotTypes)
    <2> SUFFICES ASSUME origins \in Seq(Origins) PROVE slots \in Seq(SlotTypes)
        OBVIOUS
    <2>1. slots \in Seq(All)
        BY <1>6
    <2> HIDE DEF All, slots
    <2>2. \A i \in 1 .. Len(slots) : slots[i] \in SlotTypes
        BY <1>7, <2>1, ElementOfSeq
    <2> QED BY <2>1, <2>2, SeqDef, LenProperties
<1>9. DOMAIN slots = 1 .. Len(failovers) + 1
    <2> HIDE DEF slots, All
    <2> QED BY <1>6, LenProperties
<1> QED BY <1>6, <1>8, <1>9

-----------------------------------------------------------------------------
(* The inductive invariant: the setters keep the builder's types, and what *)
(* build has returned is what it returns of the builder as it was left.    *)

Accepted == ValidateSet(FromUrl(Parsed(builder.base_url)), builder.failovers)

Fit == builder.base_url # Garbage /\ IsHttp(builder.base_url) /\ builder.token # "unfit"

Built ==
    IF ~Fit THEN [kind |-> "Config"]
    ELSE IF Accepted.error # None
         THEN [kind |-> "InvalidEndpoints", error |-> Accepted.error]
         ELSE [kind |-> "Ok", origins |-> Accepted.origins, slots |-> Slots(Accepted.origins)]

BuilderOK ==
    /\ builder \in Chosen
    /\ client # None => client = Built

LEMMA SameBuilder ==
    ASSUME builder' = builder
    PROVE  Built' = Built
    BY DEF Built, Fit, Accepted, Slots, SharedSlot

LEMMA BuilderInductive == Spec => []BuilderOK
<1>1. ASSUME Init PROVE BuilderOK
    <2>1. << >> \in Seq([url : Urls, http : HttpClients \cup {None}])
        BY EmptySeq
    <2> QED BY <1>1, <2>1 DEF Init, BuilderOK, Chosen
<1>2. ASSUME BuilderOK, [Next]_vars PROVE BuilderOK'
    <2> USE <1>2
    <2>1. CASE WithHttpClient
        BY <2>1 DEF WithHttpClient, BuilderOK, Chosen
    <2>2. CASE Timeout
        BY <2>2 DEF Timeout, BuilderOK, Chosen
    <2>3. CASE BearerToken
        BY <2>3 DEF BearerToken, BuilderOK, Chosen
    <2>4. CASE FailoverEndpoint
        <3> DEFINE Endpoints == [url : Urls, http : HttpClients \cup {None}]
        <3>1. PICK e \in Endpoints :
                  builder' = [builder EXCEPT !.failovers = Append(@, e)]
            BY <2>4 DEF FailoverEndpoint
        <3>2. Append(builder.failovers, e) \in Seq(Endpoints)
            BY AppendProperties DEF BuilderOK, Chosen
        <3>3. builder' \in Chosen
            <4> HIDE DEF Endpoints
            <4>1. builder' = [builder EXCEPT !.failovers = Append(builder.failovers, e)]
                BY <3>1
            <4> QED BY <3>2, <4>1 DEF BuilderOK, Chosen, Endpoints
        <3> QED BY <2>4, <3>3 DEF FailoverEndpoint, BuilderOK
    <2>5. CASE Build
        <3>1. builder' = builder
            BY <2>5 DEF Build
        <3>2. client' = Built
            BY <2>5 DEF Build, Built, Fit, Accepted
        <3> QED BY <3>1, <3>2, SameBuilder DEF BuilderOK
    <2>6. CASE UNCHANGED vars
        BY <2>6, SameBuilder DEF vars, BuilderOK
    <2> QED BY <2>1, <2>2, <2>3, <2>4, <2>5, <2>6 DEF Next, Consumed
<1> QED BY <1>1, <1>2, PTL DEF Spec

\* What a client that was built tells of the endpoints it was built of.
LEMMA BuiltFacts ==
    ASSUME BuilderOK, client # None
    PROVE  /\ client.kind = "Config" => ~Fit
           /\ client.kind # "Config" => Fit /\ Walked(Accepted, Len(builder.failovers))
           /\ client.kind = "InvalidEndpoints" =>
                 client.error = Accepted.error /\ Accepted.error # None
           /\ client.kind = "Ok" =>
                 /\ client.origins = Accepted.origins
                 /\ client.slots = Slots(Accepted.origins)
                 /\ Accepted.error = None
           /\ \/ client = [kind |-> "Config"]
              \/ client = [kind |-> "InvalidEndpoints", error |-> client.error]
              \/ client = [kind |-> "Ok", origins |-> client.origins, slots |-> client.slots]
<1>1. Fit => Walked(Accepted, Len(builder.failovers))
    BY SetIsWalked DEF BuilderOK, Fit, Accepted
<1>2. client = Built
    BY DEF BuilderOK
<1> QED BY <1>1, <1>2 DEF Built

-----------------------------------------------------------------------------
(* The theorems.                                                           *)

\* The setters and build keep their types: an accepted set is of http and
\* https origins with a port (client.rs 254-684).
THEOREM BuilderTyped == Spec => []TypeOK
<1>1. ASSUME BuilderOK PROVE TypeOK
    <2> USE <1>1
    <2>1. ASSUME client # None
          PROVE  client \in [kind : {"Config"}]
                      \cup [kind : {"InvalidEndpoints"}, error : Errors]
                      \cup [kind : {"Ok"}, origins : Seq(Origins), slots : Seq(SlotTypes)]
        <3>1. CASE client = [kind |-> "Config"]
            BY <3>1
        <3>2. CASE client = [kind |-> "InvalidEndpoints", error |-> client.error]
            <4>1. client.kind = "InvalidEndpoints"
                BY <3>2
            <4>2. client.error \in Errors
                BY <2>1, <4>1, BuiltFacts DEF Walked
            <4> QED BY <3>2, <4>2
        <3>3. CASE client = [kind |-> "Ok", origins |-> client.origins, slots |-> client.slots]
            <4>1. client.kind = "Ok"
                BY <3>3
            <4>2. client.origins \in Seq(Origins) /\ client.slots = Slots(client.origins)
                BY <2>1, <4>1, BuiltFacts DEF Walked
            <4>3. client.slots \in Seq(SlotTypes)
                BY <4>2, SlotsAreListed DEF BuilderOK
            <4> QED BY <3>3, <4>2, <4>3
        <3> QED BY <2>1, <3>1, <3>2, <3>3, BuiltFacts
    <2> QED BY <2>1 DEF BuilderOK, Chosen, TypeOK
<1> QED BY <1>1, BuilderInductive, PTL

\* build accepts the endpoints that make a set and refuses all others,
\* however they are spelled and ordered (validate_set, failover.rs 206-258).
THEOREM BuildAcceptsSets == Spec => []BuildAcceptsExactlySets
<1>1. ASSUME BuilderOK PROVE BuildAcceptsExactlySets
    <2> SUFFICES ASSUME client # None
                 PROVE  client.kind = "Ok" <=> builder.token # "unfit"
                                               /\ IsSet(Len(builder.failovers))
        BY DEF BuildAcceptsExactlySets
    <2> USE <1>1
    <2>1. Len(builder.failovers) \in Nat /\ Written(0) = builder.base_url
        BY LenProperties DEF BuilderOK, Chosen, Written
    <2>2. CASE client.kind = "Config"
        BY <2>1, <2>2, BuiltFacts DEF Fit, IsSet
    <2>3. CASE client.kind = "InvalidEndpoints"
        <3>1. Blamed(Accepted.error)
            BY <2>3, BuiltFacts DEF Walked
        <3>2. Accepted.error.index \in 1 .. Len(builder.failovers) /\ ~IsSet(Accepted.error.index)
            BY <3>1 DEF Blamed
        <3>3. \A i \in 1 .. Accepted.error.index : i \in 1 .. Len(builder.failovers)
            BY <2>1, <3>2
        <3>4. ~IsSet(Len(builder.failovers))
            BY <3>2, <3>3 DEF IsSet
        <3> QED BY <2>3, <3>4
    <2>4. CASE client.kind = "Ok"
        BY <2>4, BuiltFacts DEF Walked, Fit
    <2> QED BY <2>2, <2>3, <2>4, BuiltFacts
<1> QED BY <1>1, BuilderInductive, PTL

\* The endpoint an InvalidEndpoints error names is the first that does not
\* fit, and the fault, the schemes or the server it repeats are its own
\* (validate_set and bare_origin, failover.rs 827-878).
THEOREM BlameIsFirst == Spec => []FirstOffenderIsBlamed
<1>1. ASSUME BuilderOK PROVE FirstOffenderIsBlamed
    <2> SUFFICES ASSUME client # None, client.kind = "InvalidEndpoints"
                 PROVE  Blamed(client.error)
        BY DEF FirstOffenderIsBlamed, Blamed
    <2> QED BY <1>1, BuiltFacts DEF Walked
<1> QED BY <1>1, BuilderInductive, PTL

\* A request for the endpoint at a place is sent to the server named there
\* (EndpointOrigin::apply_to, failover.rs 107-140).
THEOREM RequestsAreAddressed == Spec => []RequestsGoWhereTheyAreSent
<1>1. ASSUME BuilderOK PROVE RequestsGoWhereTheyAreSent
    <2> SUFFICES ASSUME client # None, client.kind = "Ok", NEW place \in DOMAIN client.origins
                 PROVE  /\ SameServer(UrlAt(place), Written(place - 1))
                        /\ UrlAt(place).has = builder.base_url.has
        BY DEF RequestsGoWhereTheyAreSent
    <2> USE <1>1
    <2> DEFINE base == builder.base_url
               url  == Written(place - 1)
    <2>1. /\ client.origins \in Seq(Origins)
          /\ Len(client.origins) = Len(builder.failovers) + 1
          /\ \A i \in 0 .. Len(builder.failovers) :
                client.origins[i + 1] = FromUrl(Parsed(Written(i)))
          /\ IsSet(Len(builder.failovers)) /\ Fit
        BY BuiltFacts DEF Walked
    <2>2. /\ Len(builder.failovers) \in Nat /\ place \in 1 .. Len(builder.failovers) + 1
          /\ place - 1 \in 0 .. Len(builder.failovers) /\ (place - 1) + 1 = place
          /\ place # 1 => place - 1 \in 1 .. Len(builder.failovers)
        BY <2>1, LenProperties DEF BuilderOK, Chosen
    <2>3. client.origins[place] = FromUrl(Parsed(url))
        BY <2>1, <2>2
    <2>4. base \in Url /\ Written(0) = base
        BY <2>1, UrlType DEF Fit, BuilderOK, Chosen, Written
    <2>5. url \in Url /\ url.scheme = base.scheme
        <3>1. CASE place = 1
            BY <2>4, <3>1
        <3>2. CASE place # 1
            <4>1. url \in Urls /\ url # Garbage /\ url.scheme = base.scheme
                BY <2>1, <2>2, <2>4, <3>2, WrittenType DEF IsSet, Bare, BuilderOK
            <4> QED BY <4>1, UrlType
        <3> QED BY <3>1, <3>2
    <2> HIDE DEF base, url
    <2>6. CASE place = 1
        <3>1. UrlAt(place) = Parsed(base) /\ url = base
            BY <2>4, <2>6 DEF UrlAt, base, url
        <3>2. PortOf(Parsed(base)) = PortOf(base)
            <4>1. Parsed(base).port = Kept(base.port, base.scheme)
                  /\ Parsed(base).scheme = base.scheme
                BY <2>4, ParsedKeeps
            <4> QED BY <4>1 DEF PortOf, Kept
        <3>3. base.host \in DOMAIN Lower
            BY <2>4 DEF Url
        <3> QED BY <2>4, <3>1, <3>2, <3>3, ParsedKeeps, LowerAssumption DEF SameServer, base, url
    <2>7. CASE place # 1
        <3> DEFINE origin == FromUrl(Parsed(url))
                   sent   == Applied(origin, Parsed(base))
        <3>1. UrlAt(place) = sent
            BY <2>3, <2>7 DEF UrlAt, base
        <3>2. /\ origin.scheme = url.scheme /\ origin.host = Lower[url.host]
              /\ origin.port = PortOf(url) /\ PortOf(url) \in Nat
            BY <2>5, OriginIsServer
        <3>3. /\ Parsed(base) \in Url /\ Parsed(base).scheme = base.scheme
              /\ Parsed(base).has = base.has
            BY <2>4, ParsedKeeps
        <3> HIDE DEF origin
        <3>4. /\ sent.scheme = url.scheme /\ sent.host = Lower[url.host]
              /\ sent.port = Kept(PortOf(url), url.scheme) /\ sent.has = base.has
            BY <2>5, <3>2, <3>3 DEF Applied, Url
        <3> HIDE DEF sent
        <3>5. PortOf(sent) = PortOf(url)
            <4>1. PortOf(url) # None
                BY <3>2, ClientsAssumption
            <4>2. CASE PortOf(url) = DefaultPort(url.scheme)
                BY <3>4, <4>2 DEF PortOf, Kept
            <4>3. CASE PortOf(url) # DefaultPort(url.scheme)
                <5>1. sent.port = PortOf(url)
                    BY <3>4, <4>3 DEF Kept
                <5>2. PortOf(sent) = sent.port
                    BY <4>1, <5>1 DEF PortOf
                <5> QED BY <5>1, <5>2
            <4> QED BY <4>2, <4>3
        <3>6. Lower[Lower[url.host]] = Lower[url.host]
            BY <2>5, LowerAssumption DEF Url
        <3> QED BY <3>1, <3>4, <3>5, <3>6 DEF SameServer, base, url
    <2> QED BY <2>6, <2>7
<1> QED BY <1>1, BuilderInductive, PTL

\* Every endpoint is reached by the client it was given, or the shared one,
\* index for index (with_http_client and failover_endpoint_with_client).
THEOREM SlotsServe == Spec => []SlotsServeTheirOrigins
<1>1. ASSUME BuilderOK PROVE SlotsServeTheirOrigins
    <2> SUFFICES ASSUME client # None, client.kind = "Ok"
                 PROVE  SlotsServeTheirOrigins
        BY DEF SlotsServeTheirOrigins
    <2> USE <1>1
    <2>1. client.slots = Slots(client.origins)
          /\ Len(client.origins) = Len(builder.failovers) + 1
        BY BuiltFacts DEF Walked
    <2>2. builder \in Chosen /\ Len(builder.failovers) \in Nat
        BY LenProperties DEF BuilderOK, Chosen
    <2> DEFINE shared == builder.http_client
    <2>3. SharedSlot(client.origins).http = IF shared # None THEN shared ELSE "built"
        BY DEF SharedSlot, SuppliedSlot
    <2>4. /\ Len(client.slots) = Len(builder.failovers) + 1
          /\ DOMAIN client.slots = 1 .. Len(builder.failovers) + 1
          /\ client.slots[1] = SharedSlot(client.origins)
          /\ \A place \in 2 .. Len(builder.failovers) + 1 :
                client.slots[place] =
                    IF builder.failovers[place - 1].http = None THEN SharedSlot(client.origins)
                    ELSE SuppliedSlot(builder.failovers[place - 1].http)
        BY <2>1, <2>2, SlotsAreListed
    <2>5. \A place \in 1 .. Len(builder.failovers) + 1 :
              place = 1 \/ place \in 2 .. Len(builder.failovers) + 1
        BY <2>2
    <2> HIDE DEF shared
    <2>6. ASSUME NEW place \in DOMAIN client.slots
          PROVE  LET own == IF place = 1 THEN None ELSE builder.failovers[place - 1].http
                 IN  client.slots[place].http = IF own # None THEN own
                                                ELSE IF shared # None THEN shared ELSE "built"
        <3>1. CASE place = 1
            BY <2>3, <2>4, <3>1
        <3>2. CASE place # 1
            <4> DEFINE own == builder.failovers[place - 1].http
            <4>1. client.slots[place] = IF own = None THEN SharedSlot(client.origins)
                                        ELSE SuppliedSlot(own)
                BY <2>4, <2>5, <3>2
            <4>2. SuppliedSlot(own).http = own
                BY DEF SuppliedSlot
            <4> HIDE DEF own
            <4>3. client.slots[place].http = IF own # None THEN own
                                             ELSE IF shared # None THEN shared ELSE "built"
                BY <2>3, <4>1, <4>2
            <4> QED BY <3>2, <4>3 DEF own
        <3> QED BY <3>1, <3>2
    <2> QED BY <2>1, <2>4, <2>6 DEF SlotsServeTheirOrigins, shared
<1> QED BY <1>1, BuilderInductive, PTL

\* A client the builder constructs for a set follows redirects to the origins
\* of the whole set and to no other (build, client.rs 600-684).
THEOREM BuiltClientsAreHeld == Spec => []BuiltClientsAreHeldToTheSet
<1>1. ASSUME BuilderOK PROVE BuiltClientsAreHeldToTheSet
    <2> SUFFICES ASSUME client # None, client.kind = "Ok", NEW place \in DOMAIN client.slots
                 PROVE  LET slot == client.slots[place]
                        IN  /\ slot.http = "built" <=> slot.timeout # None
                            /\ slot.http = "built" /\ Len(client.slots) > 1 =>
                                  /\ slot.inside # None
                                  /\ {slot.inside[i] : i \in DOMAIN slot.inside} =
                                        {FromUrl(Parsed(Written(i))) :
                                            i \in 0 .. Len(builder.failovers)}
        BY DEF BuiltClientsAreHeldToTheSet
    <2> USE <1>1
    <2> DEFINE origins == client.origins
               slot == client.slots[place]
               named == {FromUrl(Parsed(Written(i))) : i \in 0 .. Len(builder.failovers)}
    <2>1. /\ client.slots = Slots(origins)
          /\ origins \in Seq(Origins) /\ Len(origins) = Len(builder.failovers) + 1
          /\ \A i \in 0 .. Len(builder.failovers) :
                origins[i + 1] = FromUrl(Parsed(Written(i)))
        BY BuiltFacts DEF Walked
    <2>2. builder \in Chosen /\ Len(builder.failovers) \in Nat
        BY LenProperties DEF BuilderOK, Chosen
    <2>3. /\ Len(client.slots) = Len(builder.failovers) + 1
          /\ DOMAIN client.slots = 1 .. Len(builder.failovers) + 1
          /\ \/ slot = SharedSlot(origins)
             \/ \E http \in HttpClients : slot = SuppliedSlot(http)
        <3>1. /\ Len(client.slots) = Len(builder.failovers) + 1
              /\ DOMAIN client.slots = 1 .. Len(builder.failovers) + 1
              /\ client.slots[1] = SharedSlot(origins)
              /\ \A p \in 2 .. Len(builder.failovers) + 1 :
                    client.slots[p] =
                        IF builder.failovers[p - 1].http = None THEN SharedSlot(origins)
                        ELSE SuppliedSlot(builder.failovers[p - 1].http)
            BY <2>1, <2>2, SlotsAreListed
        <3>2. CASE place = 1
            BY <3>1, <3>2
        <3>3. CASE place # 1
            <4>1. /\ place \in 2 .. Len(builder.failovers) + 1 /\ place - 1 # 0
                  /\ place - 1 \in 0 .. Len(builder.failovers)
                BY <2>2, <3>1, <3>3
            <4>2. builder.failovers[place - 1].http \in HttpClients \cup {None}
                BY <2>2, <4>1, WrittenType
            <4> QED BY <3>1, <4>1, <4>2
        <3> QED BY <3>1, <3>2, <3>3
    <2>4. {origins[i] : i \in DOMAIN origins} = named
        <3>1. DOMAIN origins = 1 .. Len(builder.failovers) + 1
            BY <2>1, LenProperties
        <3>2. /\ \A i \in 0 .. Len(builder.failovers) : i + 1 \in 1 .. Len(builder.failovers) + 1
              /\ \A i \in 1 .. Len(builder.failovers) + 1 :
                    i - 1 \in 0 .. Len(builder.failovers) /\ (i - 1) + 1 = i
            BY <2>2
        <3> HIDE DEF origins
        <3>3. ASSUME NEW i \in DOMAIN origins PROVE origins[i] \in named
            <4>1. i - 1 \in 0 .. Len(builder.failovers) /\ (i - 1) + 1 = i
                BY <3>1, <3>2
            <4>2. origins[i] = FromUrl(Parsed(Written(i - 1)))
                BY <2>1, <4>1
            <4> QED BY <4>1, <4>2
        <3>4. ASSUME NEW i \in 0 .. Len(builder.failovers)
              PROVE  FromUrl(Parsed(Written(i))) \in {origins[j] : j \in DOMAIN origins}
            <4>1. i + 1 \in DOMAIN origins /\ origins[i + 1] = FromUrl(Parsed(Written(i)))
                BY <2>1, <3>1, <3>2
            <4> QED BY <4>1
        <3> QED BY <3>3, <3>4
    <2>5. origins # None
        BY <2>1, ErrorAssumption
    <2>6. ASSUME NEW http \in HttpClients, slot = SuppliedSlot(http)
          PROVE  slot.http # "built" /\ slot.timeout = None
        BY <2>6, ClientsAssumption DEF SuppliedSlot
    <2>7. ASSUME slot = SharedSlot(origins), builder.http_client = None
          PROVE  /\ slot.http = "built" /\ slot.timeout # None
                 /\ slot.inside = IF Len(origins) > 1 THEN origins ELSE None
        BY <2>2, <2>7, ClientsAssumption DEF SharedSlot, Chosen
    <2>8. ASSUME slot = SharedSlot(origins), builder.http_client # None
          PROVE  slot = SuppliedSlot(builder.http_client) /\ builder.http_client \in HttpClients
        BY <2>2, <2>8 DEF SharedSlot, Chosen
    <2>9. Len(client.slots) = Len(origins)
        BY <2>1, <2>3
    <2> HIDE DEF origins, slot, named
    <2>10. /\ slot.http = "built" <=> slot.timeout # None
           /\ slot.http = "built" /\ Len(client.slots) > 1 =>
                 slot.inside # None /\ {slot.inside[i] : i \in DOMAIN slot.inside} = named
        BY <2>3, <2>4, <2>5, <2>6, <2>7, <2>8, <2>9
    <2> QED BY <2>10 DEF slot, named
<1> QED BY <1>1, BuilderInductive, PTL
================================================================================
