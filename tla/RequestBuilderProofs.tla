-------------------------- MODULE RequestBuilderProofs --------------------------
(***************************************************************************)
(* What goes on the wire for a request, and what the send loop is told of  *)
(* it, is what the calls of the setters asked for, in any order and of any *)
(* values.  The properties look a call up in the history by its place, the *)
(* last of its kind; each lemma below says how a lookup changes when one   *)
(* call more is made.                                                      *)
(***************************************************************************)
EXTENDS RequestBuilder, RetryPolicyProofs, SequenceTheorems

-----------------------------------------------------------------------------
(* Lookups.                                                                *)

IsList(s) == \E S : s \in Seq(S)

LastOf(I) == IF I # {} THEN Max(I) ELSE 0

\* The places of the calls of fn, and of those that set a header.
Named(made, fn) == {i \in 1 .. Len(made) : made[i].fn = fn}

SetsHeader(call, name) ==
    \/ call.fn = "header" /\ call.value.name = name
    \/ call.fn \in {"json", "body"} /\ name = "content-type"

HeaderSet(call) == IF call.fn = "header" THEN call.value.value ELSE call.value.content_type

Setting(made, name) == {i \in 1 .. Len(made) : SetsHeader(made[i], name)}

SetsDefault(call, name) == call.fn = "default_header" /\ call.value.name = name

Defaulting(made, name) == {i \in 1 .. Len(made) : SetsDefault(made[i], name)}

Attaching(made) == {i \in 1 .. Len(made) : made[i].fn \in {"context", "context_received"}}

\* The properties' lookups, of any calls.
ValueIn(made, fn, default) ==
    IF LastOf(Named(made, fn)) = 0 THEN default ELSE made[LastOf(Named(made, fn))].value

ExplicitIn(made, name) ==
    IF LastOf(Setting(made, name)) = 0 THEN None ELSE HeaderSet(made[LastOf(Setting(made, name))])

DefaultIn(made, name) ==
    IF LastOf(Defaulting(made, name)) = 0 THEN None
    ELSE made[LastOf(Defaulting(made, name))].value.value

AttachedIn(made) ==
    IF LastOf(Attaching(made)) = 0 THEN EmptyContext ELSE made[LastOf(Attaching(made))].value

Asks(made, fn) == LastOf(Named(made, fn)) # 0

\* The last context attached was the one received.
Relayed(made) ==
    LastOf(Attaching(made)) # 0 /\ made[LastOf(Attaching(made))].fn = "context_received"

AskedIn(made) == SubSeq(made, LastOf(Named(made, "request")) + 1, Len(made))

LEMMA LookupsAgree ==
    /\ \A made, fn, default : LastValue(made, fn, default) = ValueIn(made, fn, default)
    /\ Asked = AskedIn(calls)
    /\ \A name : Explicit(name) = ExplicitIn(Asked, name)
    /\ \A name : Default(name) =
           LET token == ValueIn(calls, "bearer_token", None)
           IN  IF name = "authorization" /\ token # None THEN Bearer(token)
               ELSE DefaultIn(calls, name)
    /\ Attached = AttachedIn(Asked)
<1>1. \A made, fn, default : LastValue(made, fn, default) = ValueIn(made, fn, default)
    BY DEF LastValue, ValueIn, SelectLastInSeq, LastOf, Named
<1>2. Asked = AskedIn(calls)
    BY DEF Asked, AskedIn, SelectLastInSeq, LastOf, Named
<1>3. \A name : Explicit(name) = ExplicitIn(Asked, name)
    BY DEF Explicit, ExplicitIn, SelectLastInSeq, LastOf, Setting, SetsHeader, HeaderSet
<1>4. Attached = AttachedIn(Asked)
    BY DEF Attached, AttachedIn, SelectLastInSeq, LastOf, Attaching
<1>5. \A name : Default(name) =
           LET token == ValueIn(calls, "bearer_token", None)
           IN  IF name = "authorization" /\ token # None THEN Bearer(token)
               ELSE DefaultIn(calls, name)
    BY <1>1 DEF Default, DefaultIn, SelectLastInSeq, LastOf, Defaulting, SetsDefault
<1> QED BY <1>1, <1>2, <1>3, <1>4, <1>5

\* The last place, when there may be one more.
LEMMA LastOfMore ==
    ASSUME NEW n \in Nat, NEW I \in SUBSET (1 .. n), NEW J \in SUBSET (1 .. n + 1),
           \A i \in 1 .. n : i \in J <=> i \in I
    PROVE  LastOf(J) = IF n + 1 \in J THEN n + 1 ELSE LastOf(I)
<1>1. CASE n + 1 \in J
    <2>1. \A j \in J : n + 1 >= j
        OBVIOUS
    <2>2. \A x \in J : (\A j \in J : x >= j) => x = n + 1
        BY <1>1
    <2>3. Max(J) = n + 1
        BY <1>1, <2>1, <2>2 DEF Max
    <2> QED BY <1>1, <2>3 DEF LastOf
<1>2. CASE n + 1 \notin J
    <2>1. J = I
        <3>1. \A i \in 1 .. n + 1 : i = n + 1 \/ i \in 1 .. n
            OBVIOUS
        <3> QED BY <1>2, <3>1
    <2> QED BY <1>2, <2>1
<1> QED BY <1>1, <1>2

\* The first and the last place of some.
LEMMA PlacesAre ==
    ASSUME NEW n \in Nat, NEW I \in SUBSET (1 .. n), I # {}
    PROVE  /\ Max(I) \in I /\ Min(I) \in I
           /\ \A i \in I : Min(I) <= i /\ i <= Max(I)
<1> DEFINE Ends2(K) == (\E x \in K : \A y \in K : x >= y) /\ (\E x \in K : \A y \in K : x =< y)
           Has(k)  == \A K \in SUBSET (1 .. k) : K # {} => Ends2(K)
           T       == {k \in Nat : Has(k)}
<1>1. 0 \in T
    <2>1. 1 .. 0 = {}
        OBVIOUS
    <2> QED BY <2>1
<1>2. ASSUME NEW k \in Nat, k \in T PROVE k + 1 \in T
    <2> SUFFICES ASSUME NEW K \in SUBSET (1 .. k + 1), K # {}
                 PROVE  Ends2(K)
        OBVIOUS
    <2> DEFINE L == K \ {k + 1}
    <2>1. L \in SUBSET (1 .. k) /\ (L # {} => Ends2(L))
        <3>1. \A i \in 1 .. k + 1 : i = k + 1 \/ i \in 1 .. k
            OBVIOUS
        <3>2. L \in SUBSET (1 .. k)
            BY <3>1
        <3>3. Has(k)
            BY <1>2
        <3> QED BY <3>2, <3>3
    <2>2. CASE k + 1 \notin K
        <3>1. K = L
            BY <2>2
        <3> HIDE DEF L, Ends2
        <3> QED BY <2>1, <3>1
    <2>3. CASE k + 1 \in K
        <3>1. \A y \in K : k + 1 >= y
            OBVIOUS
        <3>2. CASE L = {}
            <4>1. K = {k + 1}
                BY <2>3, <3>2
            <4> HIDE DEF L
            <4> QED BY <4>1
        <3>3. CASE L # {}
            <4>1. PICK x \in L : \A y \in L : x =< y
                BY <2>1, <3>3
            <4>2. x \in K /\ x =< k + 1
                BY <3>1
            <4>3. \A y \in K : x =< y
                BY <4>1, <4>2
            <4> QED BY <2>3, <3>1, <4>2, <4>3
        <3> QED BY <3>2, <3>3
    <2> QED BY <2>2, <2>3
<1> HIDE DEF T
<1>3. n \in T
    BY <1>1, <1>2, SetInduction
<1>4. Ends2(I)
    BY <1>3 DEF T
<1> QED BY <1>4 DEF Max, Min

\* What a lookup finds when call c is made after those of s.
LEMMA NamedMore ==
    ASSUME NEW s, IsList(s), NEW c
    PROVE  /\ IsList(Append(s, c)) /\ Len(s) \in Nat
           /\ Len(Append(s, c)) = Len(s) + 1 /\ Append(s, c)[Len(s) + 1] = c
           /\ \A i \in 1 .. Len(s) : Append(s, c)[i] = s[i]
<1>1. PICK S : s \in Seq(S)
    BY DEF IsList
<1>2. s \in Seq(S \cup {c}) /\ c \in S \cup {c}
    BY <1>1
<1>3. Append(s, c) \in Seq(S \cup {c})
    BY <1>2
<1>4. IsList(Append(s, c))
    BY <1>3 DEF IsList
<1> HIDE DEF IsList
<1> QED BY <1>1, <1>4

\* The last place of a kind of call is one of them.
LEMMA LastIsPlace ==
    ASSUME NEW n \in Nat, NEW I \in SUBSET (1 .. n)
    PROVE  LastOf(I) \in 0 .. n /\ (LastOf(I) # 0 => LastOf(I) \in I)
<1>1. CASE I = {}
    BY <1>1 DEF LastOf
<1>2. CASE I # {}
    <2>1. LastOf(I) = Max(I) /\ Max(I) \in I
        BY <1>2, PlacesAre DEF LastOf
    <2>2. LastOf(I) \in 1 .. n
        BY <2>1
    <2> QED BY <2>1, <2>2
<1> QED BY <1>1, <1>2

\* The last call of a kind, when there is one more call.
LEMMA LastMore ==
    ASSUME NEW s, IsList(s), NEW c,
           NEW I \in SUBSET (1 .. Len(s)), NEW J \in SUBSET (1 .. Len(s) + 1),
           \A i \in 1 .. Len(s) : i \in J <=> i \in I
    PROVE  /\ Len(s) + 1 \in J => LastOf(J) # 0 /\ Append(s, c)[LastOf(J)] = c
           /\ Len(s) + 1 \notin J =>
                  /\ LastOf(J) = LastOf(I)
                  /\ LastOf(I) # 0 => Append(s, c)[LastOf(J)] = s[LastOf(I)]
<1>1. Len(s) \in Nat
    BY NamedMore
<1>2. LastOf(J) = IF Len(s) + 1 \in J THEN Len(s) + 1 ELSE LastOf(I)
    BY <1>1, LastOfMore
<1>3. LastOf(I) \in 0 .. Len(s)
    BY <1>1, LastIsPlace
<1>4. LastOf(I) # 0 => LastOf(I) \in 1 .. Len(s)
    BY <1>1, <1>3
<1> QED BY <1>1, <1>2, <1>4, NamedMore

LEMMA ValueMore ==
    ASSUME NEW s, IsList(s), NEW c, NEW fn, NEW default
    PROVE  /\ ValueIn(Append(s, c), fn, default)
                  = IF c.fn = fn THEN c.value ELSE ValueIn(s, fn, default)
           /\ Asks(Append(s, c), fn) <=> c.fn = fn \/ Asks(s, fn)
<1> DEFINE I == Named(s, fn)
           J == Named(Append(s, c), fn)
<1>1. /\ I \in SUBSET (1 .. Len(s)) /\ J \in SUBSET (1 .. Len(s) + 1)
      /\ \A i \in 1 .. Len(s) : i \in J <=> i \in I
      /\ Len(s) + 1 \in J <=> c.fn = fn
    BY NamedMore DEF Named
<1>2. /\ Len(s) + 1 \in J => LastOf(J) # 0 /\ Append(s, c)[LastOf(J)] = c
      /\ Len(s) + 1 \notin J =>
             /\ LastOf(J) = LastOf(I)
             /\ LastOf(I) # 0 => Append(s, c)[LastOf(J)] = s[LastOf(I)]
    <2> HIDE DEF I, J
    <2> QED BY <1>1, LastMore
<1> QED BY <1>1, <1>2 DEF ValueIn, Asks

LEMMA ValuesMore ==
    ASSUME NEW s, IsList(s), NEW c, NEW fn
    PROVE  Values(Append(s, c), fn) = Values(s, fn) \cup (IF c.fn = fn THEN {c.value} ELSE {})
<1>1. DOMAIN s = 1 .. Len(s) /\ DOMAIN Append(s, c) = 1 .. Len(s) + 1
    BY NamedMore DEF IsList
<1>2. \A i \in 1 .. Len(s) + 1 : i = Len(s) + 1 \/ i \in 1 .. Len(s)
    BY NamedMore
<1>3. 1 .. Len(s) \subseteq 1 .. Len(s) + 1 /\ Len(s) + 1 \in 1 .. Len(s) + 1
    BY NamedMore
<1> QED BY <1>1, <1>2, <1>3, NamedMore DEF Values

LEMMA ExplicitMore ==
    ASSUME NEW s, IsList(s), NEW c, NEW name
    PROVE  ExplicitIn(Append(s, c), name)
               = IF SetsHeader(c, name) THEN HeaderSet(c) ELSE ExplicitIn(s, name)
<1> DEFINE I == Setting(s, name)
           J == Setting(Append(s, c), name)
<1>1. /\ I \in SUBSET (1 .. Len(s)) /\ J \in SUBSET (1 .. Len(s) + 1)
      /\ \A i \in 1 .. Len(s) : i \in J <=> i \in I
      /\ Len(s) + 1 \in J <=> SetsHeader(c, name)
    BY NamedMore DEF Setting
<1>2. /\ Len(s) + 1 \in J => LastOf(J) # 0 /\ Append(s, c)[LastOf(J)] = c
      /\ Len(s) + 1 \notin J =>
             /\ LastOf(J) = LastOf(I)
             /\ LastOf(I) # 0 => Append(s, c)[LastOf(J)] = s[LastOf(I)]
    <2> HIDE DEF I, J
    <2> QED BY <1>1, LastMore
<1> QED BY <1>1, <1>2 DEF ExplicitIn

LEMMA DefaultMore ==
    ASSUME NEW s, IsList(s), NEW c, NEW name
    PROVE  DefaultIn(Append(s, c), name)
               = IF SetsDefault(c, name) THEN c.value.value ELSE DefaultIn(s, name)
<1> DEFINE I == Defaulting(s, name)
           J == Defaulting(Append(s, c), name)
<1>1. /\ I \in SUBSET (1 .. Len(s)) /\ J \in SUBSET (1 .. Len(s) + 1)
      /\ \A i \in 1 .. Len(s) : i \in J <=> i \in I
      /\ Len(s) + 1 \in J <=> SetsDefault(c, name)
    BY NamedMore DEF Defaulting
<1>2. /\ Len(s) + 1 \in J => LastOf(J) # 0 /\ Append(s, c)[LastOf(J)] = c
      /\ Len(s) + 1 \notin J =>
             /\ LastOf(J) = LastOf(I)
             /\ LastOf(I) # 0 => Append(s, c)[LastOf(J)] = s[LastOf(I)]
    <2> HIDE DEF I, J
    <2> QED BY <1>1, LastMore
<1> QED BY <1>1, <1>2 DEF DefaultIn

LEMMA AttachedMore ==
    ASSUME NEW s, IsList(s), NEW c
    PROVE  /\ AttachedIn(Append(s, c))
                  = IF c.fn \in {"context", "context_received"} THEN c.value ELSE AttachedIn(s)
           /\ Relayed(Append(s, c))
                  <=> IF c.fn \in {"context", "context_received"} THEN c.fn = "context_received"
                      ELSE Relayed(s)
<1> DEFINE I == Attaching(s)
           J == Attaching(Append(s, c))
<1>1. /\ I \in SUBSET (1 .. Len(s)) /\ J \in SUBSET (1 .. Len(s) + 1)
      /\ \A i \in 1 .. Len(s) : i \in J <=> i \in I
      /\ Len(s) + 1 \in J <=> c.fn \in {"context", "context_received"}
    <2>1. I = {i \in 1 .. Len(s) : s[i].fn \in {"context", "context_received"}}
        BY DEF Attaching
    <2>2. J = {i \in 1 .. Len(s) + 1 : Append(s, c)[i].fn \in {"context", "context_received"}}
        BY NamedMore DEF Attaching
    <2>3. 1 .. Len(s) \subseteq 1 .. Len(s) + 1 /\ Len(s) + 1 \in 1 .. Len(s) + 1
        BY NamedMore
    <2>4. \A i \in 1 .. Len(s) : i \in J <=> i \in I
        <3>1. SUFFICES ASSUME NEW i \in 1 .. Len(s) PROVE i \in J <=> i \in I
            OBVIOUS
        <3>2. Append(s, c)[i] = s[i] /\ i \in 1 .. Len(s) + 1
            BY <2>3, NamedMore
        <3> HIDE DEF I, J
        <3> QED BY <2>1, <2>2, <3>1, <3>2
    <2>5. Append(s, c)[Len(s) + 1] = c
        BY NamedMore
    <2> HIDE DEF I, J
    <2> QED BY <2>1, <2>2, <2>3, <2>4, <2>5
<1>2. /\ Len(s) + 1 \in J => LastOf(J) # 0 /\ Append(s, c)[LastOf(J)] = c
      /\ Len(s) + 1 \notin J =>
             /\ LastOf(J) = LastOf(I)
             /\ LastOf(I) # 0 => Append(s, c)[LastOf(J)] = s[LastOf(I)]
    <2> HIDE DEF I, J
    <2> QED BY <1>1, LastMore
<1> QED BY <1>1, <1>2 DEF AttachedIn, Relayed

\* The calls on the latest request grow with the calls.
LEMMA AskedMore ==
    ASSUME NEW s, IsList(s), NEW c
    PROVE  /\ IsList(AskedIn(s))
           /\ AskedIn(Append(s, c)) = IF c.fn = "request" THEN << >> ELSE Append(AskedIn(s), c)
<1> DEFINE I == Named(s, "request")
           J == Named(Append(s, c), "request")
           n == Len(s)
           a == LastOf(I) + 1
<1>1. /\ n \in Nat /\ I \in SUBSET (1 .. n) /\ J \in SUBSET (1 .. n + 1)
      /\ \A i \in 1 .. n : i \in J <=> i \in I
      /\ n + 1 \in J <=> c.fn = "request"
    BY NamedMore DEF Named
<1>2. LastOf(J) = IF c.fn = "request" THEN n + 1 ELSE LastOf(I)
    <2> HIDE DEF I, J, n
    <2> QED BY <1>1, LastOfMore
<1>3. LastOf(I) \in 0 .. n
    BY <1>1, LastIsPlace
<1>4. PICK S : s \in Seq(S)
    BY DEF IsList
<1>5. a \in 1 .. n + 1 /\ AskedIn(s) = SubSeq(s, a, n)
    BY <1>1, <1>3 DEF AskedIn
<1>6. AskedIn(s) \in Seq(S)
    BY <1>4, <1>5, SubSeqProperties
<1>7. IsList(AskedIn(s))
    BY <1>6 DEF IsList
<1>8. CASE c.fn = "request"
    <2>1. AskedIn(Append(s, c)) = SubSeq(Append(s, c), n + 2, n + 1)
        BY <1>1, <1>2, <1>8, NamedMore DEF AskedIn
    <2> QED BY <1>1, <1>7, <1>8, <2>1
<1>9. CASE c.fn # "request"
    <2>1. AskedIn(Append(s, c)) = SubSeq(Append(s, c), a, n + 1)
        BY <1>1, <1>2, <1>9, NamedMore DEF AskedIn
    <2>2. SubSeq(Append(s, c), a, n + 1) = Append(SubSeq(s, a, n), c)
        BY <1>1, <1>4, <1>5, NamedMore
    <2> QED BY <1>5, <1>7, <1>9, <2>1, <2>2
<1> QED BY <1>8, <1>9

LEMMA NothingAsked ==
    /\ IsList(<< >>) /\ AskedIn(<< >>) = << >>
    /\ \A fn, default : ValueIn(<< >>, fn, default) = default /\ ~Asks(<< >>, fn)
    /\ \A fn : Values(<< >>, fn) = {}
    /\ \A name : ExplicitIn(<< >>, name) = None /\ DefaultIn(<< >>, name) = None
    /\ AttachedIn(<< >>) = EmptyContext /\ ~Relayed(<< >>)
<1>1. IsList(<< >>)
    BY DEF IsList
<1>2. /\ \A fn : Named(<< >>, fn) = {}
      /\ \A name : Setting(<< >>, name) = {} /\ Defaulting(<< >>, name) = {}
      /\ Attaching(<< >>) = {}
    BY DEF Named, Setting, Defaulting, Attaching
<1>3. LastOf({}) = 0
    BY DEF LastOf
<1>4. AskedIn(<< >>) = << >>
    BY <1>2, <1>3 DEF AskedIn
<1>5. \A fn, default : ValueIn(<< >>, fn, default) = default /\ ~Asks(<< >>, fn)
    BY <1>2, <1>3 DEF ValueIn, Asks
<1>6. \A fn : Values(<< >>, fn) = {}
    BY DEF Values
<1>7. \A name : ExplicitIn(<< >>, name) = None /\ DefaultIn(<< >>, name) = None
    BY <1>2, <1>3 DEF ExplicitIn, DefaultIn
<1>8. AttachedIn(<< >>) = EmptyContext /\ ~Relayed(<< >>)
    BY <1>2, <1>3 DEF AttachedIn, Relayed
<1> QED BY <1>1, <1>4, <1>5, <1>6, <1>7, <1>8

-----------------------------------------------------------------------------
(* What the calls make of the builder, the client and the request.         *)

BuilderOf(base, path, version, token, retry, timeout, observer, headers) ==
    [base_url |-> base, base_path |-> path, version |-> version, bearer_token |-> token,
     retry |-> retry, attempt_timeout |-> timeout, observer |-> observer,
     default_headers |-> headers]

Configured(made, base, headers) ==
    BuilderOf(base,
              ValueIn(made, "base_path", <<"/", "api">>),
              ValueIn(made, "api_version", 1),
              ValueIn(made, "bearer_token", None),
              ValueIn(made, "retry", None),
              ValueIn(made, "attempt_timeout", None),
              ValueIn(made, "client.retry_observer", None),
              headers)

DefaultsIn(made) == [name \in HeaderNames |-> DefaultIn(made, name)]

\* Those of the client: the token's header is set by build, over any other.
ClientDefaultsIn(made) ==
    LET token == ValueIn(made, "bearer_token", None)
    IN  [name \in HeaderNames |->
            IF name = "authorization" /\ token # None THEN Bearer(token)
            ELSE DefaultIn(made, name)]

RequestOf(method, path, versioned, query, headers, context, body,
          retriable, accept, retryOn, timeout, deadline, observer) ==
    [method |-> method, path |-> path, versioned |-> versioned, query |-> query,
     headers |-> headers, context |-> context, body |-> body, retriable |-> retriable,
     accept_extra |-> accept, retry_on |-> retryOn, timeout |-> timeout,
     deadline_at |-> deadline, observer |-> observer]

ExplicitsIn(made) == [name \in HeaderNames |-> ExplicitIn(made, name)]

Wanted(r, made) ==
    RequestOf(r.method, r.path, r.versioned, r.query,
              ExplicitsIn(made),
              AttachedIn(made),
              r.body,
              ValueIn(made, "retriable", FALSE),
              Values(made, "accept_status"),
              Values(made, "retry_on_status"),
              ValueIn(made, "timeout", None),
              ValueIn(made, "deadline_at", None),
              ValueIn(made, "retry_observer", None))

IsContext(ctx) == ctx = [name \in PropagatedHeaders |-> ctx[name]]

NoneOrFit(headers) == \A name \in PropagatedHeaders : headers[name] = None \/ Fit(headers[name])

Paths == {target.path : target \in Targets}

\* A request is what the calls on it asked for, its deadline is one when it
\* was asked for, and a context received is the one of the headers received.
AsAsked(r, made, heads) ==
    /\ r = Wanted(r, made) /\ r.path \in Paths
    /\ IsContext(r.context)
    /\ NoneOrFit(r.headers)
    /\ Asks(made, "deadline_at") => r.deadline_at \in Durations
    /\ Relayed(made) => r.context = FromHeaders(heads)

\* The headers of a message, of an id that may have been generated.
Layered(defaults, ctx, own, id) ==
    Overlaid(Overlaid(defaults,
                      ToHeaders(IF ctx["x-request-id"] = None THEN With(ctx, "x-request-id", id)
                                ELSE ctx)),
             own)

AsConfigured(b, made) ==
    /\ b = Configured(made, b.base_url, DefaultsIn(made)) /\ b.base_url \in Bases
    /\ NoneOrFit(b.default_headers)

BuilderOK == builder # None => AsConfigured(builder, calls)

ClientOK ==
    client # None =>
        /\ client = Configured(calls, client.base_url, ClientDefaultsIn(calls))
        /\ client.base_url \in Bases
        /\ NoneOrFit(client.default_headers)

RequestOK == request # None => client # None /\ AsAsked(request, AskedIn(calls), received)

PreparedOK ==
    /\ prepared # None =>
          /\ request # None
          /\ prepared.url = UrlString(request)
          /\ prepared.settings = Settings(request)
          /\ prepared.headers = Layered(client.default_headers, request.context,
                                        request.headers, Uuids[issued])
    /\ prepared = None => wire = << >>

WireOK ==
    /\ prepared # None => wire \in Seq({Message(1)})
    /\ Len(wire) > 1 => prepared.settings.retry # None
    /\ NoneOrFit(received)

RequestInv ==
    IsList(calls) /\ BuilderOK /\ ClientOK /\ RequestOK /\ PreparedOK /\ WireOK

-----------------------------------------------------------------------------
(* Ids.                                                                    *)

\* The ids that are still to be generated, after the first n.
Later(n) == {Uuids[k] : k \in n + 1 .. Len(Uuids)}

Counted ==
    /\ issued \in Nat /\ Len(calls) <= CallBound
    /\ issued + (IF request # None /\ prepared = None THEN 1 ELSE 0) <= Len(calls)

\* What was written by a caller is no id to be generated at all, and what
\* came of a message none to be generated later.
Fresh ==
    LET id == "x-request-id"
    IN  /\ DefaultIn(calls, id) \notin Later(0)
        /\ ExplicitIn(AskedIn(calls), id) \notin Later(0)
        /\ AttachedIn(AskedIn(calls))[id] \notin Later(issued)
        /\ received[id] \notin Later(issued)
        /\ prepared # None =>
              /\ prepared.headers[id] \notin Later(issued)
              /\ request.context[id] = None => issued > 0 /\ Uuids[issued] # received[id]

FreshInv == Counted /\ Fresh

-----------------------------------------------------------------------------
(* The builder.                                                            *)

LEMMA BuilderFields ==
    ASSUME NEW base, NEW path, NEW version, NEW token, NEW retry, NEW timeout, NEW observer,
           NEW headers
    PROVE  LET b == BuilderOf(base, path, version, token, retry, timeout, observer, headers)
           IN  b.base_url = base /\ b.default_headers = headers /\ b.bearer_token = token
    BY DEF BuilderOf

LEMMA DefaultsMore ==
    ASSUME NEW made, IsList(made), NEW c
    PROVE  /\ c.fn # "default_header" => DefaultsIn(Append(made, c)) = DefaultsIn(made)
           /\ c.fn = "default_header" =>
                  DefaultsIn(Append(made, c))
                      = [DefaultsIn(made) EXCEPT ![c.value.name] = c.value.value]
<1>1. DefaultsIn(Append(made, c))
          = [name \in HeaderNames |-> IF SetsDefault(c, name) THEN c.value.value
                                      ELSE DefaultIn(made, name)]
    BY DefaultMore DEF DefaultsIn
<1> QED BY <1>1 DEF DefaultsIn, SetsDefault

LEMMA ConfiguredIs ==
    ASSUME NEW made, NEW b, AsConfigured(b, made)
    PROVE  /\ b = Configured(made, b.base_url, DefaultsIn(made))
           /\ b.default_headers = DefaultsIn(made) /\ NoneOrFit(DefaultsIn(made))
           /\ b.base_url \in Bases
           /\ b.bearer_token = ValueIn(made, "bearer_token", None)
<1>1. /\ b = Configured(made, b.base_url, DefaultsIn(made)) /\ NoneOrFit(b.default_headers)
      /\ b.base_url \in Bases
    BY DEF AsConfigured
<1>2. /\ b.default_headers = DefaultsIn(made)
      /\ b.bearer_token = ValueIn(made, "bearer_token", None)
    BY <1>1, BuilderFields DEF Configured
<1> QED BY <1>1, <1>2

\* Each setter of the builder leaves what the calls ask for.
LEMMA SettersConfigure ==
    ASSUME NEW made, IsList(made), NEW b, AsConfigured(b, made), NEW v, NEW fn,
           fn # "default_header",
           NEW a,
           \/ fn = "base_path" /\ a = [b EXCEPT !.base_path = v]
           \/ fn = "api_version" /\ a = [b EXCEPT !.version = v]
           \/ fn = "bearer_token" /\ a = [b EXCEPT !.bearer_token = v]
           \/ fn = "retry" /\ a = [b EXCEPT !.retry = v]
           \/ fn = "attempt_timeout" /\ a = [b EXCEPT !.attempt_timeout = v]
           \/ fn = "client.retry_observer" /\ a = [b EXCEPT !.observer = v]
    PROVE  AsConfigured(a, Append(made, [fn |-> fn, value |-> v]))
<1> DEFINE c    == [fn |-> fn, value |-> v]
           base == b.base_url
           defs == DefaultsIn(made)
<1>1. b = Configured(made, base, defs) /\ NoneOrFit(defs) /\ base \in Bases
    BY ConfiguredIs
<1>2. DefaultsIn(Append(made, c)) = defs
    BY DefaultsMore
<1>3. c.fn = fn /\ c.value = v
    OBVIOUS
<1>4. \A name, default : ValueIn(Append(made, c), name, default)
                             = IF name = fn THEN v ELSE ValueIn(made, name, default)
    BY <1>3, ValueMore
<1> DEFINE path     == ValueIn(made, "base_path", <<"/", "api">>)
           version  == ValueIn(made, "api_version", 1)
           token    == ValueIn(made, "bearer_token", None)
           policy   == ValueIn(made, "retry", None)
           timeout  == ValueIn(made, "attempt_timeout", None)
           observer == ValueIn(made, "client.retry_observer", None)
<1>5. b = BuilderOf(base, path, version, token, policy, timeout, observer, defs)
    BY <1>1 DEF Configured
<1>6. a = Configured(Append(made, c), base, defs)
    <2>1. Configured(Append(made, c), base, defs)
              = BuilderOf(base,
                          IF fn = "base_path" THEN v ELSE path,
                          IF fn = "api_version" THEN v ELSE version,
                          IF fn = "bearer_token" THEN v ELSE token,
                          IF fn = "retry" THEN v ELSE policy,
                          IF fn = "attempt_timeout" THEN v ELSE timeout,
                          IF fn = "client.retry_observer" THEN v ELSE observer,
                          defs)
        BY <1>4 DEF Configured
    <2> HIDE DEF c, base, defs, path, version, token, policy, timeout, observer
    <2>2. a = BuilderOf(base,
                        IF fn = "base_path" THEN v ELSE path,
                        IF fn = "api_version" THEN v ELSE version,
                        IF fn = "bearer_token" THEN v ELSE token,
                        IF fn = "retry" THEN v ELSE policy,
                        IF fn = "attempt_timeout" THEN v ELSE timeout,
                        IF fn = "client.retry_observer" THEN v ELSE observer,
                        defs)
        <3>1. CASE fn = "base_path" /\ a = [b EXCEPT !.base_path = v]
            BY <1>5, <3>1 DEF BuilderOf
        <3>2. CASE fn = "api_version" /\ a = [b EXCEPT !.version = v]
            BY <1>5, <3>2 DEF BuilderOf
        <3>3. CASE fn = "bearer_token" /\ a = [b EXCEPT !.bearer_token = v]
            BY <1>5, <3>3 DEF BuilderOf
        <3>4. CASE fn = "retry" /\ a = [b EXCEPT !.retry = v]
            BY <1>5, <3>4 DEF BuilderOf
        <3>5. CASE fn = "attempt_timeout" /\ a = [b EXCEPT !.attempt_timeout = v]
            BY <1>5, <3>5 DEF BuilderOf
        <3>6. CASE fn = "client.retry_observer" /\ a = [b EXCEPT !.observer = v]
            BY <1>5, <3>6 DEF BuilderOf
        <3> QED BY <3>1, <3>2, <3>3, <3>4, <3>5, <3>6
    <2> QED BY <2>1, <2>2
<1> HIDE DEF c, base, defs
<1>7. a.base_url = base /\ a.default_headers = defs
    BY <1>6, BuilderFields DEF Configured
<1>8. AsConfigured(a, Append(made, c))
    BY <1>1, <1>2, <1>6, <1>7 DEF AsConfigured
<1> QED BY <1>8 DEF c

LEMMA DefaultHeaderConfigures ==
    ASSUME NEW made, IsList(made), NEW b, AsConfigured(b, made),
           NEW header \in DefaultHeaders
    PROVE  AsConfigured([b EXCEPT !.default_headers[header.name] = header.value],
                        Append(made, [fn |-> "default_header", value |-> header]))
<1> DEFINE c    == [fn |-> "default_header", value |-> header]
           base == b.base_url
           h    == [DefaultsIn(made) EXCEPT ![header.name] = header.value]
           a    == [b EXCEPT !.default_headers = h]
<1>1. /\ b = Configured(made, base, DefaultsIn(made)) /\ NoneOrFit(DefaultsIn(made))
      /\ b.default_headers = DefaultsIn(made) /\ base \in Bases
    BY ConfiguredIs
<1>2. c.fn = "default_header" /\ c.value = header
    OBVIOUS
<1>3. DefaultsIn(Append(made, c)) = h
    BY <1>2, DefaultsMore
<1>4. \A name, default : name # "default_header" =>
          ValueIn(Append(made, c), name, default) = ValueIn(made, name, default)
    BY <1>2, ValueMore
<1>5. [b EXCEPT !.default_headers[header.name] = header.value] = a
    BY <1>1
<1>6. NoneOrFit(h)
    <2>1. PropagatedHeaders \subseteq HeaderNames /\ DOMAIN DefaultsIn(made) = HeaderNames
        BY HeadersAssumption DEF DefaultsIn
    <2>2. Fit(header.value) /\ header.name \in HeaderNames
        BY HeadersAssumption DEF Fit
    <2> QED BY <1>1, <2>1, <2>2 DEF NoneOrFit
<1> DEFINE path     == ValueIn(made, "base_path", <<"/", "api">>)
           version  == ValueIn(made, "api_version", 1)
           token    == ValueIn(made, "bearer_token", None)
           policy   == ValueIn(made, "retry", None)
           timeout  == ValueIn(made, "attempt_timeout", None)
           observer == ValueIn(made, "client.retry_observer", None)
<1>7. a = Configured(Append(made, c), base, h)
    <2>1. b = BuilderOf(base, path, version, token, policy, timeout, observer, DefaultsIn(made))
        BY <1>1 DEF Configured
    <2>2. Configured(Append(made, c), base, h)
              = BuilderOf(base, path, version, token, policy, timeout, observer, h)
        BY <1>4 DEF Configured
    <2> HIDE DEF c, base, h, path, version, token, policy, timeout, observer
    <2> QED BY <2>1, <2>2 DEF BuilderOf
<1> HIDE DEF c, base, h
<1> HIDE DEF a
<1>8. a.base_url = base /\ a.default_headers = h
    BY <1>7, BuilderFields DEF Configured
<1>9. AsConfigured(a, Append(made, c))
    BY <1>1, <1>3, <1>6, <1>7, <1>8 DEF AsConfigured
<1> QED BY <1>5, <1>9 DEF a, c, h, base

-----------------------------------------------------------------------------
(* The request.                                                            *)

LEMMA ExplicitsMore ==
    ASSUME NEW made, IsList(made), NEW c
    PROVE  ExplicitsIn(Append(made, c)) =
               [name \in HeaderNames |-> IF SetsHeader(c, name) THEN HeaderSet(c)
                                         ELSE ExplicitsIn(made)[name]]
    BY ExplicitMore DEF ExplicitsIn

LEMMA CallMore ==
    ASSUME NEW made, IsList(made), NEW fn, NEW v
    PROVE  LET more == Append(made, [fn |-> fn, value |-> v])
           IN  /\ \A name, default :
                      ValueIn(more, name, default)
                          = IF name = fn THEN v ELSE ValueIn(made, name, default)
               /\ \A name : Asks(more, name) <=> name = fn \/ Asks(made, name)
               /\ \A name : Values(more, name)
                                = Values(made, name) \cup (IF name = fn THEN {v} ELSE {})
               /\ fn \notin {"header", "json", "body"} => ExplicitsIn(more) = ExplicitsIn(made)
<1> DEFINE c == [fn |-> fn, value |-> v]
<1>1. c.fn = fn /\ c.value = v
    OBVIOUS
<1> HIDE DEF c
<1>2. \A name, default :
          ValueIn(Append(made, c), name, default)
              = IF name = fn THEN v ELSE ValueIn(made, name, default)
    BY <1>1, ValueMore
<1>3. \A name : Asks(Append(made, c), name) <=> name = fn \/ Asks(made, name)
    BY <1>1, ValueMore
<1>4. \A name : Values(Append(made, c), name)
                    = Values(made, name) \cup (IF name = fn THEN {v} ELSE {})
    BY <1>1, ValuesMore
<1>5. ASSUME fn \notin {"header", "json", "body"}
      PROVE  ExplicitsIn(Append(made, c)) = ExplicitsIn(made)
    <2>1. \A name : ~SetsHeader(c, name)
        BY <1>1, <1>5 DEF SetsHeader
    <2>2. ExplicitsIn(Append(made, c)) = [name \in HeaderNames |-> ExplicitsIn(made)[name]]
        BY <2>1, ExplicitsMore
    <2>3. ExplicitsIn(made) = [name \in HeaderNames |-> ExplicitsIn(made)[name]]
        BY DEF ExplicitsIn
    <2> QED BY <2>2, <2>3
<1> QED BY <1>2, <1>3, <1>4, <1>5 DEF c

LEMMA RequestFields ==
    ASSUME NEW m, NEW path, NEW ver, NEW query, NEW own, NEW ctx, NEW body, NEW again,
           NEW accept, NEW on, NEW limit, NEW end, NEW hears
    PROVE  LET r == RequestOf(m, path, ver, query, own, ctx, body, again, accept, on, limit,
                              end, hears)
           IN  /\ r.headers = own /\ r.context = ctx /\ r.retriable = again
               /\ r.accept_extra = accept /\ r.retry_on = on /\ r.timeout = limit
               /\ r.deadline_at = end /\ r.observer = hears
    BY DEF RequestOf

\* What is asked of r when the calls and the fields agree.
LEMMA AsAskedOf ==
    ASSUME NEW made, NEW heads, NEW m, NEW path, NEW ver, NEW query, NEW body, NEW r,
           r = RequestOf(m, path, ver, query, ExplicitsIn(made), AttachedIn(made), body,
                         ValueIn(made, "retriable", FALSE), Values(made, "accept_status"),
                         Values(made, "retry_on_status"), ValueIn(made, "timeout", None),
                         ValueIn(made, "deadline_at", None),
                         ValueIn(made, "retry_observer", None)),
           IsContext(AttachedIn(made)), NoneOrFit(ExplicitsIn(made)),
           Asks(made, "deadline_at") => ValueIn(made, "deadline_at", None) \in Durations,
           Relayed(made) => AttachedIn(made) = FromHeaders(heads),
           path \in Paths
    PROVE  AsAsked(r, made, heads)
<1>1. /\ r.method = m /\ r.path = path /\ r.versioned = ver /\ r.query = query /\ r.body = body
      /\ r.headers = ExplicitsIn(made) /\ r.context = AttachedIn(made)
      /\ r.deadline_at = ValueIn(made, "deadline_at", None)
    BY DEF RequestOf
<1> QED BY <1>1 DEF AsAsked, Wanted

LEMMA AsAskedIs ==
    ASSUME NEW made, NEW heads, NEW r, AsAsked(r, made, heads)
    PROVE  /\ r = RequestOf(r.method, r.path, r.versioned, r.query, ExplicitsIn(made),
                            AttachedIn(made), r.body,
                            ValueIn(made, "retriable", FALSE), Values(made, "accept_status"),
                            Values(made, "retry_on_status"), ValueIn(made, "timeout", None),
                            ValueIn(made, "deadline_at", None),
                            ValueIn(made, "retry_observer", None))
           /\ r.headers = ExplicitsIn(made) /\ r.context = AttachedIn(made)
           /\ r.retriable = ValueIn(made, "retriable", FALSE)
           /\ r.accept_extra = Values(made, "accept_status")
           /\ r.retry_on = Values(made, "retry_on_status")
           /\ r.timeout = ValueIn(made, "timeout", None)
           /\ r.deadline_at = ValueIn(made, "deadline_at", None)
           /\ r.observer = ValueIn(made, "retry_observer", None)
           /\ IsContext(AttachedIn(made)) /\ NoneOrFit(ExplicitsIn(made))
           /\ Asks(made, "deadline_at") => ValueIn(made, "deadline_at", None) \in Durations
           /\ Relayed(made) => AttachedIn(made) = FromHeaders(heads)
           /\ r.path \in Paths
<1>1. /\ r = Wanted(r, made) /\ r.path \in Paths /\ IsContext(r.context) /\ NoneOrFit(r.headers)
      /\ Asks(made, "deadline_at") => r.deadline_at \in Durations
      /\ Relayed(made) => r.context = FromHeaders(heads)
    BY DEF AsAsked
<1>2. /\ r.headers = ExplicitsIn(made) /\ r.context = AttachedIn(made)
      /\ r.retriable = ValueIn(made, "retriable", FALSE)
      /\ r.accept_extra = Values(made, "accept_status")
      /\ r.retry_on = Values(made, "retry_on_status")
      /\ r.timeout = ValueIn(made, "timeout", None)
      /\ r.deadline_at = ValueIn(made, "deadline_at", None)
      /\ r.observer = ValueIn(made, "retry_observer", None)
    <2> DEFINE own    == ExplicitsIn(made)
               ctx    == AttachedIn(made)
               again  == ValueIn(made, "retriable", FALSE)
               accept == Values(made, "accept_status")
               on     == Values(made, "retry_on_status")
               limit  == ValueIn(made, "timeout", None)
               end    == ValueIn(made, "deadline_at", None)
               hears  == ValueIn(made, "retry_observer", None)
    <2>1. r = RequestOf(r.method, r.path, r.versioned, r.query, own, ctx, r.body, again, accept,
                        on, limit, end, hears)
        BY <1>1 DEF Wanted
    <2> HIDE DEF own, ctx, again, accept, on, limit, end, hears
    <2>2. /\ r.headers = own /\ r.context = ctx /\ r.retriable = again
          /\ r.accept_extra = accept /\ r.retry_on = on /\ r.timeout = limit
          /\ r.deadline_at = end /\ r.observer = hears
        BY <2>1, RequestFields
    <2> QED BY <2>2 DEF own, ctx, again, accept, on, limit, end, hears
<1> QED BY <1>1, <1>2 DEF Wanted

\* A setter of a setting leaves what the calls ask for.
LEMMA SettingsAsked ==
    ASSUME NEW made, IsList(made), NEW heads, NEW r, AsAsked(r, made, heads),
           NEW fn, NEW v, NEW a,
           \/ fn = "query" /\ a = [r EXCEPT !.query = Append(r.query, v)]
           \/ fn = "retriable" /\ a = [r EXCEPT !.retriable = v]
           \/ fn = "accept_status" /\ a = [r EXCEPT !.accept_extra = r.accept_extra \cup {v}]
           \/ fn = "retry_on_status" /\ a = [r EXCEPT !.retry_on = r.retry_on \cup {v}]
           \/ fn = "timeout" /\ a = [r EXCEPT !.timeout = v]
           \/ fn = "deadline_at" /\ v \in Durations /\ a = [r EXCEPT !.deadline_at = v]
           \/ fn = "retry_observer" /\ a = [r EXCEPT !.observer = v]
    PROVE  AsAsked(a, Append(made, [fn |-> fn, value |-> v]), heads)
<1> DEFINE c      == [fn |-> fn, value |-> v]
           more   == Append(made, c)
           m      == r.method
           path   == r.path
           ver    == r.versioned
           query  == r.query
           own    == ExplicitsIn(made)
           ctx    == AttachedIn(made)
           body   == r.body
           again  == ValueIn(made, "retriable", FALSE)
           accept == Values(made, "accept_status")
           on     == Values(made, "retry_on_status")
           limit  == ValueIn(made, "timeout", None)
           end    == ValueIn(made, "deadline_at", None)
           hears  == ValueIn(made, "retry_observer", None)
           asks   == IF fn = "query" THEN Append(query, v) ELSE query
<1>0. /\ \A x, default : ValueIn(more, x, default)
                             = IF x = fn THEN v ELSE ValueIn(made, x, default)
      /\ \A x : Asks(more, x) <=> x = fn \/ Asks(made, x)
      /\ \A x : Values(more, x) = Values(made, x) \cup (IF x = fn THEN {v} ELSE {})
    <2> HIDE DEF m, path, ver, query, own, ctx, body, again, accept, on, limit, end, hears
    <2> QED BY CallMore
<1>1. /\ r = RequestOf(m, path, ver, query, own, ctx, body, again, accept, on, limit, end, hears)
      /\ r.accept_extra = accept /\ r.retry_on = on
      /\ IsContext(ctx) /\ NoneOrFit(own)
      /\ Asks(made, "deadline_at") => end \in Durations
      /\ Relayed(made) => ctx = FromHeaders(heads)
      /\ path \in Paths
    BY AsAskedIs
<1>2. c.fn = fn /\ c.value = v /\ fn \notin {"header", "json", "body"}
      /\ fn \notin {"context", "context_received"}
    OBVIOUS
<1>3. ExplicitsIn(more) = own
    BY <1>2, CallMore
<1>4. AttachedIn(more) = ctx /\ (Relayed(more) <=> Relayed(made))
    BY <1>2, AttachedMore
<1>5. /\ ValueIn(more, "retriable", FALSE) = IF fn = "retriable" THEN v ELSE again
      /\ ValueIn(more, "timeout", None) = IF fn = "timeout" THEN v ELSE limit
      /\ ValueIn(more, "deadline_at", None) = IF fn = "deadline_at" THEN v ELSE end
      /\ ValueIn(more, "retry_observer", None) = IF fn = "retry_observer" THEN v ELSE hears
      /\ Asks(more, "deadline_at") <=> fn = "deadline_at" \/ Asks(made, "deadline_at")
    <2> HIDE DEF more
    <2> QED BY <1>0, <1>2
<1>6. /\ Values(more, "accept_status") = IF fn = "accept_status" THEN accept \cup {v} ELSE accept
      /\ Values(more, "retry_on_status") = IF fn = "retry_on_status" THEN on \cup {v} ELSE on
    <2> HIDE DEF more
    <2> QED BY <1>0, <1>2
<1> HIDE DEF c, more, m, path, ver, query, own, ctx, body, again, accept, on, limit, end, hears
<1>7. a = RequestOf(m, path, ver, asks, own, ctx, body,
                    IF fn = "retriable" THEN v ELSE again,
                    IF fn = "accept_status" THEN accept \cup {v} ELSE accept,
                    IF fn = "retry_on_status" THEN on \cup {v} ELSE on,
                    IF fn = "timeout" THEN v ELSE limit,
                    IF fn = "deadline_at" THEN v ELSE end,
                    IF fn = "retry_observer" THEN v ELSE hears)
    <2>0. r.query = query
        BY DEF query
    <2>1. CASE fn = "query" /\ a = [r EXCEPT !.query = Append(r.query, v)]
        BY <1>1, <2>0, <2>1 DEF RequestOf
    <2>2. CASE fn = "retriable" /\ a = [r EXCEPT !.retriable = v]
        BY <1>1, <2>2 DEF RequestOf
    <2>3. CASE fn = "accept_status" /\ a = [r EXCEPT !.accept_extra = r.accept_extra \cup {v}]
        BY <1>1, <2>3 DEF RequestOf
    <2>4. CASE fn = "retry_on_status" /\ a = [r EXCEPT !.retry_on = r.retry_on \cup {v}]
        BY <1>1, <2>4 DEF RequestOf
    <2>5. CASE fn = "timeout" /\ a = [r EXCEPT !.timeout = v]
        BY <1>1, <2>5 DEF RequestOf
    <2>6. CASE fn = "deadline_at" /\ a = [r EXCEPT !.deadline_at = v]
        BY <1>1, <2>6 DEF RequestOf
    <2>7. CASE fn = "retry_observer" /\ a = [r EXCEPT !.observer = v]
        BY <1>1, <2>7 DEF RequestOf
    <2> QED BY <2>1, <2>2, <2>3, <2>4, <2>5, <2>6, <2>7
<1> HIDE DEF asks
<1>8. a = RequestOf(m, path, ver, asks, ExplicitsIn(more), AttachedIn(more), body,
                    ValueIn(more, "retriable", FALSE), Values(more, "accept_status"),
                    Values(more, "retry_on_status"), ValueIn(more, "timeout", None),
                    ValueIn(more, "deadline_at", None),
                    ValueIn(more, "retry_observer", None))
    BY <1>3, <1>4, <1>5, <1>6, <1>7
<1>9. /\ IsContext(AttachedIn(more)) /\ NoneOrFit(ExplicitsIn(more))
      /\ Asks(more, "deadline_at") => ValueIn(more, "deadline_at", None) \in Durations
      /\ Relayed(more) => AttachedIn(more) = FromHeaders(heads)
      /\ path \in Paths
    BY <1>1, <1>3, <1>4, <1>5
<1>10. AsAsked(a, more, heads)
    BY <1>8, <1>9, AsAskedOf
<1> QED BY <1>10 DEF more, c

\* So does a context attached.
LEMMA ContextsAsked ==
    ASSUME NEW made, IsList(made), NEW heads, NEW r, AsAsked(r, made, heads),
           NEW fn, fn \in {"context", "context_received"}, NEW v, IsContext(v),
           fn = "context_received" => v = FromHeaders(heads)
    PROVE  AsAsked([r EXCEPT !.context = v], Append(made, [fn |-> fn, value |-> v]), heads)
<1> DEFINE c      == [fn |-> fn, value |-> v]
           more   == Append(made, c)
           m      == r.method
           path   == r.path
           ver    == r.versioned
           query  == r.query
           own    == ExplicitsIn(made)
           ctx    == AttachedIn(made)
           body   == r.body
           again  == ValueIn(made, "retriable", FALSE)
           accept == Values(made, "accept_status")
           on     == Values(made, "retry_on_status")
           limit  == ValueIn(made, "timeout", None)
           end    == ValueIn(made, "deadline_at", None)
           hears  == ValueIn(made, "retry_observer", None)
           a      == [r EXCEPT !.context = v]
<1> HIDE DEF a
<1>0. /\ \A x, default : ValueIn(more, x, default)
                             = IF x = fn THEN v ELSE ValueIn(made, x, default)
      /\ \A x : Asks(more, x) <=> x = fn \/ Asks(made, x)
      /\ \A x : Values(more, x) = Values(made, x) \cup (IF x = fn THEN {v} ELSE {})
    <2> HIDE DEF m, path, ver, query, own, ctx, body, again, accept, on, limit, end, hears
    <2> QED BY CallMore
<1>1. /\ r = RequestOf(m, path, ver, query, own, ctx, body, again, accept, on, limit, end, hears)
      /\ NoneOrFit(own)
      /\ Asks(made, "deadline_at") => end \in Durations
      /\ path \in Paths
    BY AsAskedIs
<1>2. c.fn = fn /\ c.value = v /\ fn \in {"context", "context_received"}
    OBVIOUS
<1>3. ExplicitsIn(more) = own
    BY <1>2, CallMore
<1>4. AttachedIn(more) = v /\ (Relayed(more) <=> fn = "context_received")
    BY <1>2, AttachedMore
<1>5. /\ ValueIn(more, "retriable", FALSE) = again
      /\ ValueIn(more, "timeout", None) = limit
      /\ ValueIn(more, "deadline_at", None) = end
      /\ ValueIn(more, "retry_observer", None) = hears
      /\ Asks(more, "deadline_at") <=> Asks(made, "deadline_at")
    <2> HIDE DEF more
    <2> QED BY <1>0, <1>2
<1>6. Values(more, "accept_status") = accept /\ Values(more, "retry_on_status") = on
    <2> HIDE DEF more
    <2> QED BY <1>0, <1>2
<1> HIDE DEF c, more, m, path, ver, query, own, ctx, body, again, accept, on, limit, end, hears
<1>7. a = RequestOf(m, path, ver, query, own, v, body, again, accept, on, limit, end, hears)
    BY <1>1 DEF RequestOf, a
<1>8. a = RequestOf(m, path, ver, query, ExplicitsIn(more), AttachedIn(more), body,
                    ValueIn(more, "retriable", FALSE), Values(more, "accept_status"),
                    Values(more, "retry_on_status"), ValueIn(more, "timeout", None),
                    ValueIn(more, "deadline_at", None),
                    ValueIn(more, "retry_observer", None))
    BY <1>3, <1>4, <1>5, <1>6, <1>7
<1>9. /\ IsContext(AttachedIn(more)) /\ NoneOrFit(ExplicitsIn(more))
      /\ Asks(more, "deadline_at") => ValueIn(more, "deadline_at", None) \in Durations
      /\ Relayed(more) => AttachedIn(more) = FromHeaders(heads)
      /\ path \in Paths
    BY <1>1, <1>3, <1>4, <1>5
<1>10. AsAsked(a, more, heads)
    BY <1>8, <1>9, AsAskedOf
<1> QED BY <1>10 DEF more, c, a

\* And a header, or a body with its own.
LEMMA HeadersAsked ==
    ASSUME NEW made, IsList(made), NEW heads, NEW r, AsAsked(r, made, heads),
           NEW fn, NEW v, NEW a, NEW name \in HeaderNames, NEW value, NEW content,
           a = [r EXCEPT !.headers[name] = value, !.body = content],
           \/ /\ fn = "header" /\ v \in Headers /\ Fit(value)
              /\ name = v.name /\ value = v.value /\ content = r.body
           \/ /\ fn \in {"json", "body"} /\ name = "content-type" /\ value = v.content_type
    PROVE  AsAsked(a, Append(made, [fn |-> fn, value |-> v]), heads)
<1> DEFINE c      == [fn |-> fn, value |-> v]
           more   == Append(made, c)
           m      == r.method
           path   == r.path
           ver    == r.versioned
           query  == r.query
           own    == ExplicitsIn(made)
           ctx    == AttachedIn(made)
           body   == r.body
           again  == ValueIn(made, "retriable", FALSE)
           accept == Values(made, "accept_status")
           on     == Values(made, "retry_on_status")
           limit  == ValueIn(made, "timeout", None)
           end    == ValueIn(made, "deadline_at", None)
           hears  == ValueIn(made, "retry_observer", None)
           set    == [own EXCEPT ![name] = value]
<1>0. /\ \A x, default : ValueIn(more, x, default)
                             = IF x = fn THEN v ELSE ValueIn(made, x, default)
      /\ \A x : Asks(more, x) <=> x = fn \/ Asks(made, x)
      /\ \A x : Values(more, x) = Values(made, x) \cup (IF x = fn THEN {v} ELSE {})
    <2> HIDE DEF m, path, ver, query, own, ctx, body, again, accept, on, limit, end, hears
    <2> QED BY CallMore
<1>1. /\ r = RequestOf(m, path, ver, query, own, ctx, body, again, accept, on, limit, end, hears)
      /\ r.headers = own
      /\ IsContext(ctx) /\ NoneOrFit(own)
      /\ Asks(made, "deadline_at") => end \in Durations
      /\ Relayed(made) => ctx = FromHeaders(heads)
      /\ path \in Paths
    BY AsAskedIs
<1>2. c.fn = fn /\ c.value = v /\ fn \in {"header", "json", "body"}
    OBVIOUS
<1>3. ExplicitsIn(more) = set
    <2>1. \A x : SetsHeader(c, x) <=> x = name
        BY <1>2 DEF SetsHeader
    <2>2. HeaderSet(c) = value
        BY <1>2 DEF HeaderSet
    <2>3. ExplicitsIn(more) = [x \in HeaderNames |-> IF x = name THEN value ELSE own[x]]
        BY <2>1, <2>2, ExplicitsMore
    <2>4. own = [x \in HeaderNames |-> own[x]]
        BY DEF ExplicitsIn
    <2> HIDE DEF own
    <2> QED BY <2>3, <2>4
<1>4. AttachedIn(more) = ctx /\ (Relayed(more) <=> Relayed(made))
    BY <1>2, AttachedMore
<1>5. /\ ValueIn(more, "retriable", FALSE) = again
      /\ ValueIn(more, "timeout", None) = limit
      /\ ValueIn(more, "deadline_at", None) = end
      /\ ValueIn(more, "retry_observer", None) = hears
      /\ Asks(more, "deadline_at") <=> Asks(made, "deadline_at")
    <2> HIDE DEF more
    <2> QED BY <1>0, <1>2
<1>6. Values(more, "accept_status") = accept /\ Values(more, "retry_on_status") = on
    <2> HIDE DEF more
    <2> QED BY <1>0, <1>2
<1>7. NoneOrFit(set)
    <2>1. name \in PropagatedHeaders => Fit(value)
        BY DEF PropagatedHeaders
    <2>2. DOMAIN own = HeaderNames
        BY DEF ExplicitsIn
    <2> HIDE DEF own
    <2> QED BY <1>1, <2>1, <2>2 DEF NoneOrFit
<1> HIDE DEF c, more, m, path, ver, query, own, ctx, body, again, accept, on, limit, end, hears
<1>8. a = RequestOf(m, path, ver, query, set, ctx, content, again, accept, on, limit, end, hears)
    <2>1. a = [r EXCEPT !.headers = set, !.body = content]
        BY <1>1
    <2> HIDE DEF set
    <2> QED BY <1>1, <2>1 DEF RequestOf
<1> HIDE DEF set
<1>9. a = RequestOf(m, path, ver, query, ExplicitsIn(more), AttachedIn(more), content,
                    ValueIn(more, "retriable", FALSE), Values(more, "accept_status"),
                    Values(more, "retry_on_status"), ValueIn(more, "timeout", None),
                    ValueIn(more, "deadline_at", None),
                    ValueIn(more, "retry_observer", None))
    BY <1>3, <1>4, <1>5, <1>6, <1>8
<1>10. /\ IsContext(AttachedIn(more)) /\ NoneOrFit(ExplicitsIn(more))
       /\ Asks(more, "deadline_at") => ValueIn(more, "deadline_at", None) \in Durations
       /\ Relayed(more) => AttachedIn(more) = FromHeaders(heads)
      /\ path \in Paths
    BY <1>1, <1>3, <1>4, <1>5, <1>7
<1>11. AsAsked(a, more, heads)
    BY <1>9, <1>10, AsAskedOf
<1> QED BY <1>11 DEF more, c

-----------------------------------------------------------------------------
(* One step per action.                                                    *)

BuilderCalls ==
    {"base_path", "api_version", "bearer_token", "default_header", "retry", "attempt_timeout",
     "client.retry_observer"}

\* The calls on a request change nothing of its client.
LEMMA ClientStays ==
    ASSUME NEW made, IsList(made), NEW c, c.fn \notin BuilderCalls
    PROVE  /\ \A base, headers :
                  Configured(Append(made, c), base, headers) = Configured(made, base, headers)
           /\ DefaultsIn(Append(made, c)) = DefaultsIn(made)
           /\ ClientDefaultsIn(Append(made, c)) = ClientDefaultsIn(made)
<1>1. \A fn \in BuilderCalls : \A default :
          ValueIn(Append(made, c), fn, default) = ValueIn(made, fn, default)
    BY ValueMore
<1>2. \A base, headers :
          Configured(Append(made, c), base, headers) = Configured(made, base, headers)
    BY <1>1 DEF Configured, BuilderCalls
<1>3. \A name : DefaultIn(Append(made, c), name) = DefaultIn(made, name)
    BY DefaultMore DEF SetsDefault, BuilderCalls
<1>4. ClientDefaultsIn(Append(made, c)) = ClientDefaultsIn(made)
    BY <1>1, <1>3 DEF ClientDefaultsIn, BuilderCalls
<1> QED BY <1>2, <1>3, <1>4 DEF DefaultsIn

\* A setter of the builder.
LEMMA ConfigureKeeps ==
    ASSUME RequestInv, NEW c, calls' = Append(calls, c), client = None,
           UNCHANGED <<client, request, prepared, wire, received, issued>>,
           AsConfigured(builder', calls')
    PROVE  RequestInv'
<1>1. request = None /\ prepared = None /\ wire = << >>
    BY DEF RequestInv, RequestOK, PreparedOK
<1>2. IsList(calls)'
    BY NamedMore DEF RequestInv
<1>3. BuilderOK'
    BY DEF BuilderOK
<1> QED BY <1>1, <1>2, <1>3 DEF RequestInv, ClientOK, RequestOK, PreparedOK, WireOK

\* A setter of the request.
LEMMA AskKeeps ==
    ASSUME RequestInv, NEW c, calls' = Append(calls, c),
           c.fn \notin BuilderCalls \cup {"request"},
           request # None, prepared = None,
           UNCHANGED <<builder, client, prepared, wire, received, issued>>,
           request' # None => AsAsked(request', Append(AskedIn(calls), c), received)
    PROVE  RequestInv'
<1>1. wire = << >> /\ client # None
    BY DEF RequestInv, PreparedOK, RequestOK
<1>2. IsList(calls)' /\ AskedIn(calls)' = Append(AskedIn(calls), c)
    BY NamedMore, AskedMore DEF RequestInv
<1>3. BuilderOK' /\ ClientOK'
    BY ClientStays DEF RequestInv, BuilderOK, AsConfigured, ClientOK
<1>4. RequestOK'
    BY <1>1, <1>2 DEF RequestOK
<1> QED BY <1>1, <1>2, <1>3, <1>4 DEF RequestInv, PreparedOK, WireOK

LEMMA RequestKeeps ==
    ASSUME RequestInv, Request
    PROVE  RequestInv'
<1>1. PICK target \in Targets :
          request' = New(target) /\ calls' = Append(calls, [fn |-> "request", value |-> target])
    BY DEF Request, Noted
<1> DEFINE c == [fn |-> "request", value |-> target]
<1>2. /\ client # None /\ request = None
      /\ UNCHANGED <<builder, client, prepared, wire, received, issued>>
    BY DEF Request
<1>3. prepared = None /\ wire = << >>
    BY <1>2 DEF RequestInv, PreparedOK
<1>4. c.fn = "request"
    OBVIOUS
<1> HIDE DEF c
<1>5. IsList(calls)' /\ AskedIn(calls)' = << >>
    BY <1>1, <1>4, NamedMore, AskedMore DEF RequestInv, c
<1>6. BuilderOK' /\ ClientOK'
    <2>1. calls' = Append(calls, c) /\ c.fn \notin BuilderCalls /\ IsList(calls)
        BY <1>1, <1>4 DEF c, BuilderCalls, RequestInv
    <2> QED BY <1>2, <2>1, ClientStays DEF RequestInv, BuilderOK, AsConfigured, ClientOK
<1>7. AsAsked(New(target), << >>, received)
    <2>1. ExplicitsIn(<< >>) = NoHeaders /\ AttachedIn(<< >>) = EmptyContext
        BY NothingAsked DEF ExplicitsIn, NoHeaders
    <2>2. /\ Values(<< >>, "accept_status") = {} /\ Values(<< >>, "retry_on_status") = {}
          /\ ValueIn(<< >>, "retriable", FALSE) = FALSE
          /\ ValueIn(<< >>, "timeout", None) = None
          /\ ValueIn(<< >>, "deadline_at", None) = None
          /\ ValueIn(<< >>, "retry_observer", None) = None
          /\ ~Asks(<< >>, "deadline_at") /\ ~Relayed(<< >>)
        BY NothingAsked
    <2>3. New(target) = RequestOf(target.method, target.path, target.versioned, << >>,
                                  NoHeaders, EmptyContext, None, FALSE, {}, {}, None, None, None)
        BY DEF New, RequestOf
    <2>4. IsContext(EmptyContext) /\ NoneOrFit(NoHeaders)
        BY HeadersAssumption DEF IsContext, EmptyContext, NoneOrFit, NoHeaders
    <2> HIDE DEF NoHeaders, EmptyContext
    <2>5. target.path \in Paths
        BY DEF Paths
    <2> QED BY <2>1, <2>2, <2>3, <2>4, <2>5, AsAskedOf
<1>8. RequestOK'
    BY <1>1, <1>2, <1>5, <1>7 DEF RequestOK
<1> QED BY <1>2, <1>3, <1>5, <1>6, <1>8 DEF RequestInv, PreparedOK, WireOK

LEMMA BuildKeeps ==
    ASSUME RequestInv, Build
    PROVE  RequestInv'
<1> DEFINE token == ValueIn(calls, "bearer_token", None)
           defs  == DefaultsIn(calls)
           base  == builder.base_url
           set   == [defs EXCEPT !["authorization"] = Bearer(token)]
<1>1. /\ builder' = None /\ client = None
      /\ UNCHANGED <<request, prepared, wire, received, issued, calls>>
      /\ AsConfigured(builder, calls)
    BY DEF Build, RequestInv, BuilderOK
<1>2. request = None /\ prepared = None /\ wire = << >>
    BY <1>1 DEF RequestInv, RequestOK, PreparedOK
<1>3. /\ builder = Configured(calls, base, defs) /\ NoneOrFit(defs)
      /\ builder.default_headers = defs /\ builder.bearer_token = token /\ base \in Bases
    BY <1>1, ConfiguredIs
<1>4. /\ token = None => ClientDefaultsIn(calls) = defs
      /\ token # None => ClientDefaultsIn(calls) = set
    BY HeadersAssumption DEF ClientDefaultsIn, DefaultsIn
<1>5. NoneOrFit(set)
    <2>1. "authorization" \notin PropagatedHeaders
        BY DEF PropagatedHeaders
    <2>2. DOMAIN defs = HeaderNames
        BY DEF DefaultsIn
    <2> HIDE DEF defs
    <2> QED BY <1>3, <2>1, <2>2 DEF NoneOrFit
<1>6. [builder EXCEPT !.default_headers["authorization"] = Bearer(builder.bearer_token)]
          = [builder EXCEPT !.default_headers = set]
    <2> HIDE DEF token, defs
    <2> QED BY <1>3
<1>7. /\ token = None => client' = builder
      /\ token # None => client' \in {[builder EXCEPT !.default_headers = set], None}
    <2> HIDE DEF token, defs, set
    <2> QED BY <1>3, <1>6 DEF Build
<1>8. [builder EXCEPT !.default_headers = set] = Configured(calls, base, set)
    <2> DEFINE path     == ValueIn(calls, "base_path", <<"/", "api">>)
               version  == ValueIn(calls, "api_version", 1)
               policy   == ValueIn(calls, "retry", None)
               timeout  == ValueIn(calls, "attempt_timeout", None)
               observer == ValueIn(calls, "client.retry_observer", None)
    <2>1. builder = BuilderOf(base, path, version, token, policy, timeout, observer, defs)
        BY <1>3 DEF Configured
    <2>2. Configured(calls, base, set)
              = BuilderOf(base, path, version, token, policy, timeout, observer, set)
        BY DEF Configured
    <2> HIDE DEF base, path, version, token, policy, timeout, observer, set, defs
    <2> QED BY <2>1, <2>2 DEF BuilderOf
<1> HIDE DEF token, defs, set
<1>9. ClientOK'
    <2>1. SUFFICES ASSUME client' # None
                   PROVE  /\ client' = Configured(calls, client'.base_url, ClientDefaultsIn(calls))
                          /\ client'.base_url \in Bases
                          /\ NoneOrFit(client'.default_headers)
        BY <1>1 DEF ClientOK
    <2>2. PICK h : h = ClientDefaultsIn(calls) /\ NoneOrFit(h) /\ client' = Configured(calls, base, h)
        BY <1>3, <1>4, <1>5, <1>7, <1>8, <2>1
    <2>3. client'.base_url = base /\ client'.default_headers = h
        BY <2>2, BuilderFields DEF Configured
    <2> QED BY <1>3, <2>2, <2>3
<1> QED BY <1>1, <1>2, <1>9 DEF RequestInv, BuilderOK, RequestOK, PreparedOK, WireOK

LEMMA LayeredFit ==
    ASSUME NEW defaults, NEW ctx, NEW own, NEW id, NoneOrFit(defaults), NoneOrFit(own)
    PROVE  NoneOrFit(Layered(defaults, ctx, own, id))
<1>1. PICK some : Layered(defaults, ctx, own, id)
                      = Overlaid(Overlaid(defaults, ToHeaders(some)), own)
    BY DEF Layered
<1>2. NoneOrFit(ToHeaders(some))
    BY HeadersAssumption DEF NoneOrFit, ToHeaders
<1> HIDE DEF Layered
<1> QED BY <1>1, <1>2, HeadersAssumption DEF NoneOrFit, Overlaid

LEMMA ExecuteKeeps ==
    ASSUME RequestInv, Execute
    PROVE  RequestInv'
<1>1. /\ request # None /\ prepared = None
      /\ UNCHANGED <<builder, client, request, wire, received, calls>>
      /\ prepared' = [url |-> UrlString(request), headers |-> EffectiveHeaders(request),
                      settings |-> Settings(request)]
      /\ issued' = IF request.context["x-request-id"] = None THEN issued + 1 ELSE issued
    BY DEF Execute
<1>2. wire = << >>
    BY <1>1 DEF RequestInv, PreparedOK
<1>3. /\ prepared'.headers = EffectiveHeaders(request) /\ prepared'.settings = Settings(request)
      /\ prepared'.url = UrlString(request)
    BY <1>1
<1>4. EffectiveHeaders(request)
          = Layered(client.default_headers, request.context, request.headers, Uuids[issued'])
    BY <1>1 DEF EffectiveHeaders, Layered, EnsureRequestId
<1>5. Settings(request)' = Settings(request) /\ UrlString(request)' = UrlString(request)
    BY <1>1 DEF Settings, RetryAllowed, UrlString
<1>6. PreparedOK'
    BY <1>1, <1>2, <1>3, <1>4, <1>5 DEF PreparedOK
<1>7. WireOK'
    BY <1>1, <1>2 DEF RequestInv, WireOK
<1>8. BuilderOK' /\ ClientOK' /\ RequestOK' /\ IsList(calls)'
    BY <1>1 DEF RequestInv, BuilderOK, ClientOK, RequestOK
<1> QED BY <1>6, <1>7, <1>8 DEF RequestInv

LEMMA AttemptKeeps ==
    ASSUME RequestInv, Attempt
    PROVE  RequestInv'
<1>1. /\ prepared # None /\ wire' = Append(wire, Message(Len(wire) + 1))
      /\ wire # << >> => prepared.settings.retry # None
      /\ UNCHANGED <<builder, client, request, prepared, received, issued, calls>>
    BY DEF Attempt
<1>2. Message(Len(wire) + 1) = Message(1) /\ Message(1)' = Message(1)
    BY <1>1 DEF Message
<1>3. wire \in Seq({Message(1)})
    BY <1>1 DEF RequestInv, WireOK
<1>4. wire' \in Seq({Message(1)}) /\ Len(wire') = Len(wire) + 1
    BY <1>1, <1>2, <1>3
<1>5. Len(wire') > 1 => prepared.settings.retry # None
    BY <1>1, <1>3, <1>4
<1>6. WireOK'
    BY <1>1, <1>2, <1>4, <1>5 DEF RequestInv, WireOK
<1>7. PreparedOK'
    BY <1>1 DEF RequestInv, PreparedOK, Settings, RetryAllowed, UrlString
<1>8. BuilderOK' /\ ClientOK' /\ RequestOK' /\ IsList(calls)'
    BY <1>1 DEF RequestInv, BuilderOK, ClientOK, RequestOK
<1> QED BY <1>6, <1>7, <1>8 DEF RequestInv

\* What a service receives is what the request was prepared with.
LEMMA ReceivedIs ==
    ASSUME RequestInv, Return
    PROVE  received' \in {received, prepared.headers}
<1>1. CASE wire = << >>
    BY <1>1 DEF Return
<1>2. CASE wire # << >>
    <2>1. wire \in Seq({Message(1)}) /\ received' = Last(wire).headers
        BY <1>2 DEF Return, RequestInv, WireOK
    <2>2. Last(wire) = Message(1)
        BY <1>2, <2>1 DEF Last
    <2>3. Message(1).headers = prepared.headers
        BY DEF Message
    <2> QED BY <2>1, <2>2, <2>3
<1> QED BY <1>1, <1>2

LEMMA ReturnKeeps ==
    ASSUME RequestInv, Return
    PROVE  RequestInv'
<1>1. /\ prepared # None /\ request' = None /\ prepared' = None /\ wire' = << >>
      /\ UNCHANGED <<builder, client, issued, calls>>
    BY DEF Return
<1>2. NoneOrFit(prepared.headers)
    <2>1. /\ request # None /\ client # None /\ AsAsked(request, AskedIn(calls), received)
          /\ NoneOrFit(client.default_headers)
          /\ prepared.headers = Layered(client.default_headers, request.context,
                                        request.headers, Uuids[issued])
        BY <1>1 DEF RequestInv, PreparedOK, RequestOK, ClientOK
    <2>2. NoneOrFit(request.headers)
        BY <2>1 DEF AsAsked
    <2> QED BY <2>1, <2>2, LayeredFit
<1>3. NoneOrFit(received')
    BY <1>2, ReceivedIs DEF RequestInv, WireOK
<1>4. BuilderOK' /\ ClientOK' /\ RequestOK' /\ IsList(calls)' /\ PreparedOK' /\ WireOK'
    BY <1>1, <1>3 DEF RequestInv, BuilderOK, ClientOK, RequestOK, PreparedOK, WireOK
<1> QED BY <1>4 DEF RequestInv
\* The builder is there while it is configured.
LEMMA SettersKeep ==
    ASSUME RequestInv,
           BasePath \/ ApiVersion \/ BearerToken \/ Retry \/ ClientAttemptTimeout
               \/ ClientObserver \/ DefaultHeader
    PROVE  RequestInv'
<1>1. PICK fn, v : /\ client = None /\ builder # None
                   /\ calls' = Append(calls, [fn |-> fn, value |-> v])
                   /\ UNCHANGED <<client, request, prepared, wire, received, issued>>
                   /\ \/ fn = "base_path" /\ builder' = [builder EXCEPT !.base_path = v]
                      \/ fn = "api_version" /\ builder' = [builder EXCEPT !.version = v]
                      \/ fn = "bearer_token" /\ builder' = [builder EXCEPT !.bearer_token = v]
                      \/ fn = "retry" /\ builder' = [builder EXCEPT !.retry = v]
                      \/ fn = "attempt_timeout"
                         /\ builder' = [builder EXCEPT !.attempt_timeout = v]
                      \/ fn = "client.retry_observer"
                         /\ builder' = [builder EXCEPT !.observer = v]
                      \/ /\ fn = "default_header" /\ v \in DefaultHeaders
                         /\ builder' = [builder EXCEPT !.default_headers[v.name] = v.value]
    <2>1. CASE BasePath
        BY <2>1 DEF BasePath, Configure, Noted
    <2>2. CASE ApiVersion
        BY <2>2 DEF ApiVersion, Configure, Noted
    <2>3. CASE BearerToken
        BY <2>3 DEF BearerToken, Configure, Noted
    <2>4. CASE Retry
        BY <2>4 DEF Retry, Configure, Noted
    <2>5. CASE ClientAttemptTimeout
        BY <2>5 DEF ClientAttemptTimeout, Configure, Noted
    <2>6. CASE ClientObserver
        BY <2>6 DEF ClientObserver, Configure, Noted
    <2>7. CASE DefaultHeader
        BY <2>7 DEF DefaultHeader, Configure, Noted
    <2> QED BY <2>1, <2>2, <2>3, <2>4, <2>5, <2>6, <2>7
<1>2. IsList(calls) /\ AsConfigured(builder, calls)
    BY <1>1 DEF RequestInv, BuilderOK
<1>3. AsConfigured(builder', calls')
    <2>1. CASE fn = "default_header"
        BY <1>1, <1>2, <2>1, DefaultHeaderConfigures
    <2>2. CASE fn # "default_header"
        BY <1>1, <1>2, <2>2, SettersConfigure
    <2> QED BY <2>1, <2>2
<1> QED BY <1>1, <1>3, ConfigureKeeps

\* So is the request while it is asked.
LEMMA AsksKeep ==
    ASSUME RequestInv,
           \/ Query \/ Header \/ Context \/ ContextReceived \/ Json \/ Body \/ Retriable
           \/ AcceptStatus \/ RetryOnStatus \/ Timeout \/ DeadlineAt \/ Observer
    PROVE  RequestInv'
<1> DEFINE made == AskedIn(calls)
           Asking(fn, v) == /\ request # None /\ prepared = None
                            /\ calls' = Append(calls, [fn |-> fn, value |-> v])
                            /\ UNCHANGED <<builder, client, prepared, wire, received, issued>>
           Leaves(fn, v) == request' # None =>
                               AsAsked(request', Append(made, [fn |-> fn, value |-> v]), received)
<1>0. IsList(made) /\ (request # None => AsAsked(request, made, received))
    BY AskedMore DEF RequestInv, RequestOK
<1> SUFFICES \E fn, v : /\ fn \notin BuilderCalls \cup {"request"}
                        /\ Asking(fn, v) /\ Leaves(fn, v)
    BY AskKeeps
<1> HIDE DEF made
<1>1. CASE Query \/ Retriable \/ AcceptStatus \/ RetryOnStatus \/ Timeout \/ DeadlineAt
           \/ Observer
    <2>1. PICK fn, v :
              /\ Asking(fn, v)
              /\ \/ fn = "query" /\ request' = [request EXCEPT !.query = Append(request.query, v)]
                 \/ fn = "retriable" /\ request' = [request EXCEPT !.retriable = v]
                 \/ /\ fn = "accept_status"
                    /\ request' = [request EXCEPT !.accept_extra = request.accept_extra \cup {v}]
                 \/ /\ fn = "retry_on_status"
                    /\ request' = [request EXCEPT !.retry_on = request.retry_on \cup {v}]
                 \/ fn = "timeout" /\ request' = [request EXCEPT !.timeout = v]
                 \/ /\ fn = "deadline_at" /\ v \in Durations
                    /\ request' = [request EXCEPT !.deadline_at = v]
                 \/ fn = "retry_observer" /\ request' = [request EXCEPT !.observer = v]
        <3>1. CASE Query
            BY <3>1 DEF Query, Ask, Noted
        <3>2. CASE Retriable
            BY <3>2 DEF Retriable, Ask, Noted
        <3>3. CASE AcceptStatus
            BY <3>3 DEF AcceptStatus, Ask, Noted
        <3>4. CASE RetryOnStatus
            BY <3>4 DEF RetryOnStatus, Ask, Noted
        <3>5. CASE Timeout
            BY <3>5 DEF Timeout, Ask, Noted
        <3>6. CASE DeadlineAt
            BY <3>6 DEF DeadlineAt, Ask, Noted
        <3>7. CASE Observer
            BY <3>7 DEF Observer, Ask, Noted
        <3> QED BY <1>1, <3>1, <3>2, <3>3, <3>4, <3>5, <3>6, <3>7
    <2>2. Leaves(fn, v)
        BY <1>0, <2>1, SettingsAsked
    <2>3. fn \notin BuilderCalls \cup {"request"}
        BY <2>1 DEF BuilderCalls
    <2> QED BY <2>1, <2>2, <2>3
<1>2. CASE Context
    <2>1. PICK v \in Contexts :
              Asking("context", v) /\ request' = [request EXCEPT !.context = v]
        BY <1>2 DEF Context, Ask, Noted
    <2>2. IsContext(v)
        BY ContextsAssumption DEF IsContext
    <2>3. AsAsked([request EXCEPT !.context = v],
                  Append(made, [fn |-> "context", value |-> v]), received)
        BY <1>0, <2>1, <2>2, ContextsAsked
    <2>4. "context" \notin BuilderCalls \cup {"request"}
        BY DEF BuilderCalls
    <2> QED BY <2>1, <2>3, <2>4
<1>3. CASE ContextReceived
    <2> DEFINE v == FromHeaders(received)
    <2>1. Asking("context_received", v) /\ request' = [request EXCEPT !.context = v]
        BY <1>3 DEF ContextReceived, Ask, Noted
    <2>2. IsContext(v)
        BY DEF IsContext, FromHeaders
    <2>3. AsAsked([request EXCEPT !.context = v],
                  Append(made, [fn |-> "context_received", value |-> v]), received)
        BY <1>0, <2>1, <2>2, ContextsAsked
    <2>4. "context_received" \notin BuilderCalls \cup {"request"}
        BY DEF BuilderCalls
    <2> HIDE DEF v
    <2> QED BY <2>1, <2>3, <2>4
<1>4. CASE Header
    <2>1. PICK v \in Headers :
              /\ Asking("header", v)
              /\ request' = IF Fit(v.value) THEN [request EXCEPT !.headers[v.name] = v.value]
                            ELSE None
        BY <1>4 DEF Header, Ask, Noted
    <2>2. v.name \in HeaderNames
        BY HeadersAssumption
    <2>3. ASSUME Fit(v.value)
          PROVE  AsAsked([request EXCEPT !.headers[v.name] = v.value, !.body = request.body],
                         Append(made, [fn |-> "header", value |-> v]), received)
        BY <1>0, <2>1, <2>2, <2>3, HeadersAsked
    <2>4. [request EXCEPT !.headers[v.name] = v.value, !.body = request.body]
              = [request EXCEPT !.headers[v.name] = v.value]
        OBVIOUS
    <2>5. "header" \notin BuilderCalls \cup {"request"}
        BY DEF BuilderCalls
    <2> QED BY <2>1, <2>3, <2>4, <2>5
<1>5. CASE Json
    <2>1. PICK body : LET v == [body |-> body, content_type |-> "application/json"]
                      IN  /\ Asking("json", v)
                          /\ \/ request' = None
                             \/ request' = [request EXCEPT
                                              !.headers["content-type"] = v.content_type,
                                              !.body = body]
        BY <1>5 DEF Json, Ask, Noted
    <2> DEFINE v == [body |-> body, content_type |-> "application/json"]
    <2>2. "content-type" \in HeaderNames
        BY HeadersAssumption
    <2>3. AsAsked([request EXCEPT !.headers["content-type"] = v.content_type, !.body = body],
                  Append(made, [fn |-> "json", value |-> v]), received)
        <3> HIDE DEF v
        <3> QED BY <1>0, <2>1, <2>2, HeadersAsked
    <2>4. "json" \notin BuilderCalls \cup {"request"}
        BY DEF BuilderCalls
    <2> HIDE DEF v
    <2> QED BY <2>1, <2>3, <2>4 DEF v
<1>6. CASE Body
    <2>1. PICK v \in RawBodies :
              /\ Asking("body", v)
              /\ \/ request' = None
                 \/ request' = [request EXCEPT !.headers["content-type"] = v.content_type,
                                               !.body = v.body]
        BY <1>6 DEF Body, Ask, Noted
    <2>2. "content-type" \in HeaderNames
        BY HeadersAssumption
    <2>3. AsAsked([request EXCEPT !.headers["content-type"] = v.content_type, !.body = v.body],
                  Append(made, [fn |-> "body", value |-> v]), received)
        BY <1>0, <2>1, <2>2, HeadersAsked
    <2>4. "body" \notin BuilderCalls \cup {"request"}
        BY DEF BuilderCalls
    <2> QED BY <2>1, <2>3, <2>4
<1> QED BY <1>1, <1>2, <1>3, <1>4, <1>5, <1>6

LEMMA StepKeepsRequest ==
    ASSUME RequestInv, [Next]_vars
    PROVE  RequestInv'
<1>1. CASE BasePath \/ ApiVersion \/ BearerToken \/ Retry \/ ClientAttemptTimeout
           \/ ClientObserver \/ DefaultHeader
    BY <1>1, SettersKeep
<1>2. CASE Build
    BY <1>2, BuildKeeps
<1>3. CASE Request
    BY <1>3, RequestKeeps
<1>4. CASE \/ Query \/ Header \/ Context \/ ContextReceived \/ Json \/ Body \/ Retriable
           \/ AcceptStatus \/ RetryOnStatus \/ Timeout \/ DeadlineAt \/ Observer
    BY <1>4, AsksKeep
<1>5. CASE Execute
    BY <1>5, ExecuteKeeps
<1>6. CASE Attempt
    BY <1>6, AttemptKeeps
<1>7. CASE Return
    BY <1>7, ReturnKeeps
<1>8. CASE UNCHANGED vars
    BY <1>8 DEF vars, RequestInv, BuilderOK, ClientOK, RequestOK, PreparedOK, WireOK, Settings,
                RetryAllowed, UrlString, Message
<1> QED BY <1>1, <1>2, <1>3, <1>4, <1>5, <1>6, <1>7, <1>8 DEF Next

LEMMA InitRequest ==
    ASSUME Init
    PROVE  RequestInv
<1>1. /\ client = None /\ request = None /\ prepared = None /\ wire = << >>
      /\ received = NoHeaders /\ calls = << >>
    BY DEF Init
<1>2. PICK base \in Bases : builder = BuilderOf(base, <<"/", "api">>, 1, None, None, None, None, NoHeaders)
    BY DEF Init, BuilderOf
<1>3. DefaultsIn(<< >>) = NoHeaders
    BY NothingAsked DEF DefaultsIn, NoHeaders
<1>4. \A fn, default : ValueIn(<< >>, fn, default) = default
    BY NothingAsked
<1>5. builder.base_url = base /\ builder.default_headers = NoHeaders
    <2> HIDE DEF NoHeaders
    <2> QED BY <1>2, BuilderFields
<1>6. NoneOrFit(NoHeaders)
    BY HeadersAssumption DEF NoneOrFit, NoHeaders
<1>7. AsConfigured(builder, << >>)
    BY <1>2, <1>3, <1>4, <1>5, <1>6 DEF AsConfigured, Configured
<1> QED BY <1>1, <1>6, <1>7, NothingAsked DEF RequestInv, BuilderOK, ClientOK, RequestOK,
                                              PreparedOK, WireOK

LEMMA RequestAlways == Spec => []RequestInv
<1>1. Init => RequestInv
    BY InitRequest
<1>2. RequestInv /\ [Next]_vars => RequestInv'
    BY StepKeepsRequest
<1> QED BY <1>1, <1>2, PTL DEF Spec
-----------------------------------------------------------------------------
(* What the properties say.                                                *)

\* The client and the request, in the calls the properties look up.
LEMMA RequestIs ==
    ASSUME RequestInv, prepared # None
    PROVE  /\ request # None /\ Asked = AskedIn(calls) /\ IsList(Asked)
           /\ client.default_headers = ClientDefaultsIn(calls)
           /\ client.retry = ValueIn(calls, "retry", None)
           /\ client.attempt_timeout = ValueIn(calls, "attempt_timeout", None)
           /\ client.observer = ValueIn(calls, "client.retry_observer", None)
           /\ AsAsked(request, Asked, received)
<1>1. /\ request # None /\ client # None /\ AsAsked(request, AskedIn(calls), received)
      /\ client = Configured(calls, client.base_url, ClientDefaultsIn(calls))
      /\ IsList(calls)
    BY DEF RequestInv, PreparedOK, RequestOK, ClientOK
<1>2. Asked = AskedIn(calls) /\ IsList(Asked)
    BY <1>1, LookupsAgree, AskedMore
<1>3. /\ client.default_headers = ClientDefaultsIn(calls)
      /\ client.retry = ValueIn(calls, "retry", None)
      /\ client.attempt_timeout = ValueIn(calls, "attempt_timeout", None)
      /\ client.observer = ValueIn(calls, "client.retry_observer", None)
    <2> DEFINE defs     == ClientDefaultsIn(calls)
               path     == ValueIn(calls, "base_path", <<"/", "api">>)
               version  == ValueIn(calls, "api_version", 1)
               token    == ValueIn(calls, "bearer_token", None)
               policy   == ValueIn(calls, "retry", None)
               timeout  == ValueIn(calls, "attempt_timeout", None)
               observer == ValueIn(calls, "client.retry_observer", None)
    <2>1. client = BuilderOf(client.base_url, path, version, token, policy, timeout, observer, defs)
        BY <1>1 DEF Configured
    <2> HIDE DEF path, version, token, policy, timeout, observer, defs
    <2>2. /\ client.default_headers = defs /\ client.retry = policy
          /\ client.attempt_timeout = timeout /\ client.observer = observer
        BY <2>1 DEF BuilderOf
    <2> QED BY <2>2 DEF policy, timeout, observer, defs
<1> QED BY <1>1, <1>2, <1>3

LEMMA PreparedIs ==
    ASSUME RequestInv, prepared # None
    PROVE  /\ prepared.headers = Layered(ClientDefaultsIn(calls), AttachedIn(Asked),
                                         ExplicitsIn(Asked), Uuids[issued])
           /\ \A i \in DOMAIN wire : wire[i].headers = prepared.headers
<1>1. prepared.headers = Layered(client.default_headers, request.context, request.headers,
                                 Uuids[issued])
    BY DEF RequestInv, PreparedOK
<1>2. request.headers = ExplicitsIn(Asked) /\ request.context = AttachedIn(Asked)
    BY RequestIs, AsAskedIs
<1>3. client.default_headers = ClientDefaultsIn(calls)
    BY RequestIs
<1>4. \A i \in DOMAIN wire : wire[i] = Message(1)
    BY DEF RequestInv, WireOK
<1>5. Message(1).headers = prepared.headers
    BY DEF Message
<1> QED BY <1>1, <1>2, <1>3, <1>4, <1>5

\* Without a prepared request nothing is on the wire.
LEMMA NothingSent ==
    ASSUME RequestInv, prepared = None
    PROVE  DOMAIN wire = {}
<1>1. wire = << >>
    BY DEF RequestInv, PreparedOK
<1> QED BY <1>1

\* All attempts of a request are the same message, whatever was asked of it
\* and whatever ids are generated: what execute computes before its loop is
\* all that its attempts send.
THEOREM SameOnEveryAttempt == Spec => []SameRequestOnEveryAttempt
<1>1. RequestInv => SameRequestOnEveryAttempt
    <2> SUFFICES ASSUME RequestInv, NEW i \in DOMAIN wire, NEW j \in DOMAIN wire
                 PROVE  wire[i] = wire[j]
        BY DEF SameRequestOnEveryAttempt
    <2>1. wire \in Seq({Message(1)})
        BY NothingSent DEF RequestInv, WireOK
    <2> QED BY <2>1
<1> QED BY <1>1, RequestAlways, PTL

LEMMA HeardOf ==
    ASSUME NEW a, NEW b
    PROVE  ToSet(Present(a) \o Present(b)) = {a, b} \ {None}
<1>1. CASE a = None /\ b = None
    BY <1>1 DEF ToSet, Present
<1>2. CASE a # None /\ b = None
    <2>1. Present(a) \o Present(b) = <<a>>
        BY <1>2 DEF Present
    <2> QED BY <1>2, <2>1 DEF ToSet
<1>3. CASE a = None /\ b # None
    <2>1. Present(a) \o Present(b) = <<b>>
        BY <1>3 DEF Present
    <2> QED BY <1>3, <2>1 DEF ToSet
<1>4. CASE a # None /\ b # None
    <2>0. Present(a) = <<a>> /\ Present(b) = <<b>>
        BY <1>4 DEF Present
    <2>1. <<a>> \in Seq({a, b}) /\ <<b>> \in Seq({a, b}) /\ Len(<<a>>) = 1 /\ Len(<<b>>) = 1
        OBVIOUS
    <2>2. PICK s : s = <<a>> \o <<b>>
        OBVIOUS
    <2>3. s \in Seq({a, b}) /\ Len(s) = 2 /\ s[1] = a /\ s[2] = b
        BY <2>1, <2>2
    <2>4. DOMAIN s = {1, 2}
        BY <2>3
    <2> QED BY <1>4, <2>0, <2>2, <2>3, <2>4 DEF ToSet
<1> QED BY <1>1, <1>2, <1>3, <1>4

\* What the send loop is told is what the calls asked for, in any order and
\* of any number: the settings of execute read fields that each hold the last
\* value a setter gave them, or, of the statuses, all of them.
THEOREM LoopIsToldWhatWasAsked == Spec => []LoopGetsWhatWasAsked
<1>1. ASSUME RequestInv, prepared # None
      PROVE  LoopGetsWhatWasAsked
    <2> DEFINE told   == prepared.settings
               policy == ValueIn(calls, "retry", None)
    <2>1. /\ Asked = AskedIn(calls) /\ IsList(Asked) /\ client.retry = policy
          /\ client.attempt_timeout = ValueIn(calls, "attempt_timeout", None)
          /\ client.observer = ValueIn(calls, "client.retry_observer", None)
          /\ AsAsked(request, Asked, received)
        BY <1>1, RequestIs
    <2>2. /\ request.retriable = ValueIn(Asked, "retriable", FALSE)
          /\ request.accept_extra = Values(Asked, "accept_status")
          /\ request.retry_on = Values(Asked, "retry_on_status")
          /\ request.timeout = ValueIn(Asked, "timeout", None)
          /\ request.deadline_at = ValueIn(Asked, "deadline_at", None)
          /\ request.observer = ValueIn(Asked, "retry_observer", None)
          /\ Asks(Asked, "deadline_at") => ValueIn(Asked, "deadline_at", None) \in Durations
        BY <2>1, AsAskedIs
    <2>3. told = Settings(request)
        BY <1>1 DEF RequestInv, PreparedOK
    <2>4. /\ told.accept = request.accept_extra /\ told.retry_on = request.retry_on
          /\ told.timeout = request.timeout /\ told.attempt_timeout = client.attempt_timeout
          /\ told.retry = IF RetryAllowed(request) THEN client.retry ELSE None
          /\ told.observers = Present(client.observer) \o Present(request.observer)
          /\ told.deadline = Or(request.deadline_at, IF client.retry = None THEN None
                                                     ELSE client.retry.deadline)
        BY <2>3 DEF Settings
    <2>5. \A default : told.deadline = ValueIn(Asked, "deadline_at", default)
                           \/ /\ ~Asks(Asked, "deadline_at")
                              /\ told.deadline = IF policy = None THEN None ELSE policy.deadline
        BY <2>1, <2>2, <2>4, DurationsAssumption DEF Or, ValueIn, Asks
    <2>6. \A default : ~Asks(Asked, "deadline_at") =>
                           ValueIn(Asked, "deadline_at", default) = default
        BY DEF Asks, ValueIn
    <2>7. told.deadline = ValueIn(Asked, "deadline_at",
                                  IF policy = None THEN None ELSE policy.deadline)
        BY <2>5, <2>6
    <2>8. ToSet(told.observers) =
              {ValueIn(calls, "client.retry_observer", None),
               ValueIn(Asked, "retry_observer", None)} \ {None}
        BY <2>1, <2>2, <2>4, HeardOf
    <2>9. ASSUME Len(wire) > 1
          PROVE  /\ policy # None
                 /\ request.method \in {"GET", "HEAD", "DELETE", "PUT"}
                    \/ ValueIn(Asked, "retriable", FALSE)
        <3>1. told.retry # None
            BY <1>1, <2>9 DEF RequestInv, WireOK
        <3> QED BY <2>1, <2>2, <2>4, <3>1 DEF RetryAllowed, IsIdempotent
    <2>10. \A made, fn, default : LastValue(made, fn, default) = ValueIn(made, fn, default)
        BY LookupsAgree
    <2> HIDE DEF told, policy
    <2> QED BY <2>1, <2>2, <2>4, <2>7, <2>8, <2>9, <2>10 DEF LoopGetsWhatWasAsked, told, policy
<1>2. RequestInv => LoopGetsWhatWasAsked
    BY <1>1 DEF LoopGetsWhatWasAsked
<1> QED BY <1>2, RequestAlways, PTL

\* What a header of a message is, by layers.
LEMMA LayersOf ==
    ASSUME NEW defaults, NEW ctx, IsContext(ctx), NEW own, NEW id, NEW name \in HeaderNames
    PROVE  LET known == IF ctx["x-request-id"] = None /\ name = "x-request-id" THEN id
                        ELSE ctx[name]
           IN  Layered(defaults, ctx, own, id)[name]
                   = IF own[name] # None THEN own[name]
                     ELSE IF name \in PropagatedHeaders /\ known # None /\ Fit(known) THEN known
                     ELSE defaults[name]
<1> DEFINE full == IF ctx["x-request-id"] = None THEN With(ctx, "x-request-id", id) ELSE ctx
           known == IF ctx["x-request-id"] = None /\ name = "x-request-id" THEN id
                    ELSE ctx[name]
<1>1. name \in PropagatedHeaders => full[name] = known
    <2>1. DOMAIN ctx = PropagatedHeaders
        BY DEF IsContext
    <2> QED BY <2>1 DEF With
<1> HIDE DEF full, known
<1>2. ToHeaders(full)[name] = IF name \in PropagatedHeaders /\ known # None /\ Fit(known)
                              THEN known ELSE None
    BY <1>1 DEF ToHeaders
<1>3. Layered(defaults, ctx, own, id) = Overlaid(Overlaid(defaults, ToHeaders(full)), own)
    BY DEF Layered, full
<1>4. Layered(defaults, ctx, own, id)[name]
          = IF own[name] # None THEN own[name]
            ELSE IF ToHeaders(full)[name] # None THEN ToHeaders(full)[name] ELSE defaults[name]
    BY <1>3 DEF Overlaid
<1> QED BY <1>2, <1>4 DEF known

\* A context received and attached goes on, every header of it that could be
\* read and that the service does not set itself: what was received is fit to
\* be sent, for it came in a message, and the id in it is not generated anew.
THEOREM TrackingGoesOn == Spec => []TrackingSurvivesTheChain
<1>1. RequestInv => TrackingSurvivesTheChain
    <2> SUFFICES ASSUME RequestInv, Relayed(Asked), NEW i \in DOMAIN wire,
                        NEW name \in PropagatedHeaders,
                        received[name] # None, Readable(received[name]), Explicit(name) = None
                 PROVE  wire[i].headers[name] = received[name]
        BY DEF TrackingSurvivesTheChain, Relayed, Attaching, LastOf, SelectLastInSeq
    <2>1. prepared # None
        BY NothingSent
    <2>2. name \in HeaderNames
        BY HeadersAssumption
    <2>3. AsAsked(request, Asked, received)
        BY <2>1, RequestIs
    <2>4. IsContext(AttachedIn(Asked)) /\ AttachedIn(Asked) = FromHeaders(received)
        BY <2>3, AsAskedIs
    <2>5. AttachedIn(Asked)[name] = received[name]
        BY <2>4 DEF FromHeaders
    <2>6. Fit(received[name])
        BY DEF RequestInv, WireOK, NoneOrFit
    <2>7. ExplicitsIn(Asked)[name] = None
        BY <2>2, LookupsAgree DEF ExplicitsIn
    <2>8. wire[i].headers = Layered(ClientDefaultsIn(calls), AttachedIn(Asked),
                                    ExplicitsIn(Asked), Uuids[issued])
        BY <2>1, PreparedIs
    <2> DEFINE ctx == AttachedIn(Asked)
    <2>9. ~(ctx["x-request-id"] = None /\ name = "x-request-id") /\ ctx[name] # None
        BY <2>5
    <2> QED BY <2>2, <2>4, <2>5, <2>6, <2>7, <2>8, <2>9, LayersOf
<1> QED BY <1>1, RequestAlways, PTL
-----------------------------------------------------------------------------
(* Ids are new.                                                            *)

NoRecordIsNone ==
    \A url, headers, settings : [url |-> url, headers |-> headers, settings |-> settings] # None

LEMMA UuidsAre ==
    /\ CallBound \in Nat /\ CallBound <= Len(Uuids) /\ Len(Uuids) \in Nat
    /\ DOMAIN Uuids = 1 .. Len(Uuids)
    /\ \A i, j \in 1 .. Len(Uuids) : i # j => Uuids[i] # Uuids[j]
    /\ \A i \in 1 .. Len(Uuids) : Fit(Uuids[i]) /\ Uuids[i] # None
    /\ None \notin Later(0)
    /\ \A header \in Headers \cup DefaultHeaders :
           header.name = "x-request-id" => header.value \notin Later(0)
    /\ \A ctx \in Contexts : ctx["x-request-id"] \notin Later(0)
<1>1. CallBound \in Nat /\ CallBound <= Len(Uuids) /\ Uuids \in Seq({Uuids[i] : i \in DOMAIN Uuids})
    BY UuidsAssumption
<1>2. Len(Uuids) \in Nat /\ DOMAIN Uuids = 1 .. Len(Uuids)
    BY <1>1
<1>3. /\ \A i, j \in 1 .. Len(Uuids) : i # j => Uuids[i] # Uuids[j]
      /\ \A i \in 1 .. Len(Uuids) : Fit(Uuids[i]) /\ Uuids[i] # None
      /\ \A i \in 1 .. Len(Uuids) :
             /\ \A header \in Headers \cup DefaultHeaders :
                    header.name = "x-request-id" => header.value # Uuids[i]
             /\ \A ctx \in Contexts : ctx["x-request-id"] # Uuids[i]
    BY <1>2, UuidsAssumption DEF Fit
<1>4. Later(0) = {Uuids[k] : k \in 1 .. Len(Uuids)}
    BY DEF Later
<1> QED BY <1>1, <1>2, <1>3, <1>4

\* Fewer are left as more are generated, and the next is not among those left.
LEMMA LaterIs ==
    ASSUME NEW n \in Nat
    PROVE  /\ Later(n + 1) \subseteq Later(n) /\ Later(n) \subseteq Later(0)
           /\ n + 1 <= Len(Uuids) => Uuids[n + 1] \in Later(n) /\ Uuids[n + 1] \notin Later(n + 1)
<1>1. /\ n + 2 .. Len(Uuids) \subseteq n + 1 .. Len(Uuids)
      /\ n + 1 .. Len(Uuids) \subseteq 1 .. Len(Uuids)
      /\ n + 1 <= Len(Uuids) => n + 1 \in n + 1 .. Len(Uuids)
      /\ n + 1 \notin n + 2 .. Len(Uuids)
    BY UuidsAre
<1>2. /\ Later(n + 1) = {Uuids[k] : k \in n + 2 .. Len(Uuids)}
      /\ Later(n) = {Uuids[k] : k \in n + 1 .. Len(Uuids)}
      /\ Later(0) = {Uuids[k] : k \in 1 .. Len(Uuids)}
    BY DEF Later
<1>3. Later(n + 1) \subseteq Later(n) /\ Later(n) \subseteq Later(0)
    BY <1>1, <1>2
<1>4. ASSUME n + 1 <= Len(Uuids)
      PROVE  Uuids[n + 1] \in Later(n) /\ Uuids[n + 1] \notin Later(n + 1)
    <2>1. \A k \in n + 2 .. Len(Uuids) : Uuids[k] # Uuids[n + 1]
        BY <1>1, <1>4, UuidsAre
    <2> QED BY <1>1, <1>2, <1>4, <2>1
<1> QED BY <1>3, <1>4

\* What a call writes is the caller's, or was received.
Honest(c) ==
    /\ c.fn = "base_path" => c.value \in BasePaths
    /\ c.fn = "api_version" => c.value \in 1 .. 5
    /\ c.fn = "default_header" => c.value \in DefaultHeaders
    /\ c.fn = "header" => c.value \in Headers
    /\ c.fn = "context" => c.value \in Contexts
    /\ c.fn = "context_received" => c.value = FromHeaders(received)

LEMMA FromReceived ==
    ASSUME received["x-request-id"] \notin Later(issued), None \notin Later(issued)
    PROVE  FromHeaders(received)["x-request-id"] \notin Later(issued)
<1>1. "x-request-id" \in PropagatedHeaders
    BY DEF PropagatedHeaders
<1> QED BY <1>1 DEF FromHeaders

\* One more call leaves the ids to come unwritten.
LEMMA CallKeepsFresh ==
    ASSUME RequestInv, FreshInv, NEW c, Honest(c), calls' = Append(calls, c),
           Len(calls) < CallBound, prepared = None, UNCHANGED <<prepared, received, issued>>
    PROVE  FreshInv'
<1> DEFINE id == "x-request-id"
<1>1. IsList(calls) /\ Len(calls') = Len(calls) + 1 /\ Len(calls) \in Nat
    BY NamedMore DEF RequestInv
<1>2. Counted'
    BY <1>1, UuidsAre DEF FreshInv, Counted
<1>3. Later(issued) \subseteq Later(0) /\ None \notin Later(issued)
    BY LaterIs, UuidsAre DEF FreshInv, Counted
<1>4. DefaultIn(calls', id) \notin Later(0)
    <2>1. DefaultIn(calls', id) = IF SetsDefault(c, id) THEN c.value.value ELSE DefaultIn(calls, id)
        BY <1>1, DefaultMore
    <2> QED BY <2>1, UuidsAre DEF FreshInv, Fresh, SetsDefault, Honest
<1>5. IsList(AskedIn(calls))
      /\ AskedIn(calls') = IF c.fn = "request" THEN << >> ELSE Append(AskedIn(calls), c)
    BY <1>1, AskedMore
<1>6. ExplicitIn(AskedIn(calls'), id) \notin Later(0)
    <2>1. CASE c.fn = "request"
        BY <1>5, <2>1, NothingAsked, UuidsAre
    <2>2. CASE c.fn # "request"
        <3>1. ExplicitIn(AskedIn(calls'), id)
                  = IF SetsHeader(c, id) THEN HeaderSet(c) ELSE ExplicitIn(AskedIn(calls), id)
            BY <1>5, <2>2, ExplicitMore
        <3> QED BY <3>1, UuidsAre DEF FreshInv, Fresh, SetsHeader, HeaderSet, Honest
    <2> QED BY <2>1, <2>2
<1>7. AttachedIn(AskedIn(calls'))[id] \notin Later(issued)
    <2>1. CASE c.fn = "request"
        <3>1. id \in PropagatedHeaders
            BY DEF PropagatedHeaders
        <3> QED BY <1>3, <1>5, <2>1, <3>1, NothingAsked DEF EmptyContext
    <2>2. CASE c.fn # "request"
        <3>1. AttachedIn(AskedIn(calls'))
                  = IF c.fn \in {"context", "context_received"} THEN c.value
                    ELSE AttachedIn(AskedIn(calls))
            BY <1>5, <2>2, AttachedMore
        <3>2. c.fn = "context" => c.value[id] \notin Later(issued)
            BY <1>3, UuidsAre DEF Honest
        <3>3. c.fn = "context_received" => c.value[id] \notin Later(issued)
            BY <1>3, FromReceived DEF Honest, FreshInv, Fresh
        <3> QED BY <3>1, <3>2, <3>3 DEF FreshInv, Fresh
    <2> QED BY <2>1, <2>2
<1>8. Fresh'
    BY <1>4, <1>6, <1>7 DEF FreshInv, Fresh, Later
<1> QED BY <1>2, <1>8 DEF FreshInv
LEMMA CallsAreHonest ==
    ASSUME RequestInv,
           \/ BasePath \/ ApiVersion \/ BearerToken \/ DefaultHeader \/ Retry
           \/ ClientAttemptTimeout \/ ClientObserver
           \/ Request
           \/ Query \/ Header \/ Context \/ ContextReceived \/ Json \/ Body \/ Retriable
           \/ AcceptStatus \/ RetryOnStatus \/ Timeout \/ DeadlineAt \/ Observer
    PROVE  \E c : /\ Honest(c) /\ calls' = Append(calls, c) /\ Len(calls) < CallBound
                  /\ prepared = None /\ UNCHANGED <<prepared, received, issued>>
<1>1. prepared # None => request # None /\ client # None
    BY DEF RequestInv, PreparedOK, RequestOK
<1>2. CASE BasePath
    BY <1>1, <1>2 DEF BasePath, Configure, Noted, Honest
<1>3. CASE ApiVersion
    <2>1. PICK text \in VersionTexts :
              /\ ParseVersion(text) # None
              /\ Configure("api_version", ParseVersion(text),
                           [builder EXCEPT !.version = ParseVersion(text)])
        BY <1>3 DEF ApiVersion
    <2>2. ParseVersion(text) \in 1 .. 5
        BY <2>1 DEF ParseVersion
    <2> QED BY <1>1, <2>1, <2>2 DEF Configure, Noted, Honest
<1>4. CASE BearerToken
    BY <1>1, <1>4 DEF BearerToken, Configure, Noted, Honest
<1>5. CASE DefaultHeader
    BY <1>1, <1>5 DEF DefaultHeader, Configure, Noted, Honest
<1>6. CASE Retry
    BY <1>1, <1>6 DEF Retry, Configure, Noted, Honest
<1>7. CASE ClientAttemptTimeout
    BY <1>1, <1>7 DEF ClientAttemptTimeout, Configure, Noted, Honest
<1>8. CASE ClientObserver
    BY <1>1, <1>8 DEF ClientObserver, Configure, Noted, Honest
<1>9. CASE Request
    BY <1>1, <1>9 DEF Request, Noted, Honest
<1>10. CASE Query
    BY <1>10 DEF Query, Ask, Noted, Honest
<1>11. CASE Header
    BY <1>11 DEF Header, Ask, Noted, Honest
<1>12. CASE Context
    BY <1>12 DEF Context, Ask, Noted, Honest
<1>13. CASE ContextReceived
    BY <1>13 DEF ContextReceived, Ask, Noted, Honest
<1>14. CASE Json
    BY <1>14 DEF Json, Ask, Noted, Honest
<1>15. CASE Body
    BY <1>15 DEF Body, Ask, Noted, Honest
<1>16. CASE Retriable
    BY <1>16 DEF Retriable, Ask, Noted, Honest
<1>17. CASE AcceptStatus
    BY <1>17 DEF AcceptStatus, Ask, Noted, Honest
<1>18. CASE RetryOnStatus
    BY <1>18 DEF RetryOnStatus, Ask, Noted, Honest
<1>19. CASE Timeout
    BY <1>19 DEF Timeout, Ask, Noted, Honest
<1>20. CASE DeadlineAt
    BY <1>20 DEF DeadlineAt, Ask, Noted, Honest
<1>21. CASE Observer
    BY <1>21 DEF Observer, Ask, Noted, Honest
<1> QED BY <1>2, <1>3, <1>4, <1>5, <1>6, <1>7, <1>8, <1>9, <1>10, <1>11, <1>12, <1>13, <1>14,
           <1>15, <1>16, <1>17, <1>18, <1>19, <1>20, <1>21

\* execute writes the one id it generates, and none that comes after.
LEMMA ExecuteKeepsFresh ==
    ASSUME NoRecordIsNone, RequestInv, FreshInv, Execute
    PROVE  FreshInv'
<1> DEFINE id  == "x-request-id"
           ctx == AttachedIn(AskedIn(calls))
           own == ExplicitsIn(AskedIn(calls))
<1>1. /\ request # None /\ prepared = None
      /\ UNCHANGED <<builder, client, request, wire, received, calls>>
      /\ issued' = IF request.context[id] = None THEN issued + 1 ELSE issued
      /\ prepared' # None
    BY DEF Execute, NoRecordIsNone
<1>2. client # None /\ AsAsked(request, AskedIn(calls), received) /\ IsList(calls)
    BY <1>1 DEF RequestInv, RequestOK
<1>3. request.context = ctx /\ request.headers = own /\ IsContext(ctx)
    BY <1>2, AsAskedIs
<1>4. client.default_headers = ClientDefaultsIn(calls)
    <2>1. client = Configured(calls, client.base_url, ClientDefaultsIn(calls))
        BY <1>2 DEF RequestInv, ClientOK
    <2> QED BY <2>1, BuilderFields DEF Configured
<1>5. prepared'.headers = Layered(ClientDefaultsIn(calls), ctx, own, Uuids[issued'])
    <2>1. prepared'.headers = EffectiveHeaders(request)
        BY DEF Execute
    <2>2. EffectiveHeaders(request)
              = Layered(client.default_headers, request.context, request.headers, Uuids[issued'])
        BY <1>1 DEF EffectiveHeaders, Layered, EnsureRequestId
    <2> QED BY <1>3, <1>4, <2>1, <2>2
<1>6. /\ issued \in Nat /\ issued + 1 <= Len(calls) /\ Len(calls) <= CallBound
      /\ Len(calls) \in Nat
    BY <1>1, <1>2, NamedMore DEF FreshInv, Counted
<1>7. issued' \in Nat /\ issued + 1 <= Len(Uuids) /\ issued' <= Len(calls)
    BY <1>1, <1>6, UuidsAre
<1>8. Counted'
    BY <1>1, <1>6, <1>7 DEF Counted
<1>9. /\ Later(issued') \subseteq Later(issued) /\ Later(issued) \subseteq Later(0)
      /\ Uuids[issued + 1] \in Later(issued) /\ Uuids[issued + 1] \notin Later(issued + 1)
    BY <1>1, <1>6, <1>7, LaterIs
<1>10. /\ id \in HeaderNames /\ id \in PropagatedHeaders /\ id # "authorization"
    BY HeadersAssumption DEF PropagatedHeaders
<1>11. /\ own[id] \notin Later(issued') /\ ctx[id] \notin Later(issued')
       /\ ClientDefaultsIn(calls)[id] \notin Later(issued')
       /\ received[id] \notin Later(issued)
    BY <1>9, <1>10 DEF FreshInv, Fresh, ExplicitsIn, ClientDefaultsIn
<1>12. prepared'.headers[id] \notin Later(issued')
    <2>1. prepared'.headers[id]
              \in {own[id], IF ctx[id] = None THEN Uuids[issued'] ELSE ctx[id],
                   ClientDefaultsIn(calls)[id]}
        <3> HIDE DEF ctx, own
        <3> QED BY <1>3, <1>5, <1>10, LayersOf
    <2>2. ctx[id] = None => issued' = issued + 1
        BY <1>1, <1>3
    <2> HIDE DEF ctx, own, id
    <2> QED BY <1>9, <1>11, <2>1, <2>2
<1>13. ctx[id] = None => issued' > 0 /\ Uuids[issued'] # received[id]
    <2>1. ctx[id] = None => issued' = issued + 1
        BY <1>1, <1>3
    <2> HIDE DEF ctx, id
    <2> QED BY <1>6, <1>9, <1>11, <2>1
<1>14. Fresh'
    <2>1. /\ DefaultIn(calls, id) \notin Later(0) /\ ExplicitIn(AskedIn(calls), id) \notin Later(0)
        BY DEF FreshInv, Fresh
    <2>2. received[id] \notin Later(issued')
        BY <1>9, <1>11
    <2> QED BY <1>1, <1>3, <1>11, <1>12, <1>13, <2>1, <2>2 DEF Fresh, Later
<1> QED BY <1>8, <1>14 DEF FreshInv

LEMMA StepKeepsFresh ==
    ASSUME NoRecordIsNone, RequestInv, FreshInv, [Next]_vars
    PROVE  FreshInv'
<1>1. CASE \/ BasePath \/ ApiVersion \/ BearerToken \/ DefaultHeader \/ Retry
           \/ ClientAttemptTimeout \/ ClientObserver
           \/ Request
           \/ Query \/ Header \/ Context \/ ContextReceived \/ Json \/ Body \/ Retriable
           \/ AcceptStatus \/ RetryOnStatus \/ Timeout \/ DeadlineAt \/ Observer
    BY <1>1, CallsAreHonest, CallKeepsFresh
<1>2. CASE Build \/ Attempt \/ UNCHANGED vars
    <2>1. UNCHANGED <<request, prepared, received, issued, calls>>
        BY <1>2 DEF Build, Attempt, vars
    <2> QED BY <2>1 DEF FreshInv, Counted, Fresh, Later
<1>3. CASE Execute
    BY <1>3, ExecuteKeepsFresh
<1>4. CASE Return
    <2>1. /\ prepared # None /\ request' = None /\ prepared' = None
          /\ UNCHANGED <<issued, calls>>
        BY <1>4 DEF Return
    <2>2. received' \in {received, prepared.headers}
        BY <1>4, ReceivedIs
    <2>3. IsList(calls) /\ Len(calls) \in Nat
        BY NamedMore DEF RequestInv
    <2>4. Counted'
        BY <2>1, <2>3 DEF FreshInv, Counted
    <2>5. Fresh'
        BY <2>1, <2>2 DEF FreshInv, Fresh, Later
    <2> QED BY <2>4, <2>5 DEF FreshInv
<1> QED BY <1>1, <1>2, <1>3, <1>4 DEF Next

LEMMA InitFresh ==
    ASSUME Init
    PROVE  FreshInv
<1>1. /\ request = None /\ prepared = None /\ received = NoHeaders /\ issued = 0
      /\ calls = << >>
    BY DEF Init
<1>2. Counted
    BY <1>1, UuidsAre DEF Counted
<1>3. /\ DefaultIn(calls, "x-request-id") = None
      /\ ExplicitIn(AskedIn(calls), "x-request-id") = None
      /\ AttachedIn(AskedIn(calls)) = EmptyContext
    BY <1>1, NothingAsked
<1>4. EmptyContext["x-request-id"] = None /\ received["x-request-id"] = None
    BY <1>1, HeadersAssumption DEF EmptyContext, NoHeaders, PropagatedHeaders
<1> QED BY <1>1, <1>2, <1>3, <1>4, UuidsAre DEF FreshInv, Fresh

\* A header of a message is the last the caller set on the request, or else
\* that of the context attached last, its id a new one when it has none, or
\* else that of the client: whatever the headers, the contexts, the ids and
\* the order of the calls.
THEOREM LayersOverride ==
    ASSUME NoRecordIsNone
    PROVE  Spec => []EachLayerOverridesTheOneBelow
<1>1. Init => FreshInv
    BY InitFresh
<1>2. RequestInv /\ FreshInv /\ [Next]_vars => FreshInv'
    BY StepKeepsFresh
<1>3. RequestInv /\ FreshInv => EachLayerOverridesTheOneBelow
    <2> SUFFICES ASSUME RequestInv, FreshInv, NEW i \in DOMAIN wire, NEW name \in HeaderNames
                 PROVE  Carries(wire[i], name)
        BY DEF EachLayerOverridesTheOneBelow
    <2> DEFINE id     == "x-request-id"
               ctx    == AttachedIn(Asked)
               own    == ExplicitsIn(Asked)
               value  == wire[i].headers[name]
               known  == IF ctx[id] = None /\ name = id THEN Uuids[issued] ELSE ctx[name]
    <2>1. prepared # None
        BY NothingSent
    <2>2. /\ Attached = ctx /\ Explicit(name) = own[name]
          /\ Default(name) = ClientDefaultsIn(calls)[name]
        BY LookupsAgree DEF ExplicitsIn, ClientDefaultsIn
    <2>3. AsAsked(request, Asked, received)
        BY <2>1, RequestIs
    <2>4. IsContext(ctx) /\ request.context = ctx
        BY <2>3, AsAskedIs
    <2>5. value = IF own[name] # None THEN own[name]
                  ELSE IF name \in PropagatedHeaders /\ known # None /\ Fit(known) THEN known
                  ELSE ClientDefaultsIn(calls)[name]
        <3>1. wire[i].headers = Layered(ClientDefaultsIn(calls), ctx, own, Uuids[issued])
            BY <2>1, PreparedIs
        <3> HIDE DEF ctx, own
        <3> QED BY <2>4, <3>1, LayersOf
    <2>6. CASE name = id /\ ctx[id] = None
        <3>1. issued \in 1 .. Len(Uuids) /\ Uuids[issued] # received[id]
            <4>1. IsList(calls) /\ Len(calls) \in Nat
                BY NamedMore DEF RequestInv
            <4> QED BY <2>1, <2>4, <2>6, <4>1, UuidsAre DEF FreshInv, Counted, Fresh
        <3>2. Uuids[issued] \in ToSet(Uuids) /\ Fit(Uuids[issued]) /\ Uuids[issued] # None
            BY <3>1, UuidsAre DEF ToSet
        <3>3. name \in PropagatedHeaders
            BY <2>6 DEF PropagatedHeaders
        <3> HIDE DEF ctx, own, value
        <3> QED BY <2>2, <2>5, <2>6, <3>1, <3>2, <3>3 DEF Carries, value
    <2>7. CASE ~(name = id /\ ctx[id] = None)
        <3>1. id \in PropagatedHeaders
            BY DEF PropagatedHeaders
        <3> HIDE DEF ctx, own, value
        <3> QED BY <2>2, <2>5, <2>7, <3>1 DEF Carries, value
    <2> QED BY <2>6, <2>7
<1> QED BY <1>1, <1>2, <1>3, RequestAlways, PTL DEF Spec

-----------------------------------------------------------------------------
(* Texts.  The words of a URL are those of its parts.                       *)

\* Under names of their own the prover instantiates facts about them.
Joined(u, v) == u \o v

Added(u, e) == Append(u, e)

LEMMA JoinedIs ==
    ASSUME NEW S, NEW u \in Seq(S), NEW v \in Seq(S)
    PROVE  /\ Joined(u, v) \in Seq(S)
           /\ \A e \in S : Added(Joined(u, v), e) = Joined(u, Added(v, e))
           /\ \A w \in Seq(S) : Joined(Joined(u, v), w) = Joined(u, Joined(v, w))
           /\ Joined(u, << >>) = u /\ Joined(<< >>, u) = u
<1>1. ASSUME NEW e \in S PROVE Append(u \o v, e) = u \o Append(v, e)
    OBVIOUS
<1>2. ASSUME NEW w \in Seq(S) PROVE (u \o v) \o w = u \o (v \o w)
    OBVIOUS
<1>3. u \o v \in Seq(S) /\ u \o << >> = u /\ << >> \o u = u
    BY ConcatProperties, ConcatEmptySeq
<1>4. Joined(u, v) \in Seq(S) /\ Joined(u, << >>) = u /\ Joined(<< >>, u) = u
    BY <1>3 DEF Joined
<1>5. \A e \in S : Added(Joined(u, v), e) = Joined(u, Added(v, e))
    BY <1>1, Zenon DEF Joined, Added
<1>6. \A w \in Seq(S) : Joined(Joined(u, v), w) = Joined(u, Joined(v, w))
    BY <1>2, Zenon DEF Joined
<1> QED BY <1>4, <1>5, <1>6

\* The words found up to each place of a text.
OwnUpTo(own, text, m) ==
    own = [n \in 0 .. m |->
              IF n = 0 THEN << >>
              ELSE IF text[n] = "/" THEN own[n - 1] ELSE Append(own[n - 1], text[n])]

Own(text) == CHOOSE own : OwnUpTo(own, text, Len(text))

LEMMA OwnExists ==
    ASSUME NEW text
    PROVE  \A m \in Nat : \E own : OwnUpTo(own, text, m)
<1> DEFINE T == {m \in Nat : \E own : OwnUpTo(own, text, m)}
<1>1. 0 \in T
    <2>1. OwnUpTo([n \in 0 .. 0 |-> << >>], text, 0)
        BY DEF OwnUpTo
    <2> QED BY <2>1
<1>2. ASSUME NEW m \in Nat, m \in T PROVE m + 1 \in T
    <2>1. PICK own : OwnUpTo(own, text, m)
        BY <1>2
    <2> DEFINE more(n, before) == IF text[n] = "/" THEN before ELSE Append(before, text[n])
               longer == [n \in 0 .. m + 1 |->
                             IF n = m + 1 THEN more(m + 1, own[m]) ELSE own[n]]
               step(n) == IF n = 0 THEN << >> ELSE more(n, longer[n - 1])
    <2>2. ASSUME NEW n \in 0 .. m + 1 PROVE longer[n] = step(n)
        <3> HIDE DEF more
        <3>1. CASE n = m + 1
            <4>1. longer[n] = more(m + 1, own[m]) /\ longer[n - 1] = own[m] /\ n # 0
                BY <3>1
            <4> QED BY <3>1, <4>1
        <3>2. CASE n \in 0 .. m
            <4>1. longer[n] = own[n] /\ (n # 0 => longer[n - 1] = own[n - 1])
                BY <3>2
            <4>2. own[n] = IF n = 0 THEN << >> ELSE more(n, own[n - 1])
                BY <2>1, <3>2 DEF OwnUpTo, more
            <4> QED BY <4>1, <4>2
        <3> QED BY <3>1, <3>2
    <2>3. longer = [n \in 0 .. m + 1 |-> step(n)]
        <3> HIDE DEF more
        <3> QED BY <2>2
    <2>4. OwnUpTo(longer, text, m + 1)
        BY <2>3, Zenon DEF OwnUpTo
    <2> HIDE DEF longer
    <2> QED BY <2>4
<1> HIDE DEF T
<1>3. \A m \in Nat : m \in T
    BY <1>1, <1>2, SetInduction
<1> QED BY <1>3 DEF T

\* A step of the search, and what it has found is a sequence.
LEMMA OwnSteps ==
    ASSUME NEW S, NEW text \in Seq(S)
    PROVE  /\ OwnWords(text) = Own(text)[Len(text)]
           /\ Own(text)[0] = << >>
           /\ \A n \in 1 .. Len(text) :
                  Own(text)[n] = IF text[n] = "/" THEN Own(text)[n - 1]
                                 ELSE Append(Own(text)[n - 1], text[n])
           /\ \A n \in 0 .. Len(text) : Own(text)[n] \in Seq(S)
<1> DEFINE last == Len(text)
           own  == Own(text)
<1>1. last \in Nat /\ \A n \in 1 .. last : text[n] \in S
    BY LenProperties, ElementOfSeq
<1>2. OwnUpTo(own, text, last)
    BY <1>1, OwnExists DEF Own
<1>3. OwnWords(text) = own[last]
    BY DEF OwnWords, Own, OwnUpTo
<1> HIDE DEF own, last
<1>4. /\ own[0] = << >>
      /\ \A n \in 1 .. last : own[n] = IF text[n] = "/" THEN own[n - 1]
                                       ELSE Append(own[n - 1], text[n])
    <2> DEFINE more(n) == IF text[n] = "/" THEN own[n - 1] ELSE Append(own[n - 1], text[n])
               step(n) == IF n = 0 THEN << >> ELSE more(n)
    <2>1. own = [n \in 0 .. last |-> step(n)]
        BY <1>2 DEF OwnUpTo
    <2> HIDE DEF step
    <2>2. \A n \in 0 .. last : own[n] = step(n)
        BY <2>1
    <2>3. 0 \in 0 .. last /\ \A n \in 1 .. last : n \in 0 .. last /\ n # 0
        BY <1>1
    <2> HIDE DEF more
    <2>4. own[0] = << >> /\ \A n \in 1 .. last : own[n] = more(n)
        BY <2>2, <2>3 DEF step
    <2> QED BY <2>4 DEF more
<1> DEFINE T == {n \in Nat : n <= last => own[n] \in Seq(S)}
<1>5. 0 \in T
    BY <1>4, EmptySeq
<1>6. ASSUME NEW n \in Nat, n \in T PROVE n + 1 \in T
    <2> SUFFICES ASSUME n + 1 <= last PROVE own[n + 1] \in Seq(S)
        OBVIOUS
    <2>1. n + 1 \in 1 .. last /\ (n + 1) - 1 = n /\ n <= last
        BY <1>1
    <2>2. own[n + 1] = IF text[n + 1] = "/" THEN own[n] ELSE Append(own[n], text[n + 1])
        BY <1>4, <2>1
    <2> QED BY <1>1, <1>6, <2>1, <2>2
<1> HIDE DEF T
<1>7. \A n \in Nat : n \in T
    BY <1>5, <1>6, SetInduction
<1>8. \A n \in 0 .. last : own[n] \in Seq(S)
    BY <1>1, <1>7 DEF T
<1> QED BY <1>3, <1>4, <1>8 DEF own, last

\* The first m places of s are those of t from p on.
Found(s, m, t, p) == m <= Len(s) /\ p + m <= Len(t) /\ \A k \in 1 .. m : t[p + k] = s[k]

\* A text found in another from a place on adds the words it has.
LEMMA OwnShifts ==
    ASSUME NEW S, NEW t \in Seq(S), NEW s \in Seq(S), NEW p \in Nat, NEW m \in Nat,
           Found(s, m, t, p)
    PROVE  Own(t)[p + m] = Joined(Own(t)[p], Own(s)[m])
<1>0. m <= Len(s) /\ p + m <= Len(t) /\ \A k \in 1 .. m : t[p + k] = s[k]
    BY DEF Found
<1>1. Len(s) \in Nat /\ Len(t) \in Nat /\ \A k \in 1 .. m : s[k] \in S
    BY <1>0, LenProperties, ElementOfSeq
<1> DEFINE a == Own(t)
           b == Own(s)
<1>2. a[p] \in Seq(S) /\ \A n \in 0 .. m : b[n] \in Seq(S)
    BY <1>0, <1>1, OwnSteps
<1>3. ASSUME NEW n \in 1 .. m
      PROVE  /\ a[p + n] = IF s[n] = "/" THEN a[p + (n - 1)] ELSE Append(a[p + (n - 1)], s[n])
             /\ b[n] = IF s[n] = "/" THEN b[n - 1] ELSE Append(b[n - 1], s[n])
    <2>1. p + n \in 1 .. Len(t) /\ (p + n) - 1 = p + (n - 1) /\ n \in 1 .. Len(s)
        BY <1>0, <1>1
    <2>2. a[p + n] = IF t[p + n] = "/" THEN a[(p + n) - 1] ELSE Append(a[(p + n) - 1], t[p + n])
        BY <2>1, OwnSteps
    <2>3. b[n] = IF s[n] = "/" THEN b[n - 1] ELSE Append(b[n - 1], s[n])
        BY <2>1, OwnSteps
    <2> HIDE DEF a, b
    <2> QED BY <1>0, <2>1, <2>2, <2>3
<1>4. b[0] = << >>
    BY OwnSteps
<1> HIDE DEF a, b
<1> DEFINE Adds(n) == a[p + n] = a[p] \o b[n]
           T       == {n \in Nat : n <= m => Adds(n)}
<1>5. 0 \in T
    <2>1. p + 0 = p /\ a[p] \o << >> = a[p]
        BY <1>2, ConcatEmptySeq
    <2>2. Adds(0)
        BY <1>4, <2>1
    <2> HIDE DEF Adds
    <2> QED BY <2>2
<1>6. ASSUME NEW n \in Nat, n \in T PROVE n + 1 \in T
    <2> HIDE DEF Adds
    <2> SUFFICES ASSUME n + 1 <= m PROVE Adds(n + 1)
        OBVIOUS
    <2>1. n + 1 \in 1 .. m /\ (n + 1) - 1 = n /\ n <= m /\ n \in 0 .. m
        OBVIOUS
    <2>2. /\ a[p + (n + 1)] = IF s[n + 1] = "/" THEN a[p + n] ELSE Append(a[p + n], s[n + 1])
          /\ b[n + 1] = IF s[n + 1] = "/" THEN b[n] ELSE Append(b[n], s[n + 1])
        BY <1>3, <2>1
    <2>3. Adds(n) /\ b[n] \in Seq(S) /\ s[n + 1] \in S
        BY <1>1, <1>2, <1>6, <2>1
    <2> USE DEF Adds
    <2>4. Append(a[p] \o b[n], s[n + 1]) = a[p] \o Append(b[n], s[n + 1])
        <3> DEFINE e == s[n + 1]
                   u == a[p]
                   v == b[n]
        <3>1. u \in Seq(S) /\ v \in Seq(S) /\ e \in S
            BY <1>2, <2>3
        <3> HIDE DEF e, u, v
        <3>2. Added(Joined(u, v), e) = Joined(u, Added(v, e))
            BY <3>1, JoinedIs
        <3> QED BY <3>2 DEF e, u, v, Joined, Added
    <2>5. CASE s[n + 1] = "/"
        BY <2>2, <2>3, <2>5
    <2>6. CASE s[n + 1] # "/"
        BY <2>2, <2>3, <2>4, <2>6
    <2> QED BY <2>5, <2>6
<1> HIDE DEF T
<1>7. \A n \in Nat : n \in T
    BY <1>5, <1>6, SetInduction
<1> HIDE DEF Adds
<1>8. Adds(m)
    BY <1>7 DEF T
<1> QED BY <1>8 DEF Adds, a, b, Joined

\* Separators add none.
LEMMA OwnSkips ==
    ASSUME NEW S, NEW t \in Seq(S), NEW p \in Nat, NEW m \in Nat, p + m <= Len(t),
           \A k \in 1 .. m : t[p + k] = "/"
    PROVE  Own(t)[p + m] = Own(t)[p]
<1> DEFINE a == Own(t)
           T == {n \in Nat : n <= m => a[p + n] = a[p]}
<1>1. Len(t) \in Nat
    BY LenProperties
<1>2. ASSUME NEW n \in 1 .. m PROVE a[p + n] = a[p + (n - 1)]
    <2>1. p + n \in 1 .. Len(t) /\ (p + n) - 1 = p + (n - 1)
        BY <1>1
    <2> QED BY <2>1, OwnSteps
<1> HIDE DEF a
<1>3. 0 \in T
    <2>1. p + 0 = p
        OBVIOUS
    <2> QED BY <2>1
<1>4. ASSUME NEW n \in Nat, n \in T PROVE n + 1 \in T
    <2> SUFFICES ASSUME n + 1 <= m PROVE a[p + (n + 1)] = a[p]
        OBVIOUS
    <2>1. n + 1 \in 1 .. m /\ (n + 1) - 1 = n /\ n <= m
        OBVIOUS
    <2> QED BY <1>2, <1>4, <2>1
<1> HIDE DEF T
<1>5. \A n \in Nat : n \in T
    BY <1>3, <1>4, SetInduction
<1>6. a[p + m] = a[p]
    BY <1>5 DEF T
<1> QED BY <1>6 DEF a

LEMMA WordsOfNothing == OwnWords(<< >>) = << >>
<1>1. << >> \in Seq(STRING) /\ Len(<< >>) = 0
    BY EmptySeq
<1> QED BY <1>1, OwnSteps

\* The words of two texts, one after the other.
LEMMA OwnJoined ==
    ASSUME NEW S, NEW s \in Seq(S), NEW t \in Seq(S)
    PROVE  OwnWords(Joined(s, t)) = Joined(OwnWords(s), OwnWords(t))
<1> DEFINE u == Joined(s, t)
           l == Len(s)
           m == Len(t)
<1>1. /\ u \in Seq(S) /\ l \in Nat /\ m \in Nat /\ Len(u) = l + m
      /\ \A k \in 1 .. l : u[0 + k] = s[k]
      /\ \A k \in 1 .. m : u[l + k] = t[k]
    BY ConcatProperties, LenProperties DEF Joined
<1> HIDE DEF u
<1>2. /\ OwnWords(u) = Own(u)[l + m] /\ OwnWords(s) = Own(s)[l] /\ OwnWords(t) = Own(t)[m]
      /\ Own(u)[0] = << >> /\ Own(s)[l] \in Seq(S)
    <2>1. OwnWords(u) = Own(u)[Len(u)] /\ Own(u)[0] = << >>
        BY <1>1, OwnSteps
    <2>2. OwnWords(s) = Own(s)[Len(s)] /\ Own(s)[Len(s)] \in Seq(S)
        BY <1>1, OwnSteps
    <2>3. OwnWords(t) = Own(t)[Len(t)]
        BY OwnSteps
    <2> QED BY <1>1, <2>1, <2>2, <2>3
<1> HIDE DEF l, m
<1>7. Found(s, l, u, 0) /\ Found(t, m, u, l) /\ 0 \in Nat
    BY <1>1 DEF l, m, Found
<1>3. Own(u)[0 + l] = Joined(Own(u)[0], Own(s)[l])
    BY <1>1, <1>7, OwnShifts
<1>4. Own(u)[l + m] = Joined(Own(u)[l], Own(t)[m])
    BY <1>1, <1>7, OwnShifts
<1>5. Own(u)[l] = Own(s)[l]
    BY <1>1, <1>2, <1>3, JoinedIs
<1> QED BY <1>2, <1>4, <1>5 DEF u

\* Separators at either end add none.
LEMMA OwnTrimmed ==
    ASSUME NEW S, NEW t \in Seq(S), NEW lo \in 1 .. Len(t), NEW hi \in lo .. Len(t),
           \A k \in 1 .. Len(t) : k < lo \/ k > hi => t[k] = "/"
    PROVE  OwnWords(SubSeq(t, lo, hi)) = OwnWords(t)
<1> DEFINE s == SubSeq(t, lo, hi)
           p == lo - 1
           m == hi - lo + 1
<1>1. Len(t) \in Nat /\ p \in Nat /\ m \in Nat /\ p + m = hi
    BY LenProperties
<1>2. s \in Seq(S) /\ Len(s) = m /\ \A k \in 1 .. m : s[k] = t[lo + k - 1]
    <2>1. \A k \in lo .. hi : t[k] \in S
        BY ElementOfSeq
    <2> QED BY <2>1, SubSeqProperties
<1>3. \A k \in 1 .. m : t[p + k] = s[k]
    BY <1>2
<1> HIDE DEF s
<1>4. Own(t)[p] = << >>
    <2>1. \A k \in 1 .. p : t[0 + k] = "/"
        OBVIOUS
    <2>2. Own(t)[0 + p] = Own(t)[0]
        BY <1>1, <2>1, OwnSkips
    <2> QED BY <1>1, <2>2, OwnSteps
<1>5. Own(t)[hi] = OwnWords(t)
    <2> DEFINE q == Len(t) - hi
    <2>1. hi \in Nat /\ q \in Nat /\ hi + q = Len(t)
        BY <1>1
    <2>2. \A k \in 1 .. q : t[hi + k] = "/"
        BY <1>1
    <2> HIDE DEF q
    <2>4. hi + q <= Len(t)
        BY <1>1, <2>1
    <2>3. Own(t)[hi + q] = Own(t)[hi]
        BY <2>1, <2>2, <2>4, OwnSkips
    <2> QED BY <2>1, <2>3, OwnSteps
<1> HIDE DEF p, m
<1>7. OwnWords(s) = Own(s)[m] /\ Own(s)[m] \in Seq(S)
    <2>1. OwnWords(s) = Own(s)[Len(s)] /\ Own(s)[Len(s)] \in Seq(S)
        BY <1>1, <1>2, OwnSteps
    <2> QED BY <1>2, <2>1
<1>9. Found(s, m, t, p)
    BY <1>1, <1>2, <1>3 DEF Found
<1>6. Own(t)[p + m] = Joined(Own(t)[p], Own(s)[m])
    BY <1>1, <1>2, <1>3, <1>9, OwnShifts
<1>8. Joined(<< >>, Own(s)[m]) = Own(s)[m]
    BY <1>7, JoinedIs
<1> QED BY <1>1, <1>4, <1>5, <1>6, <1>7, <1>8 DEF s

\* A separator, a word, a separator, a word.
Chain(t) ==
    \E k \in Nat : /\ Len(t) = 2 * k
                   /\ \A j \in 1 .. k : t[2 * j - 1] = "/" /\ t[2 * j] # "/"

Alternates(t) == \A i \in 1 .. Len(t) : i + 1 <= Len(t) => (t[i + 1] = "/" <=> t[i] # "/")

LEMMA AlternatingIsChain ==
    ASSUME NEW S, NEW t \in Seq(S), Alternates(t),
           t # << >> => t[1] = "/" /\ t[Len(t)] # "/"
    PROVE  Chain(t)
<1> DEFINE l == Len(t)
           Odd(n)  == 2 * n + 1 <= l => t[2 * n + 1] = "/"
           Even(n) == 2 * n + 2 <= l => t[2 * n + 2] # "/"
           T       == {n \in Nat : Odd(n) /\ Even(n)}
<1>1. l \in Nat /\ (l # 0 => t[1] = "/" /\ t[l] # "/")
    BY LenProperties, EmptySeq
<1>2. \A i \in 1 .. l : i + 1 <= l => (t[i + 1] = "/" <=> t[i] # "/")
    BY DEF Alternates
<1> HIDE DEF l
<1>3. 0 \in T
    <2>1. l >= 2 => (t[1 + 1] = "/" <=> t[1] # "/")
        BY <1>1, <1>2
    <2>2. Odd(0) /\ Even(0)
        BY <1>1, <2>1
    <2> HIDE DEF Odd, Even
    <2> QED BY <2>2
<1>4. ASSUME NEW n \in Nat, n \in T PROVE n + 1 \in T
    <2>1. 2 * n + 3 <= l => (t[(2 * n + 2) + 1] = "/" <=> t[2 * n + 2] # "/")
        <3>1. 2 * n + 3 <= l => 2 * n + 2 \in 1 .. l /\ (2 * n + 2) + 1 <= l
            BY <1>1
        <3> QED BY <1>2, <3>1
    <2>2. 2 * n + 4 <= l => (t[(2 * n + 3) + 1] = "/" <=> t[2 * n + 3] # "/")
        <3>1. 2 * n + 4 <= l => 2 * n + 3 \in 1 .. l /\ (2 * n + 3) + 1 <= l
            BY <1>1
        <3> QED BY <1>2, <3>1
    <2>3. /\ 2 * (n + 1) + 1 = 2 * n + 3 /\ 2 * (n + 1) + 2 = 2 * n + 4
          /\ (2 * n + 2) + 1 = 2 * n + 3 /\ (2 * n + 3) + 1 = 2 * n + 4
        OBVIOUS
    <2> HIDE DEF Odd, Even
    <2>7. Even(n)
        BY <1>4
    <2> USE DEF Odd, Even
    <2>4. 2 * n + 2 <= l => t[2 * n + 2] # "/"
        BY <2>7
    <2>5. 2 * n + 3 <= l => t[2 * n + 3] = "/"
        BY <1>1, <2>1, <2>3, <2>4
    <2>6. 2 * n + 4 <= l => t[2 * n + 4] # "/"
        BY <1>1, <2>2, <2>3, <2>5
    <2>8. Odd(n + 1) /\ Even(n + 1)
        BY <2>3, <2>5, <2>6
    <2> HIDE DEF Odd, Even
    <2> QED BY <2>8
<1> HIDE DEF T
<1>5. \A n \in Nat : n \in T
    BY <1>3, <1>4, SetInduction
<1>6. PICK k \in Nat : l = 2 * k \/ l = 2 * k + 1
    <2>1. l \div 2 \in Nat /\ (l = 2 * (l \div 2) \/ l = 2 * (l \div 2) + 1)
        BY <1>1
    <2> QED BY <2>1
<1> HIDE DEF Odd, Even
<1>7. \A n \in Nat : Odd(n) /\ Even(n)
    BY <1>5 DEF T
<1>8. l = 2 * k
    <2> SUFFICES ASSUME l = 2 * k + 1 PROVE FALSE
        BY <1>6
    <2>1. Odd(k)
        BY <1>7
    <2> QED BY <1>1, <2>1 DEF Odd
<1>9. ASSUME NEW j \in 1 .. k PROVE t[2 * j - 1] = "/" /\ t[2 * j] # "/"
    <2>1. j - 1 \in Nat /\ 2 * (j - 1) + 1 = 2 * j - 1 /\ 2 * (j - 1) + 2 = 2 * j
          /\ 2 * j <= l /\ 2 * j - 1 <= l
        BY <1>8
    <2>2. Odd(j - 1) /\ Even(j - 1)
        BY <1>7, <2>1
    <2> QED BY <2>1, <2>2 DEF Odd, Even
<1> QED BY <1>8, <1>9 DEF Chain, l

LEMMA ChainsJoined ==
    ASSUME NEW S, NEW s \in Seq(S), NEW t \in Seq(S), Chain(s), Chain(t)
    PROVE  Chain(Joined(s, t))
<1>1. PICK k \in Nat : Len(s) = 2 * k /\ \A j \in 1 .. k : s[2 * j - 1] = "/" /\ s[2 * j] # "/"
    BY DEF Chain
<1>2. PICK m \in Nat : Len(t) = 2 * m /\ \A j \in 1 .. m : t[2 * j - 1] = "/" /\ t[2 * j] # "/"
    BY DEF Chain
<1> DEFINE u == Joined(s, t)
<1>3. /\ Len(u) = 2 * k + 2 * m
      /\ \A i \in 1 .. 2 * k + 2 * m : u[i] = IF i <= 2 * k THEN s[i] ELSE t[i - 2 * k]
    <2>1. /\ Len(s \o t) = Len(s) + Len(t)
          /\ \A i \in 1 .. Len(s) + Len(t) :
                 (s \o t)[i] = IF i <= Len(s) THEN s[i] ELSE t[i - Len(s)]
        BY ConcatProperties
    <2>2. u = s \o t
        BY DEF Joined
    <2> HIDE DEF u
    <2> DEFINE v == s \o t
    <2> HIDE DEF v
    <2>3. /\ Len(v) = Len(s) + Len(t)
          /\ \A i \in 1 .. Len(s) + Len(t) : v[i] = IF i <= Len(s) THEN s[i] ELSE t[i - Len(s)]
        BY <2>1 DEF v
    <2> QED BY <1>1, <1>2, <2>2, <2>3 DEF v
<1> HIDE DEF u
<1>4. ASSUME NEW j \in 1 .. k + m PROVE u[2 * j - 1] = "/" /\ u[2 * j] # "/"
    <2>1. 2 * j - 1 \in 1 .. 2 * k + 2 * m /\ 2 * j \in 1 .. 2 * k + 2 * m
        OBVIOUS
    <2>2. CASE j <= k
        <3>1. u[2 * j - 1] = s[2 * j - 1] /\ u[2 * j] = s[2 * j]
            BY <1>3, <2>1, <2>2
        <3> QED BY <1>1, <2>2, <3>1
    <2>3. CASE j > k
        <3>1. u[2 * j - 1] = t[(2 * j - 1) - 2 * k] /\ u[2 * j] = t[2 * j - 2 * k]
            BY <1>3, <2>1, <2>3
        <3>2. /\ (2 * j - 1) - 2 * k = 2 * (j - k) - 1 /\ 2 * j - 2 * k = 2 * (j - k)
              /\ j - k \in 1 .. m
            BY <2>3
        <3> QED BY <1>2, <3>1, <3>2
    <2> QED BY <2>2, <2>3
<1>5. k + m \in Nat /\ Len(u) = 2 * (k + m)
    BY <1>3
<1> QED BY <1>4, <1>5 DEF Chain, u

\* A chain is its words spelled.
LEMMA ChainIsSpelled ==
    ASSUME NEW S, NEW t \in Seq(S), Chain(t)
    PROVE  t = Spelled(OwnWords(t)) /\ (OwnWords(t) = << >> <=> t = << >>)
<1>1. PICK k \in Nat : Len(t) = 2 * k /\ \A j \in 1 .. k : t[2 * j - 1] = "/" /\ t[2 * j] # "/"
    BY DEF Chain
<1> DEFINE a == Own(t)
           w == OwnWords(t)
           Half(n) == /\ a[2 * n] \in Seq(S) /\ Len(a[2 * n]) = n
                      /\ \A j \in 1 .. n : a[2 * n][j] = t[2 * j]
           T == {n \in Nat : n <= k => Half(n)}
<1>2. /\ w = a[2 * k] /\ a[0] = << >>
      /\ \A n \in 1 .. 2 * k : a[n] = IF t[n] = "/" THEN a[n - 1] ELSE Append(a[n - 1], t[n])
      /\ \A n \in 1 .. 2 * k : t[n] \in S
    BY <1>1, OwnSteps, ElementOfSeq
<1> HIDE DEF a, w
<1>3. 0 \in T
    <2>1. 2 * 0 = 0 /\ a[0] \in Seq(S) /\ Len(a[0]) = 0
        BY <1>2, EmptySeq
    <2>2. Half(0)
        BY <2>1
    <2> HIDE DEF Half
    <2> QED BY <2>2
<1>4. ASSUME NEW n \in Nat, n \in T PROVE n + 1 \in T
    <2> HIDE DEF Half
    <2> SUFFICES ASSUME n + 1 <= k PROVE Half(n + 1)
        OBVIOUS
    <2>1. Half(n)
        BY <1>4
    <2>2. /\ 2 * n + 1 \in 1 .. 2 * k /\ 2 * n + 2 \in 1 .. 2 * k
          /\ (2 * n + 1) - 1 = 2 * n /\ (2 * n + 2) - 1 = 2 * n + 1
          /\ n + 1 \in 1 .. k /\ 2 * (n + 1) - 1 = 2 * n + 1 /\ 2 * (n + 1) = 2 * n + 2
        OBVIOUS
    <2>3. t[2 * n + 1] = "/" /\ t[2 * n + 2] # "/"
        BY <1>1, <2>2
    <2>4. a[2 * n + 1] = a[2 * n]
        BY <1>2, <2>2, <2>3
    <2> DEFINE v == a[2 * n]
               e == t[2 * n + 2]
    <2>5. a[2 * n + 2] = Append(v, e) /\ e \in S
        BY <1>2, <2>2, <2>3, <2>4
    <2>6. v \in Seq(S) /\ Len(v) = n /\ \A j \in 1 .. n : v[j] = t[2 * j]
        BY <2>1 DEF Half
    <2> HIDE DEF v, e
    <2>7. /\ Append(v, e) \in Seq(S) /\ Len(Append(v, e)) = n + 1
          /\ \A j \in 1 .. n : Append(v, e)[j] = v[j]
          /\ Append(v, e)[n + 1] = e
        BY <2>5, <2>6
    <2>8. \A j \in 1 .. n + 1 : Append(v, e)[j] = t[2 * j]
        <3>1. t[2 * (n + 1)] = e
            BY <2>2 DEF e
        <3>2. \A j \in 1 .. n + 1 : j \in 1 .. n \/ j = n + 1
            OBVIOUS
        <3> QED BY <2>6, <2>7, <3>1, <3>2
    <2>9. a[2 * (n + 1)] = Append(v, e)
        BY <2>2, <2>5
    <2> QED BY <2>7, <2>8, <2>9 DEF Half
<1> HIDE DEF T
<1>5. k \in T
    BY <1>3, <1>4, SetInduction
<1>6. w \in Seq(S) /\ Len(w) = k /\ \A j \in 1 .. k : w[j] = t[2 * j]
    BY <1>2, <1>5 DEF T
<1>7. \A i \in 1 .. 2 * k : t[i] = IF i % 2 = 1 THEN "/" ELSE w[i \div 2]
    <2> TAKE i \in 1 .. 2 * k
    <2>1. CASE i % 2 = 1
        <3>1. PICK j \in 1 .. k : i = 2 * j - 1
            <4>1. (i + 1) \div 2 \in 1 .. k /\ i = 2 * ((i + 1) \div 2) - 1
                BY <2>1
            <4> QED BY <4>1
        <3> QED BY <1>1, <2>1, <3>1
    <2>2. CASE i % 2 # 1
        <3>1. i \div 2 \in 1 .. k /\ i = 2 * (i \div 2)
            BY <2>2
        <3> QED BY <1>6, <2>2, <3>1
    <2> QED BY <2>1, <2>2
<1>8. t = [i \in 1 .. 2 * k |-> t[i]]
    BY <1>1, LenProperties
<1>9. t = Spelled(w)
    BY <1>6, <1>7, <1>8 DEF Spelled
<1>10. w = << >> <=> t = << >>
    BY <1>1, <1>6, EmptySeq
<1> QED BY <1>9, <1>10 DEF w

LEMMA WordPlaces ==
    ASSUME NEW S, NEW t \in Seq(S), NEW lo, NEW hi,
           Words(t) # {}, lo = Min(Words(t)), hi = Max(Words(t))
    PROVE  /\ lo \in 1 .. Len(t) /\ hi \in lo .. Len(t) /\ t[lo] # "/" /\ t[hi] # "/"
           /\ \A k \in 1 .. Len(t) : k < lo \/ k > hi => t[k] = "/"
<1> DEFINE I == Words(t)
<1>1. Len(t) \in Nat /\ I \in SUBSET (1 .. Len(t)) /\ I # {}
    BY LenProperties DEF Words
<1>2. \A k \in 1 .. Len(t) : k \in I <=> t[k] # "/"
    BY LenProperties DEF Words
<1> HIDE DEF I
<1>3. lo \in I /\ hi \in I /\ \A i \in I : lo <= i /\ i <= hi
    BY <1>1, PlacesAre DEF I
<1> QED BY <1>1, <1>2, <1>3

\* A part of a text.
Cut(S, s, t, lo, hi) ==
    /\ s \in Seq(S) /\ Len(s) = hi - lo + 1 /\ s # << >>
    /\ \A k \in 1 .. Len(s) : s[k] = t[lo + k - 1]
    /\ s[1] = t[lo] /\ s[Len(s)] = t[hi]
    /\ Alternates(t) => Alternates(s)
    /\ Ends(t) = {} => Ends(s) = {}

LEMMA CutIs ==
    ASSUME NEW S, NEW t \in Seq(S), NEW lo \in 1 .. Len(t), NEW hi \in lo .. Len(t)
    PROVE  Cut(S, SubSeq(t, lo, hi), t, lo, hi)
<1> DEFINE s == SubSeq(t, lo, hi)
<1>1. Len(t) \in Nat /\ DOMAIN t = 1 .. Len(t)
    BY LenProperties
<1>2. s \in Seq(S) /\ Len(s) = hi - lo + 1 /\ \A k \in 1 .. hi - lo + 1 : s[k] = t[lo + k - 1]
    <2>1. \A k \in lo .. hi : t[k] \in S
        BY ElementOfSeq
    <2> QED BY <2>1, SubSeqProperties
<1> HIDE DEF s
<1>3. s # << >> /\ DOMAIN s = 1 .. Len(s)
    BY <1>2, EmptySeq, LenProperties
<1>4. s[1] = t[lo] /\ s[Len(s)] = t[hi]
    BY <1>2
<1>5. ASSUME Alternates(t) PROVE Alternates(s)
    <2> SUFFICES ASSUME NEW i \in 1 .. Len(s), i + 1 <= Len(s)
                 PROVE  s[i + 1] = "/" <=> s[i] # "/"
        BY DEF Alternates
    <2>1. /\ lo + i - 1 \in 1 .. Len(t) /\ (lo + i - 1) + 1 <= Len(t)
          /\ lo + (i + 1) - 1 = (lo + i - 1) + 1 /\ i + 1 \in 1 .. hi - lo + 1
          /\ i \in 1 .. hi - lo + 1
        BY <1>1, <1>2
    <2>2. t[(lo + i - 1) + 1] = "/" <=> t[lo + i - 1] # "/"
        BY <1>5, <2>1 DEF Alternates
    <2>3. s[i] = t[lo + i - 1] /\ s[i + 1] = t[(lo + i - 1) + 1]
        BY <1>2, <2>1
    <2> QED BY <2>2, <2>3
<1>6. ASSUME Ends(t) = {} PROVE Ends(s) = {}
    <2>1. \A k \in 1 .. Len(s) : lo + k - 1 \in 1 .. Len(t) /\ s[k] = t[lo + k - 1]
        BY <1>1, <1>2
    <2> QED BY <1>1, <1>3, <1>6, <2>1 DEF Ends
<1>7. Cut(S, s, t, lo, hi)
    BY <1>2, <1>3, <1>4, <1>5, <1>6 DEF Cut
<1> QED BY <1>7 DEF s

LEMMA NothingBetween ==
    ASSUME NEW S, NEW t \in Seq(S), Words(t) = {}
    PROVE  OwnWords(t) = << >>
<1> DEFINE l == Len(t)
<1>1. l \in Nat /\ 0 \in Nat /\ 0 + l = l /\ DOMAIN t = 1 .. l
    BY LenProperties
<1>2. \A k \in 1 .. l : t[0 + k] = "/"
    BY <1>1 DEF Words
<1> HIDE DEF l
<1>3. 0 + l <= Len(t)
    BY <1>1 DEF l
<1>4. Own(t)[0 + l] = Own(t)[0]
    BY <1>1, <1>2, <1>3, OwnSkips
<1>5. OwnWords(t) = Own(t)[Len(t)] /\ Own(t)[0] = << >>
    BY OwnSteps
<1> QED BY <1>1, <1>4, <1>5 DEF l

\* What a text becomes of separators at its ends, or before it.
LEMMA EndsJoined ==
    ASSUME NEW S, NEW s \in Seq(S), NEW t \in Seq(S), Ends(s) = {}, Ends(t) = {}
    PROVE  Ends(Joined(s, t)) = {}
<1> DEFINE u == Joined(s, t)
<1>1. /\ Len(s) \in Nat /\ Len(t) \in Nat /\ DOMAIN s = 1 .. Len(s) /\ DOMAIN t = 1 .. Len(t)
      /\ u \in Seq(S)
    BY JoinedIs, LenProperties
<1>2. /\ Len(u) = Len(s) + Len(t) /\ DOMAIN u = 1 .. Len(u)
      /\ \A i \in 1 .. Len(s) + Len(t) : u[i] = IF i <= Len(s) THEN s[i] ELSE t[i - Len(s)]
    BY <1>1, ConcatProperties, LenProperties DEF Joined
<1> HIDE DEF u
<1>3. ASSUME NEW i \in DOMAIN u PROVE u[i] \notin {"?", "#"}
    <2>1. CASE i <= Len(s)
        BY <1>1, <1>2, <2>1 DEF Ends
    <2>2. CASE i > Len(s)
        <3>1. i \in 1 .. Len(s) + Len(t) /\ ~(i <= Len(s)) /\ i - Len(s) \in 1 .. Len(t)
            BY <1>1, <1>2, <2>2
        <3>2. u[i] = t[i - Len(s)]
            BY <1>2, <3>1
        <3>3. t[i - Len(s)] \notin {"?", "#"}
            BY <1>1, <3>1 DEF Ends
        <3> QED BY <3>2, <3>3
    <2> QED BY <1>1, <1>2, <2>1, <2>2
<1> QED BY <1>3 DEF Ends, u

LEMMA SegmentIs ==
    ASSUME NEW S, "/" \in S, NEW part \in Seq(S)
    PROVE  /\ Segment(part) \in Seq(S)
           /\ OwnWords(Segment(part)) = OwnWords(part)
           /\ Alternates(part) => Chain(Segment(part))
           /\ Ends(part) = {} => Ends(Segment(part)) = {}
<1>1. CASE Words(part) = {}
    <2>1. Segment(part) = << >>
        BY <1>1 DEF Segment
    <2>2. << >> \in Seq(S) /\ Len(<< >>) = 0 /\ Alternates(<< >>) /\ Ends(<< >>) = {}
        BY EmptySeq DEF Alternates, Ends
    <2>3. Chain(<< >>)
        BY <2>2, AlternatingIsChain
    <2> QED BY <1>1, <2>1, <2>2, <2>3, WordsOfNothing, NothingBetween
<1>2. CASE Words(part) # {}
    <2> DEFINE lo  == Min(Words(part))
               hi  == Max(Words(part))
               cut == SubSeq(part, lo, hi)
               sep == <<"/">>
               all == Joined(sep, cut)
    <2>1. /\ lo \in 1 .. Len(part) /\ hi \in lo .. Len(part) /\ part[lo] # "/" /\ part[hi] # "/"
          /\ \A k \in 1 .. Len(part) : k < lo \/ k > hi => part[k] = "/"
        BY <1>2, WordPlaces
    <2>2. Segment(part) = all
        BY <1>2 DEF Segment, Trimmed, Joined
    <2>3. /\ sep \in Seq(S) /\ Len(sep) = 1 /\ sep[1] = "/" /\ DOMAIN sep = 1 .. 1
          /\ Ends(sep) = {} /\ Len(part) \in Nat
        <3>1. sep \in Seq(S) /\ Len(sep) = 1 /\ sep[1] = "/" /\ DOMAIN sep = 1 .. 1
            <4>2. sep \in Seq(S)
                OBVIOUS
            <4>3. Len(sep) = 1 /\ sep[1] = "/"
                OBVIOUS
            <4> QED BY <4>2, <4>3, LenProperties
        <3> HIDE DEF sep
        <3>2. \A i \in DOMAIN sep : sep[i] = "/"
            BY <3>1
        <3> QED BY <3>1, <3>2, LenProperties DEF Ends
    <2> HIDE DEF lo, hi, sep
    <2>4. OwnWords(cut) = OwnWords(part)
        BY <2>1, OwnTrimmed
    <2>5. /\ cut \in Seq(S) /\ Len(cut) = hi - lo + 1 /\ cut # << >>
          /\ cut[1] = part[lo] /\ cut[Len(cut)] = part[hi]
          /\ Alternates(part) => Alternates(cut)
          /\ Ends(part) = {} => Ends(cut) = {}
        <3>1. lo \in 1 .. Len(part) /\ hi \in lo .. Len(part)
            BY <2>1
        <3>2. Cut(S, SubSeq(part, lo, hi), part, lo, hi)
            BY <3>1, CutIs
        <3>3. Cut(S, cut, part, lo, hi)
            BY <3>2
        <3> HIDE DEF cut
        <3> QED BY <3>3 DEF Cut
    <2> HIDE DEF cut
    <2>6. OwnWords(sep) = << >>
        <3>1. Words(sep) = {}
            BY <2>3 DEF Words
        <3> QED BY <2>3, <3>1, NothingBetween
    <2>7. OwnWords(cut) \in Seq(S)
        <3>1. Len(cut) \in 0 .. Len(cut)
            BY <2>5, LenProperties
        <3> QED BY <2>5, <3>1, OwnSteps
    <2>8. all \in Seq(S) /\ OwnWords(all) = OwnWords(part)
        <3>1. OwnWords(all) = Joined(OwnWords(sep), OwnWords(cut)) /\ all \in Seq(S)
            BY <2>3, <2>5, OwnJoined, JoinedIs
        <3> QED BY <2>4, <2>6, <2>7, <3>1, JoinedIs
    <2>9. Len(cut) \in Nat /\ Len(cut) >= 1
        BY <2>1, <2>3, <2>5
    <2>10. /\ Len(all) = Len(cut) + 1 /\ all[1] = "/"
           /\ \A i \in 1 .. Len(cut) : all[i + 1] = cut[i]
        <3>1. /\ Len(all) = Len(sep) + Len(cut)
              /\ \A i \in 1 .. Len(sep) + Len(cut) :
                     all[i] = IF i <= Len(sep) THEN sep[i] ELSE cut[i - Len(sep)]
            BY <2>3, <2>5, ConcatProperties DEF Joined
        <3> HIDE DEF all
        <3>2. Len(all) = 1 + Len(cut) /\ \A i \in 1 .. 1 + Len(cut) :
                  all[i] = IF i <= 1 THEN sep[i] ELSE cut[i - 1]
            BY <2>3, <3>1
        <3>3. \A i \in 1 .. Len(cut) : i + 1 \in 1 .. 1 + Len(cut) /\ (i + 1) - 1 = i /\ ~(i + 1 <= 1)
            BY <2>9
        <3> QED BY <2>3, <2>9, <3>2, <3>3
    <2>11. Ends(part) = {} => Ends(all) = {}
        BY <2>3, <2>5, EndsJoined
    <2> HIDE DEF all
    <2>12. ASSUME Alternates(part) PROVE Chain(all)
        <3>1. ASSUME NEW i \in 1 .. Len(all), i + 1 <= Len(all)
              PROVE  all[i + 1] = "/" <=> all[i] # "/"
            <4>1. CASE i = 1
                <5>1. all[1 + 1] = cut[1]
                    BY <2>9, <2>10
                <5> QED BY <2>1, <2>5, <2>10, <4>1, <5>1
            <4>2. CASE i # 1
                <5>1. i - 1 \in 1 .. Len(cut) /\ (i - 1) + 1 <= Len(cut) /\ (i - 1) + 1 = i
                      /\ i \in 1 .. Len(cut)
                    BY <2>9, <2>10, <3>1, <4>2
                <5>2. cut[(i - 1) + 1] = "/" <=> cut[i - 1] # "/"
                    BY <2>5, <2>12, <5>1 DEF Alternates
                <5>3. all[i + 1] = cut[i] /\ all[(i - 1) + 1] = cut[i - 1]
                    BY <2>10, <5>1
                <5> QED BY <5>1, <5>2, <5>3
            <4> QED BY <4>1, <4>2
        <3>2. Alternates(all)
            BY <3>1 DEF Alternates
        <3>3. all[1] = "/" /\ all[Len(all)] # "/"
            BY <2>1, <2>5, <2>9, <2>10
        <3> QED BY <2>8, <3>2, <3>3, AlternatingIsChain
    <2> QED BY <2>2, <2>8, <2>11, <2>12
<1> QED BY <1>1, <1>2

\* One part flattened, and three.
LEMMA Flattened ==
    ASSUME NEW a, NEW b, NEW c
    PROVE  /\ FlattenSeq(<<a>>) = a
           /\ FlattenSeq(<<a, b, c>>) = Joined(Joined(a, b), c)
<1> DEFINE OneOf(f)   == f = [i \in 1 .. 1 |-> IF i = 1 THEN <<a>>[i] ELSE Joined(f[i - 1], <<a>>[i])]
           ThreeOf(f) == f = [i \in 1 .. 3 |-> IF i = 1 THEN <<a, b, c>>[i]
                                               ELSE Joined(f[i - 1], <<a, b, c>>[i])]
<1>1. FlattenSeq(<<a>>) = (CHOOSE f : OneOf(f))[1]
    BY DEF FlattenSeq, Joined
<1>2. FlattenSeq(<<a, b, c>>) = (CHOOSE f : ThreeOf(f))[3]
    BY DEF FlattenSeq, Joined
<1>3. \E f : OneOf(f)
    <2>1. OneOf([i \in 1 .. 1 |-> a])
        OBVIOUS
    <2> QED BY <2>1
<1>4. \E f : ThreeOf(f)
    <2> DEFINE f == [i \in 1 .. 3 |-> IF i = 1 THEN a ELSE IF i = 2 THEN Joined(a, b)
                                      ELSE Joined(Joined(a, b), c)]
    <2>1. ThreeOf(f)
        OBVIOUS
    <2> QED BY <2>1
<1>5. ASSUME NEW f, OneOf(f) PROVE f[1] = a
    BY <1>5
<1>6. ASSUME NEW f, ThreeOf(f) PROVE f[3] = Joined(Joined(a, b), c)
    <2>1. f[1] = a /\ f[2] = Joined(f[1], b) /\ f[3] = Joined(f[2], c)
        BY <1>6
    <2> QED BY <2>1
<1> HIDE DEF OneOf, ThreeOf
<1> QED BY <1>1, <1>2, <1>3, <1>4, <1>5, <1>6

\* A text of words and single separators, in which each word is followed by
\* a separator, when no query or fragment is there.
IsText(S, t) ==
    /\ t \in Seq(S)
    /\ \A i \in DOMAIN t : i > 1 => t[i - 1] \in {"/", "?", "#"} \/ t[i] \in {"/", "?", "#"}

LEMMA PlainAlternates ==
    ASSUME NEW S, NEW t, IsText(S, t), Plain(t)
    PROVE  t \in Seq(S) /\ Alternates(t) /\ Ends(t) = {}
<1>1. /\ t \in Seq(S) /\ Ends(t) = {} /\ Len(t) \in Nat /\ DOMAIN t = 1 .. Len(t)
      /\ \A i \in 1 .. Len(t) : i > 1 => t[i - 1] \in {"/", "?", "#"} \/ t[i] \in {"/", "?", "#"}
      /\ \A i \in 1 .. Len(t) : i > 1 => t[i - 1] # "/" \/ t[i] # "/"
    BY LenProperties DEF IsText, Plain
<1>2. \A i \in 1 .. Len(t) : t[i] \notin {"?", "#"}
    BY <1>1 DEF Ends
<1>3. ASSUME NEW i \in 1 .. Len(t), i + 1 <= Len(t)
      PROVE  t[i + 1] = "/" <=> t[i] # "/"
    <2>1. i + 1 \in 1 .. Len(t) /\ i + 1 > 1 /\ (i + 1) - 1 = i
        BY <1>1, <1>3
    <2>2. t[i] \in {"/", "?", "#"} \/ t[i + 1] \in {"/", "?", "#"}
        BY <1>1, <2>1
    <2>3. t[i] # "/" \/ t[i + 1] # "/"
        BY <1>1, <2>1
    <2> QED BY <1>2, <2>1, <2>2, <2>3
<1> QED BY <1>1, <1>3 DEF Alternates

LEMMA TrimmedEndIs ==
    ASSUME NEW S, NEW base \in Seq(S)
    PROVE  /\ TrimmedEnd(base) \in Seq(S)
           /\ OwnWords(TrimmedEnd(base)) = OwnWords(base)
           /\ Alternates(base) /\ (base # << >> => base[1] = "/") => Chain(TrimmedEnd(base))
           /\ Ends(base) = {} => Ends(TrimmedEnd(base)) = {}
<1>1. CASE Words(base) = {}
    <2>1. TrimmedEnd(base) = << >>
        BY <1>1 DEF TrimmedEnd
    <2>2. << >> \in Seq(S) /\ Len(<< >>) = 0 /\ Alternates(<< >>) /\ Ends(<< >>) = {}
        BY EmptySeq DEF Alternates, Ends
    <2>3. Chain(<< >>)
        BY <2>2, AlternatingIsChain
    <2> QED BY <1>1, <2>1, <2>2, <2>3, WordsOfNothing, NothingBetween
<1>2. CASE Words(base) # {}
    <2> DEFINE lo  == Min(Words(base))
               hi  == Max(Words(base))
               cut == SubSeq(base, 1, hi)
    <2>1. /\ lo \in 1 .. Len(base) /\ hi \in lo .. Len(base) /\ base[hi] # "/"
          /\ \A k \in 1 .. Len(base) : k < lo \/ k > hi => base[k] = "/"
        BY <1>2, WordPlaces
    <2>2. TrimmedEnd(base) = cut
        BY <1>2 DEF TrimmedEnd
    <2> HIDE DEF lo, hi
    <2>3. 1 \in 1 .. Len(base) /\ hi \in 1 .. Len(base)
          /\ \A k \in 1 .. Len(base) : k < 1 \/ k > hi => base[k] = "/"
        BY <2>1, LenProperties
    <2>4. OwnWords(cut) = OwnWords(base)
        BY <2>3, OwnTrimmed
    <2>5. Cut(S, SubSeq(base, 1, hi), base, 1, hi)
        BY <2>3, CutIs
    <2>6. Cut(S, cut, base, 1, hi)
        BY <2>5
    <2> HIDE DEF cut
    <2>7. /\ cut \in Seq(S) /\ cut # << >> /\ cut[1] = base[1] /\ cut[Len(cut)] = base[hi]
          /\ Alternates(base) => Alternates(cut)
          /\ Ends(base) = {} => Ends(cut) = {}
        BY <2>6 DEF Cut
    <2>8. base # << >>
        BY <2>3, EmptySeq
    <2>9. Alternates(base) /\ (base # << >> => base[1] = "/") => Chain(cut)
        BY <2>1, <2>7, <2>8, AlternatingIsChain
    <2> QED BY <2>2, <2>4, <2>7, <2>9
<1> QED BY <1>1, <1>2

\* What follows the trimmed base URL.
Rooted(j) == IF j = << >> THEN <<"/">> ELSE j

LEMMA JoinedSegments ==
    ASSUME NEW a, NEW b, NEW c
    PROVE  /\ JoinSegments(<<a>>) = Rooted(Segment(a))
           /\ JoinSegments(<<a, b, c>>)
                  = Rooted(Joined(Joined(Segment(a), Segment(b)), Segment(c)))
<1>1. [i \in DOMAIN <<a>> |-> Segment(<<a>>[i])] = <<Segment(a)>>
    OBVIOUS
<1>2. [i \in DOMAIN <<a, b, c>> |-> Segment(<<a, b, c>>[i])] = <<Segment(a), Segment(b), Segment(c)>>
    OBVIOUS
<1> QED BY <1>1, <1>2, Flattened DEF JoinSegments, Rooted

\* A path of words, joined to the trimmed base URL.
LEMMA PathOfJoined ==
    ASSUME NEW S, "/" \in S, NEW b \in Seq(S), NEW j \in Seq(S),
           Chain(b), Chain(j), Ends(b) = {}, Ends(j) = {}
    PROVE  PathOf(Joined(b, Rooted(j)))
               = Joined(Spelled(Joined(OwnWords(b), OwnWords(j))),
                        IF OwnWords(j) = << >> THEN <<"/">> ELSE << >>)
<1> DEFINE sep == <<"/">>
<1>1. /\ Joined(b, j) \in Seq(S) /\ OwnWords(Joined(b, j)) = Joined(OwnWords(b), OwnWords(j))
      /\ Chain(Joined(b, j)) /\ Ends(Joined(b, j)) = {}
      /\ Joined(Joined(b, j), << >>) = Joined(b, j) /\ Joined(b, << >>) = b
    <2>1. Joined(b, j) \in Seq(S) /\ Joined(b, << >>) = b
        BY JoinedIs
    <2>2. Joined(Joined(b, j), << >>) = Joined(b, j)
        <3> DEFINE u == Joined(b, j)
        <3>1. u \in Seq(S)
            BY <2>1
        <3> HIDE DEF u
        <3>2. Joined(u, << >>) = u
            BY <3>1, JoinedIs
        <3> QED BY <3>2 DEF u
    <2>3. OwnWords(Joined(b, j)) = Joined(OwnWords(b), OwnWords(j))
        BY OwnJoined
    <2>4. Chain(Joined(b, j))
        BY ChainsJoined
    <2>5. Ends(Joined(b, j)) = {}
        BY EndsJoined
    <2> QED BY <2>1, <2>2, <2>3, <2>4, <2>5
<1>2. Joined(b, j) = Spelled(Joined(OwnWords(b), OwnWords(j)))
    BY <1>1, ChainIsSpelled
<1>3. OwnWords(j) = << >> <=> j = << >>
    BY ChainIsSpelled
<1>4. CASE j = << >>
    <2>1. sep \in Seq(S) /\ Ends(sep) = {}
        <3>1. sep \in Seq(S) /\ Len(sep) = 1 /\ sep[1] = "/"
            OBVIOUS
        <3> HIDE DEF sep
        <3>2. \A i \in DOMAIN sep : sep[i] = "/"
            BY <3>1, LenProperties
        <3> QED BY <3>1, <3>2 DEF Ends
    <2>2. Rooted(j) = sep
        BY <1>4 DEF Rooted
    <2> HIDE DEF sep
    <2>3. Ends(Joined(b, sep)) = {}
        BY <2>1, EndsJoined
    <2>4. PathOf(Joined(b, sep)) = Joined(b, sep)
        BY <2>3 DEF PathOf
    <2>5. b = Spelled(Joined(OwnWords(b), OwnWords(j)))
        BY <1>1, <1>2, <1>4
    <2>6. PathOf(Joined(b, sep))
              = Joined(Spelled(Joined(OwnWords(b), OwnWords(j))),
                       IF OwnWords(j) = << >> THEN sep ELSE << >>)
        BY <1>3, <1>4, <2>4, <2>5
    <2> QED BY <2>2, <2>6 DEF sep
<1>5. CASE j # << >>
    <2>1. PathOf(Joined(b, j)) = Joined(b, j)
        BY <1>1 DEF PathOf
    <2>2. Rooted(j) = j
        BY <1>5 DEF Rooted
    <2> HIDE DEF sep
    <2>3. PathOf(Joined(b, Rooted(j)))
              = Joined(Spelled(Joined(OwnWords(b), OwnWords(j))),
                       IF OwnWords(j) = << >> THEN sep ELSE << >>)
        BY <1>1, <1>2, <1>3, <1>5, <2>1, <2>2
    <2> QED BY <2>3 DEF sep
<1> QED BY <1>4, <1>5

\* What follows a query or a fragment is no part of the path.
LEMMA PathOfSwallowed ==
    ASSUME NEW S, NEW base \in Seq(S), NEW j \in Seq(S), Ends(base) # {}
    PROVE  PathOf(Joined(TrimmedEnd(base), j)) = PathOf(base)
<1> DEFINE e  == Min(Ends(base))
           hi == Max(Words(base))
           lo == Min(Words(base))
           b  == TrimmedEnd(base)
           u  == Joined(b, j)
<1>1. /\ Len(base) \in Nat /\ DOMAIN base = 1 .. Len(base)
      /\ Ends(base) \in SUBSET (1 .. Len(base)) /\ Ends(base) # {}
    BY LenProperties DEF Ends
<1>2. e \in Ends(base) /\ \A i \in Ends(base) : e <= i
    BY <1>1, PlacesAre
<1>3. e \in Words(base) /\ Words(base) # {}
    BY <1>2 DEF Ends, Words
<1>4. /\ lo \in 1 .. Len(base) /\ hi \in lo .. Len(base)
      /\ \A k \in 1 .. Len(base) : k < lo \/ k > hi => base[k] = "/"
    BY <1>3, WordPlaces
<1> HIDE DEF e, lo
<1>5. e \in 1 .. hi
    BY <1>1, <1>2, <1>3, <1>4 DEF Words
<1>6. b = SubSeq(base, 1, hi)
    BY <1>3 DEF TrimmedEnd
<1> HIDE DEF hi
<1>7. b \in Seq(S) /\ Len(b) = hi /\ \A k \in 1 .. hi : b[k] = base[k]
    <2>1. 1 \in 1 .. Len(base) /\ hi \in 1 .. Len(base)
        BY <1>1, <1>4
    <2>2. Cut(S, SubSeq(base, 1, hi), base, 1, hi)
        BY <2>1, CutIs
    <2>3. Cut(S, b, base, 1, hi)
        BY <1>6, <2>2
    <2> HIDE DEF b
    <2>4. b \in Seq(S) /\ Len(b) = hi - 1 + 1 /\ \A k \in 1 .. Len(b) : b[k] = base[1 + k - 1]
        BY <2>3 DEF Cut
    <2> QED BY <2>1, <2>4
<1> HIDE DEF b
<1>8. /\ u \in Seq(S) /\ DOMAIN u = 1 .. Len(u) /\ Len(u) \in Nat /\ Len(u) >= hi
      /\ \A k \in 1 .. hi : u[k] = base[k]
    <2>1. /\ Len(j) \in Nat /\ u \in Seq(S) /\ Len(b) \in Nat
          /\ DOMAIN u = 1 .. Len(u) /\ Len(u) \in Nat
        BY <1>7, JoinedIs, LenProperties
    <2>2. /\ Len(u) = Len(b) + Len(j)
          /\ \A i \in 1 .. Len(b) + Len(j) : u[i] = IF i <= Len(b) THEN b[i] ELSE j[i - Len(b)]
        BY <1>7, ConcatProperties DEF Joined
    <2> HIDE DEF u
    <2> QED BY <1>7, <2>1, <2>2
<1> HIDE DEF u
<1>9. /\ Ends(u) \in SUBSET (1 .. Len(u)) /\ e \in Ends(u)
      /\ \A i \in 1 .. hi : i \in Ends(u) <=> i \in Ends(base)
    <2>1. \A i \in 1 .. hi : i \in DOMAIN u /\ i \in DOMAIN base
        BY <1>1, <1>4, <1>8
    <2> QED BY <1>2, <1>5, <1>8, <2>1 DEF Ends
<1> DEFINE f == Min(Ends(u))
<1>10. f \in Ends(u) /\ f <= e
    <2>1. Ends(u) # {}
        BY <1>9
    <2> QED BY <1>8, <1>9, <2>1, PlacesAre
<1> HIDE DEF f
<1>11. f = e
    <2>1. f \in 1 .. hi
        <3>1. f \in 1 .. Len(u)
            BY <1>9, <1>10
        <3> QED BY <1>4, <1>5, <1>8, <1>10, <3>1
    <2> QED BY <1>2, <1>9, <1>10, <2>1, <1>5
<1>12. SubSeq(u, 1, e - 1) = SubSeq(base, 1, e - 1)
    <2>1. \A i \in 1 .. e - 1 : u[i] \in S /\ base[i] \in S /\ u[i] = base[i]
        <3>1. \A i \in 1 .. e - 1 : i \in 1 .. hi /\ i \in 1 .. Len(u) /\ i \in 1 .. Len(base)
            BY <1>1, <1>4, <1>5, <1>8
        <3> QED BY <1>8, <3>1, ElementOfSeq
    <2> DEFINE s == SubSeq(u, 1, e - 1)
               t == SubSeq(base, 1, e - 1)
    <2>2. e - 1 \in Int
        BY <1>5
    <2>3. /\ s \in Seq(S) /\ Len(s) = (IF 1 <= e - 1 THEN e - 1 - 1 + 1 ELSE 0)
          /\ \A i \in 1 .. e - 1 - 1 + 1 : s[i] = u[1 + i - 1]
        BY <2>1, <2>2, SubSeqProperties
    <2>4. /\ t \in Seq(S) /\ Len(t) = (IF 1 <= e - 1 THEN e - 1 - 1 + 1 ELSE 0)
          /\ \A i \in 1 .. e - 1 - 1 + 1 : t[i] = base[1 + i - 1]
        BY <2>1, <2>2, SubSeqProperties
    <2> HIDE DEF s, t
    <2>5. Len(s) = Len(t) /\ \A i \in 1 .. Len(s) : s[i] = t[i]
        <3>1. \A i \in 1 .. Len(s) : i \in 1 .. e - 1 /\ i \in 1 .. e - 1 - 1 + 1 /\ 1 + i - 1 = i
            BY <1>5, <2>3
        <3> QED BY <2>1, <2>3, <2>4, <3>1
    <2>6. s = t
        BY <2>3, <2>4, <2>5, SeqEqual
    <2> QED BY <2>6 DEF s, t
<1>13. PathOf(u) = SubSeq(u, 1, e - 1)
    BY <1>9, <1>11 DEF PathOf, f
<1>14. PathOf(base) = SubSeq(base, 1, e - 1)
    BY <1>1 DEF PathOf, e
<1> QED BY <1>12, <1>13, <1>14 DEF u, b

-----------------------------------------------------------------------------
(* Where a request goes.                                                   *)

\* The base path and the version are ones that were given, or the default.
UrlInv ==
    /\ ValueIn(calls, "base_path", <<"/", "api">>) \in BasePaths \cup {<<"/", "api">>}
    /\ ValueIn(calls, "api_version", 1) \in 1 .. 5

LEMMA StepKeepsUrl ==
    ASSUME RequestInv, UrlInv, [Next]_vars
    PROVE  UrlInv'
<1>1. CASE \/ BasePath \/ ApiVersion \/ BearerToken \/ DefaultHeader \/ Retry
           \/ ClientAttemptTimeout \/ ClientObserver
           \/ Request
           \/ Query \/ Header \/ Context \/ ContextReceived \/ Json \/ Body \/ Retriable
           \/ AcceptStatus \/ RetryOnStatus \/ Timeout \/ DeadlineAt \/ Observer
    <2>1. PICK c : Honest(c) /\ calls' = Append(calls, c)
        BY <1>1, CallsAreHonest
    <2>2. \A fn, default : ValueIn(Append(calls, c), fn, default)
                               = IF c.fn = fn THEN c.value ELSE ValueIn(calls, fn, default)
        BY ValueMore DEF RequestInv
    <2>3. /\ ValueIn(calls', "base_path", <<"/", "api">>)
                 = IF c.fn = "base_path" THEN c.value
                   ELSE ValueIn(calls, "base_path", <<"/", "api">>)
          /\ ValueIn(calls', "api_version", 1)
                 = IF c.fn = "api_version" THEN c.value ELSE ValueIn(calls, "api_version", 1)
        BY <2>1, <2>2
    <2> QED BY <2>1, <2>3 DEF UrlInv, Honest
<1>2. CASE Build \/ Attempt \/ Execute \/ Return \/ UNCHANGED vars
    <2>1. UNCHANGED calls
        BY <1>2 DEF Build, Attempt, Execute, Return, vars
    <2> QED BY <2>1 DEF UrlInv
<1> QED BY <1>1, <1>2 DEF Next

LEMMA InitUrl ==
    ASSUME Init
    PROVE  UrlInv
<1>1. calls = << >>
    BY DEF Init
<1> QED BY <1>1, NothingAsked DEF UrlInv

Atoms == STRING \cup {"/", "api", "v1", "v2", "v3", "v4", "v5"}

\* The texts a URL is made of.
LEMMA TextsAre ==
    /\ \A text \in Bases \cup BasePaths \cup Paths \cup {<<"/", "api">>} : IsText(Atoms, text)
    /\ \A base \in Bases : Plain(base) /\ base # << >> => base[1] = "/"
<1>1. ASSUME NEW text \in Bases \cup BasePaths \cup Paths
      PROVE  IsText(Atoms, text)
    <2>1. /\ text \in Seq(STRING)
          /\ \A i \in DOMAIN text :
                 i > 1 => text[i - 1] \in {"/", "?", "#"} \/ text[i] \in {"/", "?", "#"}
        BY TextsAssumption DEF Paths
    <2>2. text \in Seq(Atoms)
        BY <2>1, SeqMonotonic DEF Atoms
    <2> QED BY <2>1, <2>2 DEF IsText
<1>2. IsText(Atoms, <<"/", "api">>)
    <2> DEFINE text == <<"/", "api">>
    <2>1. text \in Seq(Atoms) /\ Len(text) = 2 /\ text[1] = "/"
        BY DEF Atoms
    <2> HIDE DEF text
    <2>2. \A i \in DOMAIN text : i > 1 => text[i - 1] = "/"
        BY <2>1, LenProperties
    <2>3. IsText(Atoms, text)
        BY <2>1, <2>2 DEF IsText
    <2> QED BY <2>3 DEF text
<1>3. ASSUME NEW base \in Bases, Plain(base), base # << >>
      PROVE  base[1] = "/"
    <2>1. base[1] \in {"/", "?", "#"}
        BY <1>3, TextsAssumption
    <2>2. 1 \in DOMAIN base
        <3>1. base \in Seq(Atoms)
            BY <1>1 DEF IsText
        <3> QED BY <1>3, <3>1, EmptySeq, LenProperties
    <2> QED BY <1>3, <2>1, <2>2 DEF Plain, Ends
<1> QED BY <1>1, <1>2, <1>3

\* The segment of a version is its own word.
LEMMA VersionIs ==
    ASSUME NEW v \in 1 .. 5
    PROVE  /\ IsText(Atoms, <<AsPathSegment(v)>>) /\ Plain(<<AsPathSegment(v)>>)
           /\ OwnWords(<<AsPathSegment(v)>>) = <<AsPathSegment(v)>>
<1> DEFINE x == AsPathSegment(v)
           t == <<x>>
<1>1. x \in {"v1", "v2", "v3", "v4", "v5"}
    BY DEF AsPathSegment
<1>2. x \in Atoms /\ x \notin {"/", "?", "#"}
    BY <1>1 DEF Atoms
<1> HIDE DEF x
<1>3. t \in Seq(Atoms) /\ Len(t) = 1 /\ t[1] = x /\ t = Append(<< >>, x)
    BY <1>2
<1> HIDE DEF t
<1>4. DOMAIN t = 1 .. 1
    BY <1>3, LenProperties
<1>5. IsText(Atoms, t) /\ Plain(t)
    BY <1>2, <1>3, <1>4 DEF IsText, Plain, Ends
<1>6. OwnWords(t) = t
    <2>1. OwnWords(t) = Own(t)[1] /\ Own(t)[0] = << >>
        BY <1>3, OwnSteps
    <2>2. \A n \in 1 .. Len(t) :
              Own(t)[n] = IF t[n] = "/" THEN Own(t)[n - 1] ELSE Append(Own(t)[n - 1], t[n])
        BY <1>3, OwnSteps
    <2>3. 1 - 1 = 0 /\ 1 \in 1 .. Len(t)
        BY <1>3
    <2>4. Own(t)[1] = IF t[1] = "/" THEN Own(t)[0] ELSE Append(Own(t)[0], t[1])
        BY <2>2, <2>3
    <2> QED BY <1>2, <1>3, <2>1, <2>4
<1> QED BY <1>5, <1>6 DEF t, x

\* The parts of the URL, in the calls the property looks up.
LEMMA PartsAre ==
    ASSUME RequestInv, prepared # None
    PROVE  /\ client.base_url \in Bases /\ request.path \in Paths
           /\ client.base_path = ValueIn(calls, "base_path", <<"/", "api">>)
           /\ client.version = ValueIn(calls, "api_version", 1)
           /\ prepared.url = UrlString(request)
<1>1. /\ client # None /\ request.path \in Paths /\ prepared.url = UrlString(request)
      /\ client = Configured(calls, client.base_url, ClientDefaultsIn(calls))
      /\ client.base_url \in Bases
    BY DEF RequestInv, PreparedOK, RequestOK, ClientOK, AsAsked
<1> DEFINE defs     == ClientDefaultsIn(calls)
           path     == ValueIn(calls, "base_path", <<"/", "api">>)
           version  == ValueIn(calls, "api_version", 1)
           token    == ValueIn(calls, "bearer_token", None)
           policy   == ValueIn(calls, "retry", None)
           timeout  == ValueIn(calls, "attempt_timeout", None)
           observer == ValueIn(calls, "client.retry_observer", None)
<1>2. client = BuilderOf(client.base_url, path, version, token, policy, timeout, observer, defs)
    BY <1>1 DEF Configured
<1> HIDE DEF path, version, token, policy, timeout, observer, defs
<1>3. client.base_path = path /\ client.version = version
    BY <1>2 DEF BuilderOf
<1> QED BY <1>1, <1>3 DEF path, version

\* What a request has after the base URL, and the words of it.
Part(versioned, basePath, version, path) ==
    IF versioned THEN Joined(Joined(Segment(basePath), Segment(version)), Segment(path))
    ELSE Segment(path)

PartWords(versioned, basePath, version, path) ==
    IF versioned THEN Joined(Joined(OwnWords(basePath), version), OwnWords(path))
    ELSE OwnWords(path)

LEMMA PartIs ==
    ASSUME NEW basePath \in BasePaths \cup {<<"/", "api">>}, NEW v \in 1 .. 5,
           NEW path \in Paths, NEW versioned
    PROVE  /\ Part(versioned, basePath, <<AsPathSegment(v)>>, path) \in Seq(Atoms)
           /\ OwnWords(Part(versioned, basePath, <<AsPathSegment(v)>>, path))
                  = PartWords(versioned, basePath, <<AsPathSegment(v)>>, path)
           /\ Plain(basePath) /\ Plain(path) =>
                  /\ Chain(Part(versioned, basePath, <<AsPathSegment(v)>>, path))
                  /\ Ends(Part(versioned, basePath, <<AsPathSegment(v)>>, path)) = {}
<1> DEFINE version == <<AsPathSegment(v)>>
           a       == Segment(basePath)
           b       == Segment(version)
           c       == Segment(path)
           j       == Part(versioned, basePath, version, path)
           own     == PartWords(versioned, basePath, version, path)
<1>1. IsText(Atoms, basePath) /\ IsText(Atoms, version) /\ IsText(Atoms, path)
    BY TextsAre, VersionIs
<1>2. Plain(version) /\ OwnWords(version) = version
    BY VersionIs
<1>3. basePath \in Seq(Atoms) /\ version \in Seq(Atoms) /\ path \in Seq(Atoms)
    BY <1>1 DEF IsText
<1>4. "/" \in Atoms
    BY DEF Atoms
<1> HIDE DEF version
<1>5. /\ a \in Seq(Atoms) /\ b \in Seq(Atoms) /\ c \in Seq(Atoms)
      /\ OwnWords(a) = OwnWords(basePath) /\ OwnWords(b) = version /\ OwnWords(c) = OwnWords(path)
    BY <1>2, <1>3, <1>4, SegmentIs
<1>6. ASSUME Plain(basePath), Plain(path)
      PROVE  Chain(a) /\ Chain(b) /\ Chain(c) /\ Ends(a) = {} /\ Ends(b) = {} /\ Ends(c) = {}
    <2>1. /\ Alternates(basePath) /\ Alternates(version) /\ Alternates(path)
          /\ Ends(basePath) = {} /\ Ends(version) = {} /\ Ends(path) = {}
        BY <1>1, <1>2, <1>6, PlainAlternates
    <2> QED BY <1>3, <1>4, <2>1, SegmentIs
<1> HIDE DEF a, b, c
<1>7. Joined(a, b) \in Seq(Atoms) /\ Joined(Joined(a, b), c) \in Seq(Atoms)
    BY <1>5, JoinedIs
<1>8. /\ j = IF versioned THEN Joined(Joined(a, b), c) ELSE c
      /\ own = IF versioned THEN Joined(Joined(OwnWords(basePath), version), OwnWords(path))
               ELSE OwnWords(path)
    BY DEF Part, PartWords, a, b, c
<1> HIDE DEF j, own
<1>9. OwnWords(j) = own
    <2>1. OwnWords(Joined(a, b)) = Joined(OwnWords(basePath), version)
        BY <1>5, OwnJoined
    <2>2. OwnWords(Joined(Joined(a, b), c))
              = Joined(Joined(OwnWords(basePath), version), OwnWords(path))
        BY <1>5, <1>7, <2>1, OwnJoined
    <2> QED BY <1>5, <1>8, <2>2
<1>10. ASSUME Plain(basePath), Plain(path)
       PROVE  Chain(j) /\ Ends(j) = {}
    <2>1. Chain(Joined(a, b)) /\ Ends(Joined(a, b)) = {}
        BY <1>5, <1>6, <1>10, ChainsJoined, EndsJoined
    <2>2. Chain(Joined(Joined(a, b), c)) /\ Ends(Joined(Joined(a, b), c)) = {}
        BY <1>5, <1>6, <1>7, <1>10, <2>1, ChainsJoined, EndsJoined
    <2> QED BY <1>6, <1>8, <1>10, <2>2
<1>11. j \in Seq(Atoms)
    BY <1>5, <1>7, <1>8
<1> QED BY <1>9, <1>10, <1>11 DEF version, j, own

\* A request goes to the path its parts name, however they were spelled with
\* separators: each part becomes a chain of separator and word or nothing,
\* and chains joined are a chain; and whatever has a query or a fragment
\* before its own path keeps the path it had.
THEOREM PathIsReached == Spec => []RequestReachesItsPath
<1>1. Init => UrlInv
    BY InitUrl
<1>2. RequestInv /\ UrlInv /\ [Next]_vars => UrlInv'
    BY StepKeepsUrl
<1>3. RequestInv /\ UrlInv => RequestReachesItsPath
    <2> SUFFICES ASSUME RequestInv, UrlInv, prepared # None
                 PROVE  RequestReachesItsPath
        BY DEF RequestReachesItsPath
    <2> DEFINE base     == client.base_url
               basePath == ValueIn(calls, "base_path", <<"/", "api">>)
               v        == ValueIn(calls, "api_version", 1)
               path     == request.path
               version  == <<AsPathSegment(v)>>
               j        == Part(request.versioned, basePath, version, path)
               own      == PartWords(request.versioned, basePath, version, path)
               end      == IF own = << >> THEN <<"/">> ELSE << >>
    <2>1. /\ base \in Bases /\ path \in Paths
          /\ basePath \in BasePaths \cup {<<"/", "api">>} /\ v \in 1 .. 5
          /\ client.base_path = basePath /\ client.version = v
          /\ prepared.url = UrlString(request)
        BY PartsAre DEF UrlInv
    <2>2. prepared.url = Joined(TrimmedEnd(base), Rooted(j))
        <3>1. prepared.url
                  = Joined(TrimmedEnd(base),
                           IF request.versioned THEN JoinSegments(<<basePath, version, path>>)
                           ELSE JoinSegments(<<path>>))
            BY <2>1 DEF UrlString, BuildUrl, Joined
        <3> HIDE DEF base, basePath, version, path
        <3> QED BY <3>1, JoinedSegments DEF Part
    <2>3. /\ j \in Seq(Atoms) /\ OwnWords(j) = own
          /\ Plain(basePath) /\ Plain(path) => Chain(j) /\ Ends(j) = {}
        <3> HIDE DEF basePath, v, path
        <3> QED BY <2>1, PartIs
    <2>4. IsText(Atoms, base)
        BY <2>1, TextsAre
    <2>5. base \in Seq(Atoms) /\ "/" \in Atoms
        BY <2>4 DEF IsText, Atoms
    <2>6. Rooted(j) \in Seq(Atoms)
        BY <2>3, <2>5 DEF Rooted
    <2> HIDE DEF base, basePath, v, path, version, j, own
    <2>7. Ends(base) # {} => PathOf(prepared.url) = PathOf(base)
        BY <2>2, <2>5, <2>6, PathOfSwallowed
    <2>8. ASSUME Plain(base), Plain(basePath), Plain(path)
          PROVE  PathOf(prepared.url) = Joined(Spelled(Joined(OwnWords(base), own)), end)
        <3>1. Alternates(base) /\ Ends(base) = {}
            BY <2>4, <2>8, PlainAlternates
        <3>2. base # << >> => base[1] = "/"
            BY <2>1, <2>8, TextsAre
        <3>3. /\ TrimmedEnd(base) \in Seq(Atoms) /\ OwnWords(TrimmedEnd(base)) = OwnWords(base)
              /\ Chain(TrimmedEnd(base)) /\ Ends(TrimmedEnd(base)) = {}
            BY <2>5, <3>1, <3>2, TrimmedEndIs
        <3> QED BY <2>2, <2>3, <2>5, <2>8, <3>3, PathOfJoined
    <2>9. /\ LastValue(calls, "base_path", <<"/", "api">>) = basePath
          /\ LastValue(calls, "api_version", 1) = v
        BY LookupsAgree DEF basePath, v
    <2>10. own = IF request.versioned
                 THEN OwnWords(basePath) \o <<AsPathSegment(v)>> \o OwnWords(path)
                 ELSE OwnWords(path)
        BY DEF own, version, PartWords, Joined
    <2> QED BY <2>7, <2>8, <2>9, <2>10 DEF RequestReachesItsPath, Joined, base, path
<1> QED BY <1>1, <1>2, <1>3, RequestAlways, PTL DEF Spec
=============================================================================
