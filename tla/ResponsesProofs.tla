---------------------------- MODULE ResponsesProofs ----------------------------
(***************************************************************************)
(* What a caller is told of an attempt, for any reply, body and headers:   *)
(* the status and the metadata of a refusal are never lost, the loop and   *)
(* the caller take it alike, and a body is never cut inside a character.   *)
(***************************************************************************)
EXTENDS Responses, RetryPolicyProofs, SequenceTheorems

-----------------------------------------------------------------------------
(* Headers.                                                                *)

LEMMA HeaderReads ==
    ASSUME NEW text, text = None \/ IsText(text)
    PROVE  /\ ParseRetryAfter(text) = ReadAlone(text)
           /\ ParseU64Header(text) = ReadAlone(text)
           /\ text # None => ParseRetryAfterValue(text) = ParseRetryAfter(text)
           /\ ReadAlone(text) \in Option(Nat)
<1>1. CASE text = None
    BY <1>1 DEF ParseRetryAfter, ParseU64Header, ReadAlone, Option
<1>2. CASE text # None
    <2>1. /\ text.number \in Option(Nat) /\ text.pad \in {"none", "space", "no-break space"}
          /\ text.seen \in BOOLEAN
          /\ text.number # None => (text.seen <=> text.pad # "no-break space")
        BY <1>2 DEF IsText
    <2>2. text.number = None =>
              /\ ParseU64(text, {"none", "space"}) = None
              /\ ParseU64(text, {"none", "space", "no-break space"}) = None
        BY DEF ParseU64
    <2>3. text.number # None =>
              /\ ParseU64(text, {"none", "space"}) =
                    IF text.seen /\ text.number <= MaxInt THEN text.number ELSE None
              /\ ParseU64(text, {"none", "space", "no-break space"}) =
                    IF text.number <= MaxInt THEN text.number ELSE None
        BY <2>1 DEF ParseU64
    <2> QED BY <1>2, <2>1, <2>2, <2>3
            DEF ParseRetryAfter, ParseRetryAfterValue, ParseU64Header, ReadAlone, Option
<1> QED BY <1>1, <1>2

LEMMA RateLimitReads ==
    ASSUME NEW r \in Replies
    PROVE  LET info == ParseRateLimit(r)
           IN  IF info = None
               THEN \A h \in {r.limit, r.remaining, r.reset} : ReadAlone(h) = None
               ELSE /\ info.limit = ReadAlone(r.limit)
                    /\ info.remaining = ReadAlone(r.remaining)
                    /\ info.reset = ReadAlone(r.reset)
<1> DEFINE info == [limit |-> ParseU64Header(r.limit), remaining |-> ParseU64Header(r.remaining),
                    reset |-> ParseU64Header(r.reset)]
<1>1. /\ ParseU64Header(r.limit) = ReadAlone(r.limit)
      /\ ParseU64Header(r.remaining) = ReadAlone(r.remaining)
      /\ ParseU64Header(r.reset) = ReadAlone(r.reset)
      /\ {ReadAlone(r.limit), ReadAlone(r.remaining), ReadAlone(r.reset)} \subseteq Option(Nat)
    BY RepliesAssumption, HeaderReads
<1>2. info # None
    BY <1>1, LimitAssumption
<1>3. /\ info.limit = ReadAlone(r.limit) /\ info.remaining = ReadAlone(r.remaining)
      /\ info.reset = ReadAlone(r.reset)
    BY <1>1
<1>4. IsPresent(info) <=> info.limit # None \/ info.remaining # None \/ info.reset # None
    BY DEF IsPresent
<1>5. ParseRateLimit(r) = IF IsPresent(info) THEN info ELSE None
    BY DEF ParseRateLimit
<1> HIDE DEF info
<1> QED BY <1>2, <1>3, <1>4, <1>5

-----------------------------------------------------------------------------
(* Where a text is cut.                                                    *)

BackFrom(back, bytes, m) ==
    back = [end \in 0 .. m |-> IF IsCharBoundary(bytes, end) THEN end ELSE back[end - 1]]

LEMMA BackExists ==
    ASSUME NEW bytes
    PROVE  \A m \in Nat : \E back : BackFrom(back, bytes, m)
<1> DEFINE T == {m \in Nat : \E back : BackFrom(back, bytes, m)}
<1>0. IsCharBoundary(bytes, 0)
    BY DEF IsCharBoundary
<1>1. 0 \in T
    <2> DEFINE start == [end \in 0 .. 0 |-> 0]
    <2>1. start = [end \in 0 .. 0 |-> IF IsCharBoundary(bytes, end) THEN end
                                      ELSE start[end - 1]]
        BY <1>0
    <2>2. BackFrom(start, bytes, 0)
        BY <2>1, Zenon DEF BackFrom
    <2> QED BY <2>2
<1>2. ASSUME NEW m \in Nat, m \in T PROVE m + 1 \in T
    <2>1. PICK back : BackFrom(back, bytes, m)
        BY <1>2
    <2> DEFINE longer == [end \in 0 .. m + 1 |->
                             IF end # m + 1 THEN back[end]
                             ELSE IF IsCharBoundary(bytes, end) THEN end ELSE back[end - 1]]
               step(end) == IF IsCharBoundary(bytes, end) THEN end ELSE longer[end - 1]
    <2>2. ASSUME NEW end \in 0 .. m + 1 PROVE longer[end] = step(end)
        <3>1. CASE end = m + 1
            <4>1. end - 1 \in 0 .. m + 1 /\ end - 1 # m + 1
                BY <3>1
            <4> QED BY <3>1, <4>1
        <3>2. CASE end \in 0 .. m
            <4>1. longer[end] = back[end] /\ (end # 0 => longer[end - 1] = back[end - 1])
                BY <3>2
            <4>2. back[end] = IF IsCharBoundary(bytes, end) THEN end ELSE back[end - 1]
                BY <2>1, <3>2 DEF BackFrom
            <4> HIDE DEF longer
            <4> QED BY <1>0, <4>1, <4>2
        <3> QED BY <3>1, <3>2
    <2>3. longer = [end \in 0 .. m + 1 |-> step(end)]
        BY <2>2
    <2>4. BackFrom(longer, bytes, m + 1)
        BY <2>3, Zenon DEF BackFrom
    <2> HIDE DEF longer
    <2> QED BY <2>4
<1> HIDE DEF T
<1>3. \A m \in Nat : m \in T
    BY <1>1, <1>2, SetInduction
<1> QED BY <1>3 DEF T

\* The loop ends, at a boundary, and has passed none.
LEMMA LoopEndsAtBoundary ==
    ASSUME NEW bytes
    PROVE  /\ BackToBoundary(bytes) \in 0 .. SnippetLen
           /\ IsCharBoundary(bytes, BackToBoundary(bytes))
           /\ \A n \in BackToBoundary(bytes) + 1 .. SnippetLen : ~IsCharBoundary(bytes, n)
<1> DEFINE back == CHOOSE b : BackFrom(b, bytes, SnippetLen)
           Ends(n) == /\ back[n] \in 0 .. n
                      /\ IsCharBoundary(bytes, back[n])
                      /\ \A k \in back[n] + 1 .. n : ~IsCharBoundary(bytes, k)
           T == {n \in Nat : n <= SnippetLen => Ends(n)}
<1>0. SnippetLen \in Nat
    BY SnippetAssumption
<1>1. BackToBoundary(bytes) = back[SnippetLen]
    BY DEF BackToBoundary, BackFrom
<1>2. BackFrom(back, bytes, SnippetLen)
    BY <1>0, BackExists
<1> HIDE DEF back
<1>3. \A end \in 0 .. SnippetLen :
          back[end] = IF IsCharBoundary(bytes, end) THEN end ELSE back[end - 1]
    BY <1>2 DEF BackFrom
<1>4. 0 \in T
    <2>1. IsCharBoundary(bytes, 0)
        BY DEF IsCharBoundary
    <2>2. back[0] = 0
        BY <1>0, <1>3, <2>1
    <2> QED BY <2>1, <2>2
<1>5. ASSUME NEW n \in Nat, n \in T PROVE n + 1 \in T
    <2> SUFFICES ASSUME n + 1 <= SnippetLen PROVE Ends(n + 1)
        OBVIOUS
    <2>1. n + 1 \in 0 .. SnippetLen /\ (n + 1) - 1 = n /\ n <= SnippetLen
        BY <1>0
    <2>2. Ends(n)
        BY <1>5, <2>1
    <2>3. CASE IsCharBoundary(bytes, n + 1)
        <3>1. back[n + 1] = n + 1
            BY <1>3, <2>1, <2>3
        <3> QED BY <2>3, <3>1
    <2>4. CASE ~IsCharBoundary(bytes, n + 1)
        <3>1. back[n + 1] = back[n]
            BY <1>3, <2>1, <2>4
        <3>2. \A k \in back[n] + 1 .. n + 1 : k = n + 1 \/ k \in back[n] + 1 .. n
            BY <2>2
        <3> QED BY <2>2, <2>4, <3>1, <3>2
    <2> QED BY <2>3, <2>4
<1> HIDE DEF T
<1>6. \A n \in Nat : n \in T
    BY <1>4, <1>5, SetInduction
<1> QED BY <1>0, <1>1, <1>6 DEF T

\* What is kept of a text longer than a snippet.
LEMMA CutsBetweenCharacters ==
    ASSUME NEW bytes, IsUtf8(bytes), Len(bytes) > SnippetLen
    PROVE  LET end == BackToBoundary(bytes)
           IN  /\ end \in 0 .. SnippetLen /\ end < Len(bytes)
               /\ bytes[end + 1] = "first"
               /\ \A n \in end + 1 .. SnippetLen : bytes[n + 1] = "rest"
               /\ SnippetLen - end < 4
<1> DEFINE end  == BackToBoundary(bytes)
           size == Len(bytes)
<1>1. /\ size \in Nat /\ SnippetLen \in Nat
      /\ \A n \in 1 .. size : bytes[n] \in {"first", "rest"}
      /\ size # 0 => bytes[1] = "first"
      /\ \A n \in 1 .. size - 3 : \E k \in n .. n + 3 : bytes[k] = "first"
    <2>1. bytes \in Seq({"first", "rest"})
        BY DEF IsUtf8
    <2>2. size \in Nat /\ (size # 0 => bytes # << >>)
        BY <2>1, LenProperties, EmptySeq
    <2> QED BY <2>1, <2>2, ElementOfSeq, SnippetAssumption DEF IsUtf8
<1>2. /\ end \in 0 .. SnippetLen
      /\ IsCharBoundary(bytes, end)
      /\ \A n \in end + 1 .. SnippetLen : ~IsCharBoundary(bytes, n)
    BY LoopEndsAtBoundary
<1>3. size > SnippetLen
    OBVIOUS
<1> HIDE DEF end
<1>4. end < size /\ bytes[end + 1] = "first"
    BY <1>1, <1>2, <1>3 DEF IsCharBoundary
<1>5. ASSUME NEW n \in end + 1 .. SnippetLen PROVE bytes[n + 1] = "rest"
    <2>1. n \in Nat /\ n < size /\ n + 1 \in 1 .. size
        BY <1>1, <1>2, <1>3
    <2>2. bytes[n + 1] # "first"
        BY <1>2, <2>1 DEF IsCharBoundary
    <2>3. bytes[n + 1] \in {"first", "rest"}
        BY <1>1, <2>1
    <2> QED BY <2>2, <2>3
<1>6. ASSUME SnippetLen - end >= 4 PROVE FALSE
    <2>1. end + 2 \in 1 .. size - 3
        BY <1>1, <1>2, <1>3, <1>6
    <2>2. PICK k \in end + 2 .. (end + 2) + 3 : bytes[k] = "first"
        BY <1>1, <2>1
    <2>3. k - 1 \in end + 1 .. SnippetLen /\ (k - 1) + 1 = k
        BY <1>1, <1>2, <1>6, <2>2
    <2>4. bytes[k] = "rest"
        BY <1>5, <2>3
    <2> QED BY <2>2, <2>4
<1>7. SnippetLen - end < 4
    BY <1>1, <1>2, <1>6
<1> QED BY <1>2, <1>4, <1>5, <1>7 DEF end

\* The snippet of a body (snippet, error.rs): no panic, and whole characters.
LEMMA SnippetFits ==
    ASSUME NEW bytes, IsUtf8(bytes)
    PROVE  LET snippet == Snippet(bytes)
               kept    == Len(snippet.text)
           IN  /\ snippet # None
               /\ kept <= SnippetLen /\ kept <= Len(bytes)
               /\ snippet.text = SubSeq(bytes, 1, kept)
               /\ snippet.cut <=> kept < Len(bytes)
               /\ snippet.cut =>
                     /\ bytes[kept + 1] = "first"
                     /\ \A n \in kept + 1 .. SnippetLen : bytes[n + 1] = "rest"
                     /\ SnippetLen - kept < 4
<1> DEFINE snippet == Snippet(bytes)
           end     == BackToBoundary(bytes)
<1>1. bytes \in Seq({"first", "rest"}) /\ Len(bytes) \in Nat /\ SnippetLen \in Nat
    BY LenProperties, SnippetAssumption DEF IsUtf8
<1>2. CASE Len(bytes) <= SnippetLen
    <2>1. snippet = [text |-> bytes, cut |-> FALSE]
        BY <1>2 DEF Snippet
    <2>2. bytes = SubSeq(bytes, 1, Len(bytes))
        BY <1>1
    <2>3. snippet \in [text : Seq({"first", "rest"}), cut : BOOLEAN]
        BY <1>1, <2>1
    <2>4. snippet # None
        BY <2>3, SnippetAssumption
    <2> HIDE DEF snippet
    <2> QED BY <1>1, <1>2, <2>1, <2>2, <2>4 DEF snippet
<1>3. CASE Len(bytes) > SnippetLen
    <2>1. /\ end \in 0 .. SnippetLen /\ end < Len(bytes)
          /\ bytes[end + 1] = "first"
          /\ \A n \in end + 1 .. SnippetLen : bytes[n + 1] = "rest"
          /\ SnippetLen - end < 4
        BY <1>3, CutsBetweenCharacters
    <2>2. IsCharBoundary(bytes, end)
        BY LoopEndsAtBoundary
    <2> DEFINE text == SubSeq(bytes, 1, end)
    <2>3. snippet = [text |-> text, cut |-> TRUE]
        BY <1>1, <1>3, <2>2 DEF Snippet
    <2> HIDE DEF end
    <2>4. text \in Seq({"first", "rest"}) /\ Len(text) = end
        BY <1>1, <2>1, SubSeqProperties
    <2> HIDE DEF snippet
    <2>5. snippet # None
        <3> HIDE DEF text
        <3>1. snippet \in [text : Seq({"first", "rest"}), cut : BOOLEAN]
            BY <2>3, <2>4
        <3> QED BY <3>1, SnippetAssumption
    <2>6. snippet.text = text /\ snippet.cut = TRUE
        BY <2>3
    <2>7. snippet.text = SubSeq(bytes, 1, Len(snippet.text)) /\ Len(snippet.text) = end
        BY <2>4, <2>6
    <2> HIDE DEF text
    <2> QED BY <1>1, <2>1, <2>5, <2>6, <2>7 DEF snippet
<1> QED BY <1>1, <1>2, <1>3

-----------------------------------------------------------------------------
(* The inductive invariant: what the attempt came to is what its reply, or *)
(* that there was none, makes of it.                                       *)

\* The caller's view of r is settled: it is refused, or not.
Refused == reply # None /\ ~IsSuccess(reply.status) /\ ~Accepted(reply.status)

Unanswered ==
    \E connect, timeout \in BOOLEAN :
        result = Transport(connect, timeout) /\ outcome = OfTransport(connect, timeout)

Turned ==
    /\ result = BuildApiError(reply, IF failed THEN EmptyBody ELSE reply.body)
    /\ outcome = OfStatus(reply.status, ParseRetryAfter(reply.retry_after), FALSE, call.retry_on)

Answered ==
    /\ outcome # None => Accepted(reply.status)
    /\ result.kind \in {"Ok", "Transport", "Value", "Decode"}
    /\ result.kind = "Decode" => result.snippet = Snippet(reply.body.bytes)

ResponseOK ==
    /\ reply # None => reply \in Replies
    /\ result # None \/ returned =>
          /\ reply = None => Unanswered
          /\ Refused => Turned
          /\ reply # None /\ ~Refused => Answered

\* The fields of the error made of a refusal.
LEMMA ApiErrorFields ==
    ASSUME NEW r, NEW text
    PROVE  /\ BuildApiError(r, text).kind = "Api"
           /\ BuildApiError(r, text).status = r.status
           /\ BuildApiError(r, text).retry_after = ParseRetryAfter(r.retry_after)
           /\ BuildApiError(r, text).rate_limit = ParseRateLimit(r)
    BY DEF BuildApiError

LEMMA ResponseInductive == Spec => []ResponseOK
<1> USE DEF ResponseOK
<1>1. ASSUME Init PROVE ResponseOK
    BY <1>1 DEF Init
<1>2. ASSUME ResponseOK, [Next]_vars PROVE ResponseOK'
    <2> USE <1>2
    <2>1. CASE Respond
        <3>1. PICK r \in Replies :
                  /\ IsSuccess(r.status) \/ Accepted(r.status)
                  /\ reply'   = r
                  /\ outcome' = IF IsSuccess(r.status) THEN None
                                ELSE OfStatus(r.status, ParseRetryAfter(r.retry_after), TRUE,
                                              call.retry_on)
            BY <2>1 DEF Respond
        <3>2. call' = call /\ result' = [kind |-> "Ok"] /\ r # None
            BY <2>1, RepliesAssumption DEF Respond
        <3>3. ~Refused' /\ Answered'
            BY <3>1, <3>2 DEF Refused, Answered, Accepted
        <3> QED BY <3>1, <3>2, <3>3
    <2>2. CASE Refuse
        <3>1. PICK r \in Replies :
                  /\ ~IsSuccess(r.status) /\ ~Accepted(r.status)
                  /\ reply'   = r
                  /\ outcome' = OfStatus(r.status, ParseRetryAfter(r.retry_after), FALSE,
                                         call.retry_on)
                  /\ \/ result' = BuildApiError(r, r.body) /\ failed' = FALSE
                     \/ result' = BuildApiError(r, EmptyBody) /\ failed' = TRUE
            BY <2>2 DEF Refuse
        <3>2. call' = call /\ r # None
            BY <2>2, RepliesAssumption DEF Refuse
        <3>3. Refused' /\ Turned'
            BY <3>1, <3>2 DEF Refused, Turned, Accepted
        <3> QED BY <3>1, <3>2, <3>3
    <2>3. CASE Break
        <3>1. reply' = None /\ Unanswered'
            BY <2>3 DEF Break, Unanswered
        <3> QED BY <3>1 DEF Refused
    <2>4. CASE Return
        BY <2>4 DEF Return, Refused, Unanswered, Turned, Answered, Accepted
    <2>5. CASE Decode
        <3>1. /\ result # None /\ result.kind = "Ok"
              /\ UNCHANGED <<call, reply, outcome>>
            BY <2>5 DEF Decode
        <3>2. reply # None /\ ~Refused /\ Answered
            <4>1. reply # None
                BY <3>1 DEF Unanswered, Transport
            <4>2. ~Refused
                BY <3>1, ApiErrorFields DEF Turned
            <4> QED BY <3>1, <4>1, <4>2
        <3>3. /\ result'.kind \in {"Transport", "Value", "Decode"}
              /\ result'.kind = "Decode" => result'.snippet = Snippet(reply.body.bytes)
            <4>1. Snippet(reply.body.bytes) # None
                BY <1>2, <3>2, RepliesAssumption, SnippetFits
            <4>2. /\ Undecoded(reply).kind = "Decode"
                  /\ Undecoded(reply).snippet = Snippet(reply.body.bytes)
                BY <4>1 DEF Undecoded
            <4> QED BY <2>5, <4>2 DEF Decode, Transport
        <3>4. Answered' /\ ~Refused'
            BY <3>1, <3>2, <3>3 DEF Answered, Refused, Accepted
        <3> QED BY <3>1, <3>2, <3>4
    <2>6. CASE UNCHANGED vars
        BY <2>6 DEF vars, Refused, Unanswered, Turned, Answered, Accepted
    <2> QED BY <2>1, <2>2, <2>3, <2>4, <2>5, <2>6 DEF Next
<1> QED BY <1>1, <1>2, PTL DEF Spec

-----------------------------------------------------------------------------
(* The theorems.                                                           *)

\* A status that is neither a success nor accepted becomes an Api error of
\* that status, with what its headers hold and the text that was read, and
\* nothing else becomes one (into_api_error, request.rs 634-668).
THEOREM StatusIsKept == Spec => []StatusIsNeverLost
<1>1. ASSUME ResponseOK PROVE StatusIsNeverLost
    <2> SUFFICES ASSUME returned PROVE StatusIsNeverLost
        BY DEF StatusIsNeverLost
    <2> USE <1>1
    <2> DEFINE text == IF failed THEN EmptyBody ELSE reply.body
    <2>1. result.kind = "Api" <=> Refused
        <3>1. Refused => result.kind = "Api"
            BY DEF ResponseOK, Turned, BuildApiError
        <3>2. reply = None => result.kind = "Transport"
            BY DEF ResponseOK, Unanswered, Transport
        <3>3. reply # None /\ ~Refused => result.kind # "Api"
            BY DEF ResponseOK, Answered
        <3> QED BY <3>1, <3>2, <3>3
    <2>2. ASSUME Refused
          PROVE  /\ result.status = reply.status
                 /\ result.retry_after = ReadAlone(reply.retry_after)
                 /\ result.rate_limit = ParseRateLimit(reply)
                 /\ (text.json = None \/ text.json.type # "ErrorResponse") =>
                       result.body = FromRaw(reply.status, text.bytes)
        <3>1. reply \in Replies /\ result = BuildApiError(reply, text)
            BY <2>2 DEF ResponseOK, Turned, Refused
        <3>2. ParseRetryAfter(reply.retry_after) = ReadAlone(reply.retry_after)
            BY <3>1, RepliesAssumption, HeaderReads
        <3> HIDE DEF text
        <3> QED BY <3>1, <3>2 DEF BuildApiError
    <2>3. ASSUME Refused
          PROVE  IF result.rate_limit = None
                 THEN \A h \in {reply.limit, reply.remaining, reply.reset} : ReadAlone(h) = None
                 ELSE /\ result.rate_limit.limit = ReadAlone(reply.limit)
                      /\ result.rate_limit.remaining = ReadAlone(reply.remaining)
                      /\ result.rate_limit.reset = ReadAlone(reply.reset)
        <3>1. reply \in Replies
            BY <2>3 DEF ResponseOK, Refused
        <3> QED BY <2>2, <2>3, <3>1, RateLimitReads
    <2> HIDE DEF text
    <2> QED BY <2>1, <2>2, <2>3, Zenon DEF StatusIsNeverLost, Refused, text
<1> QED BY <1>1, ResponseInductive, PTL

\* ClientError::is_retriable says of an error what the loop made of it
\* (error.rs 300-340, failover.rs Outcome).
THEOREM CallerAgrees == Spec => []CallerAndLoopAgree
<1>1. ASSUME ResponseOK PROVE CallerAndLoopAgree
    <2> SUFFICES ASSUME result # None, outcome # None, result.kind \in {"Api", "Transport"}
                 PROVE  /\ (/\ ~(reply # None /\ reply.status \in call.retry_on)
                            /\ reply = None \/ ~Accepted(reply.status)) =>
                              (IsRetriable(result) <=> outcome.kind # "Final")
                        /\ result.kind = "Api" =>
                              (outcome.kind # "Final" <=>
                                  WantsRetry(result.status, result.retry_after, FALSE,
                                             call.retry_on))
        BY DEF CallerAndLoopAgree
    <2> USE <1>1
    <2>1. CASE reply = None
        <3>1. PICK connect \in BOOLEAN, timeout \in BOOLEAN :
                  result = Transport(connect, timeout) /\ outcome = OfTransport(connect, timeout)
            BY <2>1 DEF ResponseOK, Unanswered
        <3> QED BY <2>1, <3>1
                DEF Transport, OfTransport, IsRetriable, Rotation, Final
    <2>2. CASE Refused
        <3>1. /\ result.kind = "Api" /\ result.status = reply.status
              /\ result.retry_after = ParseRetryAfter(reply.retry_after)
              /\ outcome = OfStatus(result.status, result.retry_after, FALSE, call.retry_on)
            BY <2>2, ApiErrorFields DEF ResponseOK, Turned
        <3>2. outcome.kind # "Final" <=>
                  WantsRetry(result.status, result.retry_after, FALSE, call.retry_on)
            BY <3>1 DEF OfStatus, WantsRetry, Rotation, InPlace, Final
        <3>3. IsRetriable(result) <=> StatusIsRetriable(result.status, result.retry_after)
            BY <3>1 DEF IsRetriable, ApiIsRetriable
        <3>4. WantsRetry(result.status, result.retry_after, FALSE, call.retry_on) <=>
                  \/ result.status \in call.retry_on
                  \/ StatusIsRetriable(result.status, result.retry_after)
            BY DEF WantsRetry
        <3> QED BY <2>2, <3>1, <3>2, <3>3, <3>4 DEF Refused
    <2>3. CASE reply # None /\ ~Refused
        BY <2>3 DEF ResponseOK, Answered
    <2> QED BY <2>1, <2>2, <2>3
<1> QED BY <1>1, ResponseInductive, PTL

\* Cutting a body is no panic, and a snippet is a beginning of it that ends
\* with a whole character, as long as fits, and says when something is missing
\* (snippet, error.rs 385-399).
THEOREM SnippetsKeepCharacters == Spec => []SnippetKeepsWholeCharacters
<1>1. ASSUME ResponseOK PROVE SnippetKeepsWholeCharacters
    <2> USE <1>1
    <2>1. result # None => result.kind # "Panic"
        <3>1. result # None /\ reply = None => result.kind = "Transport"
            BY DEF ResponseOK, Unanswered, Transport
        <3>2. result # None /\ Refused => result.kind = "Api"
            BY ApiErrorFields DEF ResponseOK, Turned
        <3>3. result # None /\ reply # None /\ ~Refused =>
                  result.kind \in {"Ok", "Transport", "Value", "Decode"}
            BY DEF ResponseOK, Answered
        <3> QED BY <3>1, <3>2, <3>3
    <2>2. ASSUME result # None, result.kind = "Decode"
          PROVE  IsUtf8(reply.body.bytes) /\ result.snippet = Snippet(reply.body.bytes)
        <3>1. reply # None
            BY <2>2 DEF ResponseOK, Unanswered, Transport
        <3>2. ~Refused
            BY <2>2, ApiErrorFields DEF ResponseOK, Turned
        <3>3. result.snippet = Snippet(reply.body.bytes) /\ reply \in Replies
            BY <2>2, <3>1, <3>2 DEF ResponseOK, Answered
        <3> QED BY <3>3, RepliesAssumption
    <2> QED BY <2>1, <2>2, SnippetFits DEF SnippetKeepsWholeCharacters
<1> QED BY <1>1, ResponseInductive, PTL

\* The exported parser reads a Retry-After as the client does
\* (parse_retry_after_value and parse_retry_after, retry.rs).
THEOREM RetryAfterIsReadAlike == Spec => []RetryAfterReadAlike
<1>1. ASSUME ResponseOK PROVE RetryAfterReadAlike
    BY <1>1, RepliesAssumption, HeaderReads DEF ResponseOK, RetryAfterReadAlike
<1> QED BY <1>1, ResponseInductive, PTL
================================================================================
