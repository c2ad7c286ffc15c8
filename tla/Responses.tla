------------------------------- MODULE Responses --------------------------------
(***************************************************************************)
(* What a caller is told of one attempt: the error made of a response that *)
(* is not a success, the headers read from it, and the decoding of one     *)
(* that is (src/error.rs, src/request.rs 549-574 and 634-668, the calls of *)
(* src/client.rs 183-250).                                                 *)
(*                                                                         *)
(* A header is [number, pad, seen]: the number it spells or None, what     *)
(* stands around it, and whether all of it is visible ASCII, spaces and    *)
(* tabs.  A body is [bytes, json]: of each byte of its text whether it is  *)
(* the first of a character or one of the rest, and what its JSON is of,   *)
(* None when it is not of a type known here.                               *)
(***************************************************************************)
EXTENDS Failover

CONSTANTS
    OtherCalls,     \* calls made by request and send, [accept, retry_on, finish, type]
    Replies,        \* the responses, [status, body, retry_after, limit, remaining, reset]
    SnippetLen      \* SNIPPET_LEN

\* A number and its padding are visible when the padding is.
IsText(text) ==
    /\ text \in [number : Option(Nat), pad : {"none", "space", "no-break space"}, seen : BOOLEAN]
    /\ text.number # None => (text.seen <=> text.pad # "no-break space")

\* The bytes of a String, UTF-8: a character has one to four.
IsUtf8(bytes) ==
    /\ bytes \in Seq({"first", "rest"})
    /\ bytes # << >> => bytes[1] = "first"
    /\ \A n \in 1 .. Len(bytes) - 3 : \E k \in n .. n + 3 : bytes[k] = "first"

ASSUME RepliesAssumption ==
    \A r \in Replies :
        /\ r # None
        /\ \A header \in {r.retry_after, r.limit, r.remaining, r.reset} :
              header = None \/ IsText(header)
        /\ IsUtf8(r.body.bytes)

\* A snippet is not an absent one.
ASSUME SnippetAssumption ==
    /\ SnippetLen \in Nat
    /\ None \notin [text : Seq({"first", "rest"}), cut : BOOLEAN]

\* Rate limits are not absent ones.
ASSUME LimitAssumption ==
    None \notin [limit : Option(Nat), remaining : Option(Nat), reset : Option(Nat)]

\* get, post, put and patch of ServiceClient, then health, ready and delete.
Decoding(type) == [accept |-> {}, retry_on |-> {}, finish |-> "send_json", type |-> type]

Get    == Decoding("T")
Health == Decoding("HealthResponse")
Ready  == [Decoding("ReadinessResponse") EXCEPT !.accept = {"503"}]
Delete == [Decoding(None) EXCEPT !.finish = "send_no_content"]

EmptyBody == [bytes |-> << >>, json |-> None]

VARIABLES
    call,       \* the call made
    reply,      \* what came back, None before
    result,     \* what the attempt came to, then the call; None before
    returned,   \* the call is over
    outcome,    \* what the attempt asks of the send loop
    failed      \* history: a body could not be read

vars == <<call, reply, result, returned, outcome, failed>>

-----------------------------------------------------------------------------
(* Headers.                                                                *)

\* str::parse::<u64>, of a text with its padding gone or not.
ParseU64(text, pads) ==
    IF text.pad \in pads /\ text.number # None /\ text.number <= MaxInt THEN text.number
    ELSE None

\* Mutant: every white space is trimmed.
ParseRetryAfterValueTrimming(text) == ParseU64(text, {"none", "space", "no-break space"})

\* retry::parse_retry_after_value, of any text: spaces and tabs are trimmed.
ParseRetryAfterValue(text) == ParseU64(text, {"none", "space"})

\* A header's value as HeaderValue::to_str gives it.
ParseRetryAfter(text) == IF text = None \/ ~text.seen THEN None ELSE ParseRetryAfterValue(text)

ParseU64Header(text) ==
    IF text = None \/ ~text.seen THEN None
    ELSE ParseU64(text, {"none", "space", "no-break space"})

IsPresent(info) == \E field \in DOMAIN info : info[field] # None

\* Mutant: a limit without a rest does not count.
ParseRateLimitWhole(r) ==
    LET info == [limit |-> ParseU64Header(r.limit), remaining |-> ParseU64Header(r.remaining),
                 reset |-> ParseU64Header(r.reset)]
    IN  IF \A field \in DOMAIN info : info[field] # None THEN info ELSE None

ParseRateLimit(r) ==
    LET info == [limit |-> ParseU64Header(r.limit), remaining |-> ParseU64Header(r.remaining),
                 reset |-> ParseU64Header(r.reset)]
    IN  IF IsPresent(info) THEN info ELSE None

-----------------------------------------------------------------------------
(* Bodies and errors.                                                      *)

\* ErrorResponse::from_raw.
FromRaw(status, text) == [error |-> text, code |-> None, status |-> status]

\* str::is_char_boundary.
IsCharBoundary(bytes, end) ==
    \/ end \in {0, Len(bytes)}
    \/ end < Len(bytes) /\ bytes[end + 1] = "first"

\* Mutant: the cut is where the limit is.
BackToBoundaryNot(bytes) == SnippetLen

\* The loop of snippet: byte by byte back from SNIPPET_LEN.
BackToBoundary(bytes) ==
    LET back[end \in 0 .. SnippetLen] ==
            IF IsCharBoundary(bytes, end) THEN end ELSE back[end - 1]
    IN  back[SnippetLen]

\* snippet: what is kept of a body, and whether an ellipsis is put after it;
\* None is the panic of a slice that ends inside a character.
Snippet(bytes) ==
    LET end == BackToBoundary(bytes)
    IN  IF Len(bytes) <= SnippetLen THEN [text |-> bytes, cut |-> FALSE]
        ELSE IF IsCharBoundary(bytes, end)
        THEN [text |-> SubSeq(bytes, 1, end), cut |-> TRUE]
        ELSE None

\* The error made of a success that does not decode.
Undecoded(r) ==
    IF Snippet(r.body.bytes) = None THEN [kind |-> "Panic"]
    ELSE [kind |-> "Decode", status |-> r.status, snippet |-> Snippet(r.body.bytes)]

\* build_api_error: the body as ErrorResponse JSON, used verbatim, or raw.
BuildApiError(r, text) ==
    [kind        |-> "Api",
     status      |-> r.status,
     body        |-> IF text.json # None /\ text.json.type = "ErrorResponse"
                     THEN [error |-> "message", code |-> text.json.code,
                           status |-> text.json.status]
                     ELSE FromRaw(r.status, text.bytes),
     rate_limit  |-> ParseRateLimit(r),
     retry_after |-> ParseRetryAfter(r.retry_after)]

Transport(connect, timeout) == [kind |-> "Transport", connect |-> connect, timeout |-> timeout]

\* Mutant: a failed connection is left to the caller.
IsRetriableTimeoutsOnly(error) ==
    IF error.kind = "Api" THEN StatusIsRetriable(error.status, error.retry_after)
    ELSE error.kind = "Transport" /\ error.timeout

\* ApiError::is_retriable.
ApiIsRetriable(error) == StatusIsRetriable(error.status, error.retry_after)

\* ClientError::is_retriable.
IsRetriable(error) ==
    IF error.kind = "Api" THEN ApiIsRetriable(error)
    ELSE error.kind = "Transport" /\ (error.timeout \/ error.connect)

-----------------------------------------------------------------------------
(* The attempt.                                                            *)

IsSuccess(status) == status \in {"200", "204"}

Accepted(status) == status \in call.accept

Init ==
    /\ call \in {Get, Health, Ready, Delete} \cup OtherCalls
    /\ reply    = None
    /\ result   = None
    /\ returned = FALSE
    /\ outcome  = None
    /\ failed   = FALSE

\* A response that is returned unread: a success or an accepted status.
Respond ==
    /\ reply = None
    /\ result = None
    /\ \E r \in Replies :
          /\ IsSuccess(r.status) \/ Accepted(r.status)
          /\ reply'   = r
          /\ outcome' = IF IsSuccess(r.status) THEN None
                        ELSE OfStatus(r.status, ParseRetryAfter(r.retry_after), TRUE,
                                      call.retry_on)
    /\ result' = [kind |-> "Ok"]
    /\ UNCHANGED <<call, returned, failed>>

\* Mutant: a body that cannot be read is what failed.
RefuseForItsBody ==
    /\ reply = None
    /\ result = None
    /\ \E r \in Replies :
          /\ ~IsSuccess(r.status) /\ ~Accepted(r.status)
          /\ reply'   = r
          /\ outcome' = OfStatus(r.status, ParseRetryAfter(r.retry_after), FALSE, call.retry_on)
          /\ \/ result' = BuildApiError(r, r.body) /\ failed' = FALSE
             \/ result' = Transport(FALSE, FALSE) /\ failed' = TRUE
    /\ UNCHANGED <<call, returned>>

\* Any other status: the body is read, or what can be read of it is empty.
Refuse ==
    /\ reply = None
    /\ result = None
    /\ \E r \in Replies :
          /\ ~IsSuccess(r.status) /\ ~Accepted(r.status)
          /\ reply'   = r
          /\ outcome' = OfStatus(r.status, ParseRetryAfter(r.retry_after), FALSE, call.retry_on)
          /\ \/ result' = BuildApiError(r, r.body) /\ failed' = FALSE
             \/ result' = BuildApiError(r, EmptyBody) /\ failed' = TRUE
    /\ UNCHANGED <<call, returned>>

\* No response.
Break ==
    /\ reply = None
    /\ result = None
    /\ \E connect, timeout \in BOOLEAN :
          /\ result'  = Transport(connect, timeout)
          /\ outcome' = OfTransport(connect, timeout)
    /\ UNCHANGED <<call, reply, returned, failed>>

\* send returns the response or the error; send_no_content discards one.
Return ==
    /\ result # None
    /\ ~returned
    /\ result.kind # "Ok" \/ call.finish # "send_json"
    /\ returned' = TRUE
    /\ UNCHANGED <<call, reply, result, outcome, failed>>

\* send_json reads the body of the response and decodes it.
Decode ==
    /\ result # None
    /\ ~returned
    /\ result.kind = "Ok"
    /\ call.finish = "send_json"
    /\ \/ /\ \E timeout \in BOOLEAN : result' = Transport(FALSE, timeout)
          /\ failed' = TRUE
       \/ /\ result' = IF reply.body.json # None /\ reply.body.json.type = call.type
                       THEN [kind |-> "Value", type |-> call.type]
                       ELSE Undecoded(reply)
          /\ UNCHANGED failed
    /\ returned' = TRUE
    /\ UNCHANGED <<call, reply, outcome>>

Next == Respond \/ Refuse \/ Break \/ Return \/ Decode

Spec == Init /\ [][Next]_vars

-----------------------------------------------------------------------------
(* Properties.                                                             *)

\* A header read for itself, whatever became of the others.
ReadAlone(text) ==
    IF text # None /\ text.seen /\ text.number # None /\ text.number <= MaxInt
    THEN text.number ELSE None

\* "Bodies that are not valid ErrorResponse JSON never cause a panic or a lost
\* status code": a status neither a success nor accepted always becomes an Api
\* error of that status, with the metadata its headers hold and the text that
\* was read, though the body was of no known shape, named another status, or
\* could not be read; and no other attempt becomes one.
StatusIsNeverLost ==
    returned =>
        LET refused == reply # None /\ ~IsSuccess(reply.status) /\ ~Accepted(reply.status)
            text    == IF failed THEN EmptyBody ELSE reply.body
        IN  /\ result.kind = "Api" <=> refused
            /\ refused =>
                  /\ result.status = reply.status
                  /\ result.retry_after = ReadAlone(reply.retry_after)
                  /\ IF result.rate_limit = None
                     THEN \A h \in {reply.limit, reply.remaining, reply.reset} :
                              ReadAlone(h) = None
                     ELSE /\ result.rate_limit.limit = ReadAlone(reply.limit)
                          /\ result.rate_limit.remaining = ReadAlone(reply.remaining)
                          /\ result.rate_limit.reset = ReadAlone(reply.reset)
                  /\ (text.json = None \/ text.json.type # "ErrorResponse") =>
                        result.body = FromRaw(reply.status, text.bytes)

\* ClientError::is_retriable, to a caller that sends again by itself, says what
\* the send loop would have done: it and Outcome, and wants_retry, are three
\* statements of one rule.
CallerAndLoopAgree ==
    result # None /\ outcome # None /\ result.kind \in {"Api", "Transport"} =>
        LET listed == reply # None /\ reply.status \in call.retry_on
        IN  /\ ~listed /\ (reply = None \/ ~Accepted(reply.status)) =>
                  (IsRetriable(result) <=> outcome.kind # "Final")
            /\ result.kind = "Api" =>
                  (outcome.kind # "Final" <=>
                      WantsRetry(result.status, result.retry_after, FALSE, call.retry_on))

\* "Truncate a body to at most SNIPPET_LEN": whatever bytes its characters
\* have about the limit, cutting a body that did not decode is no panic, and
\* the text kept is a beginning of it within the limit that ends with a whole
\* character, is as long as fits, at most three bytes short of the limit, and
\* is marked exactly when something is missing.
SnippetKeepsWholeCharacters ==
    /\ result # None => result.kind # "Panic"
    /\ result # None /\ result.kind = "Decode" =>
          LET bytes == reply.body.bytes
              text  == result.snippet.text
              kept  == Len(text)
          IN  /\ kept <= SnippetLen /\ kept <= Len(bytes)
              /\ text = SubSeq(bytes, 1, kept)
              /\ result.snippet.cut <=> kept < Len(bytes)
              /\ result.snippet.cut =>
                    /\ bytes[kept + 1] = "first"
                    /\ \A n \in kept + 1 .. SnippetLen : bytes[n + 1] = "rest"
                    /\ SnippetLen - kept < 4

\* parse_retry_after_value: "For every value, this agrees with the client
\* reading the same bytes from a response header", spaces of other alphabets,
\* numbers past u64 and dates included.
RetryAfterReadAlike ==
    reply # None /\ reply.retry_after # None =>
        ParseRetryAfterValue(reply.retry_after) = ParseRetryAfter(reply.retry_after)
=============================================================================
