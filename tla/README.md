# A verification of acton-service-client

TLA+ modules, model-checking runs and machine-checked proofs for the client in
`src/`: an HTTP client that retries, fails over across an ordered set of
endpoints, bounds a call by a deadline, and leaves the caller a record of what
every endpoint answered.

## The system

A `ServiceClient` is a handle on one shared, immutable `Inner` (endpoint set,
HTTP clients, retry policy, timeouts, observer) plus one mutable word, the
preferred endpoint. Each call is a future of its own (`RequestBuilder::execute`)
that owns a `Failover`, a pure state machine fed with outcomes, the time
remaining and a random draw. Calls share nothing but the preference and the
client's observer.

| component | source | state | operations | interacts with |
|---|---|---|---|---|
| send loop | `request.rs` 404-634, `client.rs` 19-66 | one future per call; `Inner::preferred` shared | `execute`, `finish`, `deadline`, `retry_allowed`, `prefer` | asks Failover; calls reqwest, tokio's timer and the observers |
| failover state machine | `failover.rs` 880-1210 | `Failover`: endpoint, attempts, pauses, streak, cycle, pending re-send, trace | `new`, `begin`, `after`, `rotate`, `pause`, `spent`, `trace` | asks RetryPolicy; pure |
| retry policy | `retry.rs` | none (a policy is a value) | `ceiling_ms`, `pause`, `next_pause`, `should_retry`, `attempt_timeout`, `wants_retry`, `fits_before` | pure; public, for callers that send on their own |
| redirect rules | `client.rs` 695-721, `request.rs` 543-548 | none | `in_set_redirects`, `redirect_verdict` | called by reqwest in an attempt, by the send loop after it |
| endpoint set, builder | `client.rs` 276-690, `failover.rs` 74-280, 827-878 | the builder | `build`, `validate_set`, `bare_origin`, `apply_to` | makes `Inner` |
| request building | `request.rs` 45-440, `url.rs` | the builder of a request | setters, `url_string`, `effective_headers` | feeds the send loop |
| request context | `context.rs` | none (a context is a value) | `ensure_request_id`, `to_headers`, `from_headers` | a layer of the headers; carried from one service to the next |
| API version | `versioning.rs` | none | `parse`, `as_path_segment` | a part of the URL |
| errors and parsing | `error.rs`, `request.rs` 549-668, `retry.rs` 640-668 | none | `build_api_error`, header readers, `snippet`, `is_retriable`, `send_json` | called by the send loop; read by the caller |
| health types | `health.rs` | none | fields | decoded by `health` and `ready` |

What is hard here, and what makes each part right:

- *Send loop.* Time passes, callers drop futures and other calls run at every
  await; the clock is read twice per attempt and used later. Right means: the
  attempt budget and the deadline hold over all endpoints together, the shared
  preference was earned, observers hear every re-send once and in order, and a
  call with a deadline ends.
- *Failover.* A rotation is decided in one step and made in a later one. Right
  means: endpoints are tried in turn, pauses come at the end of full cycles and
  answer that cycle's `Retry-After`s, and the trace is exactly what was sent.
- *Retry policy.* Machine arithmetic under a documented schedule. Right means:
  the schedule doubles to its cap whatever the width does, jitter keeps its
  floor for every float, and no pause reaches the deadline.
- *The record.* A request that may have been applied must never be reported as
  not processed. Right means: `proves_not_processed` is sound, and each result
  carries the trace its documentation says it carries.
- *Redirects.* An attempt is a chain of requests of which the loop sees the end.
  Right means: a built client stays in the set, an answer from outside is never
  taken for the set's, and the records hold whatever the chain was.
- *Endpoint set, builder.* Right means: one server has one place, clients and
  origins line up, and a request sent to an endpoint arrives there.
- *Request building.* Four sources may set one header and four texts make up a
  URL, in calls of any order. Right means: the documented layer wins, every
  attempt is the same message, tracking ids survive from service to service, and
  the loop is told what the caller asked for.
- *Errors and parsing.* What may be retried is stated in four places and
  `Retry-After` read in two. Right means: they agree, and no status is lost
  whatever the body was.

## Modules

| module | models | state and actions |
|---|---|---|
| `RetryPolicy` | `retry.rs` | operators named after the functions; integers of `Width` bits, durations in ticks of `1 / TicksPerMs` ms, draws in multiples of `1 / DrawDen` or `NaN` |
| `Failover` | `Outcome`, `Failover` | operators from record to record: `New`, `Begun`, `NextAttempt`, `After` (`Rotate`, `RetryInPlace`, `TakePause`, `Spent`) |
| `ServiceClient` | `execute`, `finish`, `Inner` | one program counter per call, with one action per stretch between two awaits or two clock readings; composes the two above |
| `SingleEndpoint` | an abstract specification | the loop a caller writes from `wants_retry` and `next_pause` |
| `SingleEndpointRefinement` | - | the mapping under which a call on a one-endpoint client is a `SingleEndpoint` |
| `SetWalk` | an abstract specification | the order of a call's requests: round the set without a pause, a pause before an endpoint is asked again, a budget |
| `SetWalkRefinement` | - | the mapping, from the history `sent`, under which every call on a set of any size is a `SetWalk` |
| `Redirects` | `in_set_redirects`, `redirect_verdict`, `execute` 541-574 | `ServiceClient`, each attempt a chain of origins: `SendFirst`, `Follow`, `Refuse`, `EndOfChain` |
| `EndpointSet` | `ServiceClientBuilder`, `validate_set`, `bare_origin`, `from_url`, `apply_to` | the builder and what `build` returned: one action per setter, and `Build` |
| `RequestBuilder` | `RequestBuilder`, `RequestContext`, `ApiVersion`, `url.rs`, the other setters of the client's builder | one action per setter, `Build`, `Execute` (what is computed before the loop), `Attempt` (a message on the wire), `Return` |
| `Responses` | `error.rs`, header readers, `send_json`, `send_no_content`, the typed calls of `client.rs` | one call, one attempt: `Respond`, `Refuse`, `Break`, then `Return` or `Decode` |
| `Backoff` | - | `SingleEndpoint` with the pauses it took, and what `retry.rs` says of them |
| `RetryPolicyProofs`, `ServiceClientProofs`, `WalkProofs`, `RedirectsProofs`, `EndpointSetProofs`, `RequestBuilderProofs`, `ResponsesProofs`, `BackoffProofs` | - | theorems |
| `MCServiceClient`, `MCRedirects`, `MCEndpointSet`, `MCRequestBuilder`, `MCResponses`, `MCBackoff` | - | instances for TLC |

A call moves through `idle`, `begin`, `send`, `inflight`, `body`, `after`,
`sleeping` to `done` or `dropped`. `begin` to `send` is separate because the
clock is read before the observers run and the timeout set after; `body` is
separate because reading an error body takes time and may fail; `after` is
separate because the second clock reading comes then. Time is three countdowns
per call (to the deadline, to the attempt's timeout, of the pause), all moved by
`Tick`; one that is zero stays so, so that a timer may be noticed late. The
observers are synchronous code of the caller: they may take time, which is a
`Tick` at `send`.

Four histories are added, which no action reads but to extend: `sent` (each
attempt as it went on the wire, how late after the clock was read, how it ended,
the pause after it), `heard` and `told` (the reports of the two kinds of
observer) and `applied` (an endpoint may have processed the request). The
properties compare the program's own records, `trace`, `result`, `preferred`,
with these.

`SetWalk` forgets outcomes, time and policies. What is left is the promise of
`failover.rs`: within a cycle a call goes on at once, and only to an endpoint it
has not asked since its last pause; a cycle starts from the next endpoint only
when the whole set was asked, from the same endpoint when it was retried in
place. It says nothing of where a call starts, which is the preference's affair.

`Redirects` is `ServiceClient` with two variables more: the chain of the latest
attempt (`hops`), and a history that also knows of what was done by an endpoint
that then redirected (`effected`: a `303` says it was; a `307` has the request sent
again instead), which only `see_other_then_connect` asks about. Each of its actions is one of `ServiceClient` in conjunction
with what happens to the chain; `Follow` alone is new, and is a stutter of
`ServiceClient`. A built client follows by `in_set_redirects` over a set and by
reqwest's default alone; a supplied one does as it likes.

`EndpointSet` has URLs as the caller spells them. What parsing does to them
(lower-casing, default ports) is modelled, and the properties compare the
written URLs, not the parsed ones. The order of setters is free.

`RequestBuilder` has its client built first, then any number of requests made on
it one after the other. A text of a URL is a sequence of words and separators; a
header is a value or none for each name, a value being unfit for a header
(`HeaderValue::from_str` refuses it), opaque (`to_str` does) or plain. The
history is the list of calls made; every property is computed from it and from
the messages, not from the builder's fields. `Return` hands the last message to a
service that may make the next request under the context it received, with a
client built alike. How often an attempt is made is `ServiceClient`'s business:
here it is any number to `AttemptBound`, more than one only if retries apply.

`Responses` is what becomes of one attempt. A header is the number it spells, what
surrounds it and whether it is readable; a body is its bytes, each the first of a
character or one of the rest, and what its JSON is of. `BackToBoundary` is the loop
of `snippet`, byte by byte; a slice that would end inside a character is a panic,
which is a result of `Decode` that the property excludes. `OfStatus` and `OfTransport` are those of
`Failover`, so that what the caller is told is compared with what the loop does.

What an endpoint does in `ServiceClient` is any status, any `Retry-After` of a small
set, a failed connection, a broken one, or silence; `MayHaveProcessed` says which
of them leave the request unapplied.

## Runs

| run | configuration | question | result |
|---|---|---|---|
| `failover_set` | `MCFailover.cfg` | one call over sets of two and three, built and supplied clients: budget, walk, pauses, deadline, every record | holds, 1.5 million states |
| `single_endpoint` | `MCSingle.cfg` | does the machinery of sets implement the plain loop for one endpoint | holds, 48 000 |
| `concurrent_calls` | `MCConcurrent.cfg` | two interleaved calls: observers and preference | holds, 14 000 |
| `redirects` | `MCRedirects.cfg` | attempts that are redirected, by built and supplied clients: do they stay in the set, is the loop deceived, how long is a chain, does a circle end | holds, 38 000 |
| `endpoint_set` | `MCEndpointSet.cfg` | does `build` accept exactly the sets, and make of them what was asked for, and blame what is wrong | holds, 101 000 |
| `requests` | `MCRequestBuilder.cfg` | setters in any order, requests one after the other: headers, URL, messages, what the loop is told | holds, 490 000 |
| `responses` | `MCResponses.cfg` | every combination of status, body and headers: what is the caller told | holds, 345 000 |
| `backoff_schedule` | `MCBackoff.cfg` | schedule, floor and number of pauses on 4-bit integers | holds |
| `floor_and_retry_after` | `MCFloor.cfg` | "always bounded by `deadline / base_delay`" (`retry.rs` 69) | violated: a server's `Retry-After: 0` has no floor |
| `final_error_after_rotation` | `MCTraceless.cfg` | "a set's call that never rotated" (`failover.rs` 439) | violated: a final error after a rotation carries no trace |
| `see_other_then_connect` | `MCSeeOther.cfg` | "nothing was applied anywhere in the set" (`failover.rs` 660) | violated: done, answered `303`, and the next endpoint was down |
| `through_the_outside` | `MCLeaving.cfg` | "fails the call with `ClientError::Config`" (`client.rs` 515) | violated: only the end of the chain is judged |

Bounds. Sets of one, two and three endpoints: three is the least where a cycle
has a middle, and where an endpoint skipped differs from one repeated. Budgets
of 3 to 5 attempts: a cycle, its pause and part of the next, so that a pause
counted wrongly shows in the next one. Deadlines of 2 and 3 ticks against
timeouts and delays of 1 and 2: every order of the three timers running out
occurs. Statuses: one success, one final, one retried in place (`503`, and `423`,
which needs a `Retry-After`), one that proves a refusal (`421`), with requests
that list, accept, or do both. `Retry-After` absent, 0 and positive.
`DrawDen = 2` gives the least draw and the greatest; `Backoff` takes draws on
both sides of [0, 1) and `NaN`. `Width = 4` lets the exponent reach its clamp and
the product saturate within 5 attempts. Two calls for interleaving: the shared
state is one word and a bag, and the actions of a call read no other call.
`MaxRedirects = 3` (10 in the code) leaves room for a chain that goes on, returns and
is refused, and the limits of a set's client and of one alone, which differ by one,
are both reached; `ChainBound` is how much of a supplied client's chain is told apart, its
last request being replaced past it, so that circles are finite. `EndpointSet` has
two failover endpoints of ten URLs: enough for a clash with the base URL and for
one among the failovers, the walk of `validate_set` being the same at every step.
`MaxCount` is above every budget: 2^32 attempts are out of reach of a call.
`RequestBuilder` allows `CallBound = 4` calls, of setters and of `request` together:
a header has four sources, and every pair of them and their order meet within
three, next to the request itself; a context received takes two requests.
`AttemptBound = 2` is one re-send. `Responses` cuts snippets at `SnippetLen = 4` bytes
(512 in the code) of every UTF-8 text of at most six, so that the limit falls before
a character and after each byte of one of two, three and four, and the loop takes
up to three steps back; it has u64 as four bits, so that 16 is a number past it.

Fairness (`redirects`): weak fairness of `Tick`, of what a woken task does (`Run`)
and of an expired timer (`Expire`), for tokio polls ready tasks and fires its
timers; observers return. Nothing is assumed of endpoints: `Succeed`, `Answer`,
`Disconnect`, `BodyRead` and `Follow` have no fairness, so the call must end by its
timers alone. A call without a deadline over a supplied client need not end, and
`DeadlineEndsTheCall` does not say it does. It is checked where attempts may be
redirected, which includes those that are not.

Deadlock is checked in every run of the loop and of the set's builder:
`Terminated` lets a finished client stutter, and `Consumed` a builder. It is not in
`requests` and `responses`, which stop when the calls allowed are made, when a
builder was refused, and when the call has returned.

## Proofs

Every invariant that the passing runs check is proved for all values of the
constants, and so are the two refinements and the action property.

`RetryPolicyProofs` proves, of any policy, width, resolution and draw, what
`pause`, `next_pause`, `backoff_delay` and `attempt_timeout` return. The shift
`1 << n` is the recursive function `Pow2`; that it satisfies its definition and is
positive is proved by an induction over sets of naturals, itself derived
(`SetInduction`) from the pigeonhole theorem of the library, which needs no
operator parameter. The other recursive function is `OwnWords`, of a text: it is the
last of the functions on ever longer beginnings of it, each of which exists.

`ServiceClientProofs` first proves, operator by operator, that `Failover`'s record
keeps its type, that an attempt is counted exactly when it is begun, and that
`After` goes on only when retries apply and `ShouldRetry` holds. Everything else in
it and in `WalkProofs` is of `Spec` of `ServiceClient`, for any number of calls,
clients, endpoints, requests and durations. Each invariant is strengthened to an
inductive one; one lemma per action says that it keeps it, one lemma says that
it leaves the other calls alone, and the theorems are drawn at the end. An
invariant of a later row rests on those before it.

| module, part | theorems about | inductive invariant, and why it is needed |
|---|---|---|
| `ServiceClientProofs`, types | `TypeOK`, `AttemptBudget` | `IInv`: the two, with `CallOK` (what a call has in its hands at each place: a `Failover` once started, an attempt until its outcome) and `BudgetOK` (`Failover::attempts` is the number of requests sent, but for the one decided and not yet sent) |
| deadlines | `SleepEndsBeforeDeadline`, `AttemptEndsWithTheDeadline`, `DeadlineExceededMeansNothingSent` | `DInv`: at `send` the deadline is no farther than the reading taken at `begin` (`TimeOK`); a call has an outcome to blame exactly when it sent something (`RecordOK`). That a pause fits rests on `PauseWithinBounds` |
| how a call ends | `WaitsAreTimed`, `EveryStepGoesOn`: the safety half of `DeadlineEndsTheCall` | none more. `StepsLeft` counts the steps a call has to go, six for each attempt its budget has left and the rest of the round it is in; each step of its own lowers it, no other step touches it or the call's `Wait`, but the clock's, and under a deadline a wait is always for a timer that was set (`TimeOK`) |
| the preference | `PreferenceWasEarned`, the action property `DefinitiveAnswerIsPreferred` | `PInv`: the attempt in flight is the last one sent, to the endpoint at hand (`Flying`), so that a definitive answer and the preference it sets name one endpoint; and what was sent and has ended stays as it is |
| the record | `ExhaustedTellsEverything`, `ResponseTellsTheRest` | `RInv`: at every place `Failover`'s trace is `TraceOf` the wire, the row of the attempt in hand missing or not by the place, and its last row marked as rotated only once the rotation is made; a pending re-send names the endpoint and the reason of the last attempt (`Tells`); a returned result says so of the whole call (`Concluded`) |
| evidence | `ObserverHearsEveryResend`, `NotProcessedIsSound`, `ObserverProofIsSound` | `EInv`: a request that may have been applied has an attempt on the wire whose ending admits it (`AppliedOK`); what was heard is a function of what was sent (`HeardOK`). With `RInv` the trace is the wire, so a trace that proves a refusal everywhere contradicts `AppliedOK` |
| `WalkProofs`, the walk | `NoEndpointRetriedAtOnce`, the refinement `WalksTheSet` | `WInv`: the streak of `Failover`, modulo the size of the set, is how far the latest lap has gone (`Lap`: attempts without a pause between them, each to the endpoint after the one before), and the endpoint at hand is the next of it; so a lap shorter than the set has not met that endpoint |
| pauses | `PauseAnswersItsCycle` | `LInv`: the smallest `Retry-After` that `Failover` carries through a cycle is that of the attempts since the pause before, missing if one of them had none; its number of pauses is that of the pauses on the wire |
| the union | `ClientObserverHearsTheUnion` | `UInv`: the bag of reports counts, for each, the re-sends of all the calls that are it, the re-sends made being finitely many. A step that reports adds one to the set and to one count |
| one endpoint | the refinement `SingleEndpointBehaviour` | `LoopInv`: on a set of one nothing rotates, so what `Failover` decides is what `wants_retry` and `next_pause` decide of the same attempt; each action is a step of `SingleEndpoint` or a stutter |
| `RedirectsProofs` | the refinement `RedirectsSpec => Spec`, `StaysInTheSet`, `ChainsAreBounded`, `OutsideNeverAnswersForTheSet` | `ChainInv`: the chain of an attempt on the wire starts at the endpoint it was for, whose slot says which client follows and how far. `EndInv`: where the chain of an attempt ended that was answered, and that its call is over if that is outside; a call that is over takes no step |
| `EndpointSetProofs` | `TypeOK`, `BuildAcceptsExactlySets`, `FirstOffenderIsBlamed`, `RequestsGoWhereTheyAreSent`, `SlotsServeTheirOrigins`, `BuiltClientsAreHeldToTheSet` | `BuilderOK`: the builder holds what setters take, and what was built is what `build` makes of it. What `validate_set` has found after each endpoint, an origin for each and no two the same or the first fault, is an induction over the list, by `SetInduction` |
| `RequestBuilderProofs` | `SameRequestOnEveryAttempt`, `LoopGetsWhatWasAsked`, `TrackingSurvivesTheChain`, `EachLayerOverridesTheOneBelow`, `RequestReachesItsPath` | `RequestInv`: builder, client and request are functions of the list of calls (`Configured`, `Wanted`), a request received was fit to be sent (`NoneOrFit`), the wire holds one message. `FreshInv`: no id still to be generated was written by a caller or received, and no more are generated than calls were made. `UrlInv`: the base path and the version that were set last are ones that can be. A plain part becomes a chain of separator and word, or nothing (`SegmentIs`); chains joined are a chain (`ChainsJoined`), which is what its words spell (`ChainIsSpelled`), and the words of texts joined are the words of each (`OwnJoined`): inductions over a text, by `SetInduction` |
| `ResponsesProofs` | `StatusIsNeverLost`, `CallerAndLoopAgree`, `SnippetKeepsWholeCharacters`, `RetryAfterReadAlike` | `ResponseOK`: what the loop holds is what `build_api_error` made of the reply. That the loop of `snippet` ends, at a boundary and past none, is an induction over the bytes it walks back, by `SetInduction`; that it loses at most three, that a character has at most four |
| `BackoffProofs` | `UnjitteredPauseFollowsTheSchedule`, `JitterStaysBetweenFloorAndCeiling`, `FloorBoundsTheAttempts` | `BackoffOK`: each pause that was computed lies between the floor and the schedule at its number (`PausesOK`); the pauses made take their floors off the deadline (`DeadlineOK`). The schedule doubled step by step is `base * Pow2[n]` until its cap, through saturation |

By the first theorem of `RedirectsProofs` all that is proved of `Spec` holds of
attempts that are redirected as well, each in terms of the endpoint an attempt
was sent to; `see_other_then_connect` shows where this is not enough.

Assumptions, all named in the modules: the constants have their types; `None` is
no value of the kind it stands for the absence of (an integer, a reason to stop,
an outcome, a pending re-send, a client, an error, a rate limit, a duration);
statuses and labels of transport failures are different strings; a client's
`max_attempts` fits the counter (both are `u32`); a lower-case host is its own
lower case; a default header is fit for one, being a `HeaderValue` already; and a
UUID generated is new (`UuidsAssumption`): fit, distinct from the others, and
written by nobody as an `x-request-id`; and the texts of URLs are divided into words
and separators (`TextsAssumption`): no word follows another, a query or a fragment
begins with its sign, and what follows a host with one of the three, as the URL's
grammar has it. TLC evaluates each on every run of its module.

Four theorems have a hypothesis besides, of what the code is used with:

- `OneEndpointIsRetryLoop`: every client has one endpoint, there is a call, and a
  server may send no `Retry-After`.
- The three of `BackoffProofs`: policies in whole milliseconds, with
  `max_delay` at most 2^(`Width` - 1) ms. The code computes in milliseconds
  (`retry.rs` 281, 506), so that a delay finer than that is cut off: the
  documented "never shorter than `base_delay`" (`retry.rs` 65) is of the delay in
  whole ones. `PauseAnswersItsCycle` states the floor so, and needs no hypothesis.

`LayersOverride` supposes that `None` is no record, which TLC cannot evaluate as an
assumption (`NoRecordIsNone`).

Model-checked only:

- `DeadlineEndsTheCall`: liveness under fairness, which is past the prover with its
  `ENABLED`. `WaitsAreTimed` and `EveryStepGoesOn` prove what it rests on besides:
  a call never has to go on for more than a bounded number of steps, and a wait is
  one the clock shortens. What is left to TLC is that, by `Fairness`, a step
  that can be taken is.
- The four violations.

## Disagreements between code and documentation

The four violated runs above; PROJECT.json quotes the lines. Most are sentences
that say more than the code does. The one that matters to a caller is
`see_other_then_connect`: after it, `proves_not_processed` advises to send a request
again that was applied. It takes a retriable request, an endpoint that answers it
with `303`, and the endpoint it names being down.

Read off the definitions and given no run:

- The time remaining is read before the observers run and becomes the attempt's
  timeout after them (`request.rs` 503, 536), so the time they take is added to a
  call that `deadline` bounds "first send to last response" (`retry.rs` 226).
  `AttemptEndsWithTheDeadline` states the bound that holds.
- An endpoint that redirected to another is the one preferred (`request.rs` 551,
  558), not "the last endpoint that gave a definitive answer" (`client.rs` 146).
- `MAX_REDIRECTS` is "as reqwest's default policy" (`client.rs` 695), but the URLs it
  is compared with include the first, so that one redirect less is followed.
- A client-wide default for `x-request-id` has a generated id laid over it
  whenever the context has none; it is sent only under a context whose own id is
  unfit for a header, for which none is generated (`context.rs` 119, 158,
  `request.rs` 430).
- `from_headers` ignores values "that are not valid UTF-8" (`context.rs` 129); it
  ignores every value outside visible ASCII, which `to_headers` does send.
- A joined path "never contains duplicate separators" (`url.rs` 10): those inside a
  part stay. `RequestReachesItsPath` is of parts that have none.
- A base URL with a query or a fragment is accepted, and takes the path of every
  request into it; `RequestReachesItsPath` states what is then asked for.
- `snippet` keeps "at most `SNIPPET_LEN` characters" (`error.rs` 388): it counts
  bytes, and adds an ellipsis.
- The body of a `503` of `/ready` is read "via `ApiError` diagnostics" (`health.rs`
  47): `ready` accepts the status and decodes it (`client.rs` 248).

## Not modelled, and why

The tests and the fixture are evidence of what is meant, not part of the program.
Of the rest: the wording of errors and `Display`, accessors that return a field, the
fields of health types, percent-encoding and the parsing of JSON and URLs beyond
what is said above, elapsed times in traces, the failure to construct a reqwest
client, and the parse error of a request's URL that a validated base URL rules
out. A policy deadline too large to be added to an `Instant` is dropped
(`request.rs` 631): durations here are unbounded. Where a response came from is
judged by its URL, which `reqwest` is trusted to report.

Next, were the project to go on: what calls that are dropped at any place leave to
those that follow, beyond the preference; and clients that differ sharing an
endpoint.
