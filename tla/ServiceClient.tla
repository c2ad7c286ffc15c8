----------------------------- MODULE ServiceClient -----------------------------
(***************************************************************************)
(* Calls on one shared client: RequestBuilder::send (src/request.rs) over  *)
(* the shared Inner of src/client.rs, every decision taken by Failover.    *)
(*                                                                         *)
(* A call is a future.  Its program counter names the places where time    *)
(* may pass or another call may run:                                       *)
(*                                                                         *)
(*   idle      not polled yet                                              *)
(*   begin     at the head of the loop, about to read the clock            *)
(*   send      an attempt is decided, from a clock already read            *)
(*   inflight  awaiting the response                                       *)
(*   body      awaiting the body of an error response                      *)
(*   after     the outcome is known, its consequence is not                *)
(*   sleeping  awaiting the pause                                          *)
(*   done      returned                                                    *)
(*   dropped   the caller dropped the future                               *)
(*                                                                         *)
(* Time is read only as differences, so each call carries how long its     *)
(* deadline, its attempt's timeout and its pause still have to run; Tick   *)
(* takes one from each.  A timer that has run out may be noticed late.     *)
(***************************************************************************)
EXTENDS Failover, Bags, FiniteSets

CONSTANTS
    Calls,        \* the calls made on the client
    Clients,      \* the configurations a client may have been built with
    Requests,     \* the requests a call may make
    Statuses,     \* the statuses an endpoint may answer with
    RetryAfters   \* what the Retry-After of an error response may parse to

ASSUME StatusAssumption ==
    Statuses \cap {"connect", "timeout", "io", "redirect", "pending"} = {}

ASSUME RetryAfterAssumption == RetryAfters \subseteq Option(Duration)

\* What a RequestBuilder holds when it is sent.  A deadline is the time left
\* to deadline_at when the call starts.
RequestType ==
    [method    : {"GET", "HEAD", "DELETE", "PUT", "POST", "PATCH"},
     retriable : BOOLEAN,
     accept    : SUBSET Statuses,
     retry_on  : SUBSET Statuses,
     deadline  : Option(Duration),
     timeout   : Option(Duration),
     observer  : BOOLEAN]

\* What ServiceClientBuilder::build leaves in Inner.  A slot is its builder
\* timeout, None for a supplied reqwest::Client.
ASSUME ClientsAssumption ==
    \A cl \in Clients :
        /\ cl.len \in Nat \ {0}
        /\ \A e \in 0 .. cl.len - 1 : cl.slots[e] \in Option(Duration)
        /\ cl.retry \in Option(Policies)
        /\ cl.retry # None => cl.retry.max_attempts <= MaxCount
        /\ cl.attempt_timeout \in Option(Duration)
        /\ cl.observer \in BOOLEAN

ASSUME RequestsAssumption == Requests \subseteq RequestType

VARIABLES
    inner,      \* the client's configuration; never changes
    preferred,  \* Inner::preferred, shared by every call
    pc,         \* where each call is
    request,    \* the request it makes
    failover,   \* its Failover
    attempt,    \* the attempt it is making, and the time remaining it read
    left,       \* time to its deadline, None without one
    timer,      \* time to the timeout of its attempt, None without one
    nap,        \* time left to sleep
    outcome,    \* how its latest attempt bears on the next
    last,       \* the result of its latest attempt
    result,     \* what it returned
    sent,       \* history: its attempts, each with its outcome, the Retry-After
                \* that came with it, the pause taken after it, and how old the
                \* clock was that its timeout was computed from
    heard,      \* history: the reports its own observer received
    told,       \* history: the bag of reports the client's observer received
    applied     \* history: an endpoint may have processed the request

config == <<inner, request>>
loop   == <<pc, failover, attempt, outcome, last, result>>
timers == <<left, timer, nap>>
ghosts == <<sent, heard, told, applied>>
vars   == <<inner, preferred, pc, request, failover, attempt, left, timer, nap,
            outcome, last, result, sent, heard, told, applied>>

-----------------------------------------------------------------------------
Endpoints == 0 .. inner.len - 1

Over(c) == pc[c] \in {"done", "dropped"}

\* The policy, when retries apply to the request: retry_allowed.
PolicyOf(c) ==
    IF IsIdempotent(request[c].method) \/ request[c].retriable THEN inner.retry ELSE None

\* The per-request deadline, else the policy's, applied or not.
DeadlineOf(r) ==
    Or(r.deadline, IF inner.retry = None THEN None ELSE inner.retry.deadline)

IsSuccess(status) == status \in {"200", "204"}

\* An attempt that ends so may have had its request processed: only a failed
\* connection, or the refusal 421, tells that it was not.
MayHaveProcessed(how) == how \notin {"connect", "421"}

\* Mutant: an attempt cut short by its timer is reported as the deadline's.
ResultBlamingDeadline(stop, f, lst) ==
    IF lst = None \/ lst.outcome = "timeout"
    THEN [kind |-> "DeadlineExceeded", attempts |-> f.attempts]
    ELSE IF lst.kind = "Ok"
    THEN [kind |-> "Ok", outcome |-> lst.outcome, trace |-> f.trace]
    ELSE IF stop = "Exhausted"
    THEN [kind |-> "EndpointsExhausted", outcome |-> lst.outcome, trace |-> f.trace]
    ELSE [kind |-> lst.kind, outcome |-> lst.outcome]

\* RequestBuilder::finish.
ResultOf(stop, f, lst) ==
    IF lst = None
    THEN [kind |-> "DeadlineExceeded", attempts |-> f.attempts]
    ELSE IF lst.kind = "Ok"
    THEN [kind |-> "Ok", outcome |-> lst.outcome, trace |-> f.trace]
    ELSE IF stop = "Exhausted"
    THEN [kind |-> "EndpointsExhausted", outcome |-> lst.outcome, trace |-> f.trace]
    ELSE [kind |-> lst.kind, outcome |-> lst.outcome]

\* RetryObserver::on_rotation and on_retry, as called.
OnRotation(origin, reason) ==
    [kind |-> "on_rotation", endpoint |-> origin, reason |-> reason]

OnRetry(origin, reason, number) ==
    [kind |-> "on_retry", endpoint |-> origin, reason |-> reason, number |-> number]

\* Mutant: a rotation names the endpoint it goes to.
ReportTarget(a) ==
    IF a.resend.kind = "Rotation" THEN OnRotation(a.endpoint, a.resend.reason)
    ELSE OnRetry(a.endpoint, a.resend.reason, a.number)

\* What a re-send reports, and to whom: the client's observer and the call's.
Report(a) ==
    IF a.resend.kind = "Rotation" THEN OnRotation(a.resend.from, a.resend.reason)
    ELSE OnRetry(a.endpoint, a.resend.reason, a.number)

\* Mutant: the client's observer hears of rotations only.
ToldClientRotations(a) ==
    IF a.resend # None /\ inner.observer /\ a.resend.kind = "Rotation"
    THEN told (+) SetToBag({Report(a)}) ELSE told

ToldClient(a) ==
    IF a.resend # None /\ inner.observer
    THEN told (+) SetToBag({Report(a)}) ELSE told

\* Mutant: a request's observer hears of rotations only.
ToldCallRotations(c, a) ==
    IF a.resend # None /\ request[c].observer /\ a.resend.kind = "Rotation"
    THEN Append(heard[c], Report(a)) ELSE heard[c]

ToldCall(c, a) ==
    IF a.resend # None /\ request[c].observer
    THEN Append(heard[c], Report(a)) ELSE heard[c]

\* The history, once the latest attempt of call c has ended so.
Ended(c, how, retryAfter) ==
    [sent EXCEPT ![c][Len(sent[c])] = [@ EXCEPT !.outcome     = how,
                                                !.retry_after = retryAfter]]

-----------------------------------------------------------------------------
Init ==
    /\ inner     \in Clients
    /\ preferred = 0
    /\ pc        = [c \in Calls |-> "idle"]
    /\ request   = [c \in Calls |-> None]
    /\ failover  = [c \in Calls |-> None]
    /\ attempt   = [c \in Calls |-> None]
    /\ left      = [c \in Calls |-> None]
    /\ timer     = [c \in Calls |-> None]
    /\ nap       = [c \in Calls |-> 0]
    /\ outcome   = [c \in Calls |-> None]
    /\ last      = [c \in Calls |-> None]
    /\ result    = [c \in Calls |-> None]
    /\ sent      = [c \in Calls |-> << >>]
    /\ heard     = [c \in Calls |-> << >>]
    /\ told      = EmptyBag
    /\ applied   = [c \in Calls |-> FALSE]

\* The first poll: the deadline is fixed and the preference is read, once.
Start(c) ==
    /\ pc[c] = "idle"
    /\ \E r \in Requests :
          /\ request' = [request EXCEPT ![c] = r]
          /\ left'    = [left EXCEPT ![c] = DeadlineOf(r)]
    /\ failover' = [failover EXCEPT ![c] = New(inner.len, preferred % inner.len)]
    /\ pc'       = [pc EXCEPT ![c] = "begin"]
    /\ UNCHANGED <<inner, preferred, attempt, timer, nap, outcome, last, result, ghosts>>

\* The head of the loop, in time: the attempt is decided.
Begin(c) ==
    /\ pc[c] = "begin"
    /\ left[c] # 0
    /\ attempt'  = [attempt EXCEPT ![c] = [of        |-> NextAttempt(failover[c]),
                                           remaining |-> left[c]]]
    /\ failover' = [failover EXCEPT ![c] = Begun(failover[c])]
    /\ pc'       = [pc EXCEPT ![c] = "send"]
    /\ UNCHANGED <<config, preferred, timers, outcome, last, result, ghosts>>

\* The head of the loop, too late: the call ends.
BeginTooLate(c) ==
    /\ pc[c] = "begin"
    /\ left[c] = 0
    /\ result' = [result EXCEPT ![c] =
                     ResultOf(BeginStop(failover[c]), failover[c], last[c])]
    /\ pc'     = [pc EXCEPT ![c] = "done"]
    /\ UNCHANGED <<config, preferred, failover, attempt, timers, outcome, last, ghosts>>

\* How long ago Begin read the clock, of a call with a deadline.
Late(c) ==
    IF left[c] = None \/ attempt[c].remaining = None THEN 0
    ELSE attempt[c].remaining - left[c]

\* Observers hear of the re-send, and the request goes out under a timeout
\* computed from the clock Begin read; an absent one leaves the slot's own.
Send(c) ==
    /\ pc[c] = "send"
    /\ LET a    == attempt[c].of
           slot == inner.slots[a.endpoint]
       IN  /\ told'  = ToldClient(a)
           /\ heard' = [heard EXCEPT ![c] = ToldCall(c, a)]
           /\ timer' = [timer EXCEPT ![c] =
                           Or(AttemptTimeout(request[c].timeout, inner.attempt_timeout,
                                             slot, attempt[c].remaining),
                              slot)]
           /\ sent'  = [sent EXCEPT ![c] =
                           Append(@, [endpoint    |-> a.endpoint,
                                      outcome     |-> "pending",
                                      late        |-> Late(c),
                                      retry_after |-> None,
                                      pause       |-> None])]
    /\ pc' = [pc EXCEPT ![c] = "inflight"]
    /\ UNCHANGED <<config, preferred, failover, attempt, left, nap, outcome, last, result,
                   applied>>

-----------------------------------------------------------------------------
(* How an attempt ends.                                                    *)

\* A success: its endpoint is preferred, and it is returned.
Succeed(c) ==
    /\ pc[c] = "inflight"
    /\ \E status \in Statuses :
          /\ IsSuccess(status)
          /\ sent'   = Ended(c, status, None)
          /\ result' = [result EXCEPT ![c] = [kind |-> "Ok", outcome |-> status,
                                              trace |-> failover[c].trace]]
    /\ preferred' = attempt[c].of.endpoint
    /\ applied'   = [applied EXCEPT ![c] = TRUE]
    /\ pc'        = [pc EXCEPT ![c] = "done"]
    /\ UNCHANGED <<config, failover, attempt, timers, outcome, last, heard, told>>

\* Any other status.  Its endpoint is preferred unless the status rotates.
\* An accepted response is kept unread; else its body is read next.
Answer(c) ==
    /\ pc[c] = "inflight"
    /\ \E status \in Statuses, retryAfter \in RetryAfters :
          LET accepted == status \in request[c].accept
              how      == OfStatus(status, retryAfter, accepted, request[c].retry_on)
          IN  /\ ~IsSuccess(status)
              /\ outcome'   = [outcome EXCEPT ![c] = how]
              /\ preferred' = IF IsRotation(how) THEN preferred ELSE attempt[c].of.endpoint
              /\ last'      = [last EXCEPT ![c] =
                                  [kind    |-> IF accepted THEN "Ok" ELSE "Api",
                                   outcome |-> status]]
              /\ pc'        = [pc EXCEPT ![c] = IF accepted THEN "after" ELSE "body"]
              /\ sent'      = Ended(c, status, retryAfter)
              /\ applied'   = [applied EXCEPT ![c] = @ \/ MayHaveProcessed(status)]
    /\ UNCHANGED <<config, failover, attempt, timers, result, heard, told>>

\* The body of an error response is read, or fails to be: the error is the
\* same, with an empty body.
BodyRead(c) ==
    /\ pc[c] = "body"
    /\ pc' = [pc EXCEPT ![c] = "after"]
    /\ UNCHANGED <<config, preferred, failover, attempt, timers, outcome, last, result, ghosts>>

\* The attempt fails without a response.
Fail(c, connect, timeout) ==
    LET how == IF connect THEN "connect" ELSE IF timeout THEN "timeout" ELSE "io"
    IN  /\ pc[c] = "inflight"
        /\ outcome' = [outcome EXCEPT ![c] = OfTransport(connect, timeout)]
        /\ last'    = [last EXCEPT ![c] = [kind |-> "Transport", outcome |-> how]]
        /\ sent'    = Ended(c, how, None)
        /\ applied' = [applied EXCEPT ![c] = @ \/ MayHaveProcessed(how)]
        /\ pc'      = [pc EXCEPT ![c] = "after"]
        /\ UNCHANGED <<config, preferred, failover, attempt, timers, result, heard, told>>

\* No connection (at once, or as a connect timeout), or one that breaks later.
Disconnect(c) ==
    \/ \E timeout \in BOOLEAN : Fail(c, TRUE, timeout)
    \/ Fail(c, FALSE, FALSE)

\* The attempt's timer runs out: before the response, or inside its body.
Expire(c) ==
    /\ timer[c] = 0
    /\ Fail(c, FALSE, TRUE) \/ BodyRead(c)

\* The attempt goes out on a client the caller supplied.
Supplied(c) == inner.slots[attempt[c].of.endpoint] = None

\* A supplied client may have timeouts of its own, which nothing here sees.
OwnTimeout(c) == pc[c] = "inflight" /\ Supplied(c) /\ Fail(c, FALSE, TRUE)

\* A supplied client followed a redirect out of the set: the call ends there.
RefuseRedirect(c) ==
    /\ pc[c] = "inflight"
    /\ inner.len > 1
    /\ Supplied(c)
    /\ sent'    = Ended(c, "redirect", None)
    /\ result'  = [result EXCEPT ![c] = [kind |-> "Config", outcome |-> "redirect"]]
    /\ applied' = [applied EXCEPT ![c] = TRUE]
    /\ pc'      = [pc EXCEPT ![c] = "done"]
    /\ UNCHANGED <<config, preferred, failover, attempt, timers, outcome, last, heard, told>>

-----------------------------------------------------------------------------
(* What follows from it.                                                   *)

\* The clock is read again, and the next attempt is decided or refused.
Decide(c) ==
    /\ pc[c] = "after"
    /\ \E draw \in 0 .. DrawDen - 1 :
          LET step == After(failover[c], outcome[c], PolicyOf(c), draw, left[c])
              f    == step.failover
          IN  /\ failover' = [failover EXCEPT ![c] = f]
              /\ timer'    = [timer EXCEPT ![c] = None]
              /\ \/ /\ step.stop # None
                    /\ result' = [result EXCEPT ![c] = ResultOf(step.stop, f, last[c])]
                    /\ pc'     = [pc EXCEPT ![c] = "done"]
                    /\ UNCHANGED <<nap, sent>>
                 \/ /\ step.stop = None
                    /\ step.pause = None
                    /\ pc' = [pc EXCEPT ![c] = "begin"]
                    /\ UNCHANGED <<nap, sent, result>>
                 \/ /\ step.stop = None
                    /\ step.pause # None
                    /\ nap'  = [nap EXCEPT ![c] = step.pause]
                    /\ sent' = [sent EXCEPT ![c][Len(sent[c])].pause = step.pause]
                    /\ pc'   = [pc EXCEPT ![c] = "sleeping"]
                    /\ UNCHANGED result
    /\ UNCHANGED <<config, preferred, attempt, left, outcome, last, heard, told, applied>>

Wake(c) ==
    /\ pc[c] = "sleeping"
    /\ nap[c] = 0
    /\ pc' = [pc EXCEPT ![c] = "begin"]
    /\ UNCHANGED <<config, preferred, failover, attempt, timers, outcome, last, result, ghosts>>

\* The caller may drop the future at any await.
Drop(c) ==
    /\ pc[c] \in {"inflight", "body", "sleeping"}
    /\ pc' = [pc EXCEPT ![c] = "dropped"]
    /\ UNCHANGED <<config, preferred, failover, attempt, timers, outcome, last, result, ghosts>>

\* A running timer, one tick on; one that has run out stays so.
Ticked(t) == IF t \in {None, 0} THEN t ELSE t - 1

Running(c) == ~Over(c) /\ ({left[c], timer[c], nap[c]} \ {None, 0}) # {}

Tick ==
    /\ \E c \in Calls : Running(c)
    /\ left'  = [c \in Calls |-> IF Over(c) THEN left[c] ELSE Ticked(left[c])]
    /\ timer' = [c \in Calls |-> IF Over(c) THEN timer[c] ELSE Ticked(timer[c])]
    /\ nap'   = [c \in Calls |-> IF Over(c) THEN nap[c] ELSE Ticked(nap[c])]
    /\ UNCHANGED <<config, preferred, loop, ghosts>>

\* Every call is over: nothing is left to happen.
Terminated ==
    /\ \A c \in Calls : Over(c)
    /\ UNCHANGED vars

-----------------------------------------------------------------------------
\* What the call's own task does as soon as it is polled.
Run(c) == Begin(c) \/ BeginTooLate(c) \/ Send(c) \/ Decide(c) \/ Wake(c)

Step(c) ==
    \/ Start(c)
    \/ Run(c)
    \/ Succeed(c)
    \/ Answer(c)
    \/ BodyRead(c)
    \/ Disconnect(c)
    \/ Expire(c)
    \/ OwnTimeout(c)
    \/ RefuseRedirect(c)
    \/ Drop(c)

Next == Tick \/ Terminated \/ \E c \in Calls : Step(c)

Spec == Init /\ [][Next]_vars

\* The runtime polls a woken task and its timers fire; no endpoint need ever
\* answer.
Fairness ==
    /\ WF_vars(Tick)
    /\ \A c \in Calls : WF_vars(Run(c)) /\ WF_vars(Expire(c))

FairSpec == Spec /\ Fairness

-----------------------------------------------------------------------------
(* Properties.                                                             *)

PcStates == {"idle", "begin", "send", "inflight", "body", "after", "sleeping",
             "done", "dropped"}

Reasons  == Statuses \cup {"connect", "timeout"}
Endings  == Reasons \cup {"io", "redirect", "pending"}
Entries  == [endpoint : Endpoints, outcome : Reasons, rotated : BOOLEAN]
Resends  == [kind : {"Rotation"}, from : Endpoints, reason : Reasons]
            \cup [kind : {"Retry"}, reason : Reasons]
Outcomes == [kind : {"Rotate", "Retry"}, reason : Reasons,
             retry_after : RetryAfters \cup {None}]
            \cup {Final}
Own      == [kind : {"Ok", "Api", "Transport"}, outcome : Endings]
Results  == [kind : {"DeadlineExceeded"}, attempts : Nat]
            \cup [kind : {"Ok", "EndpointsExhausted"}, outcome : Endings,
                  trace : Seq(Entries)]
            \cup [kind : {"Api", "Transport", "Config"}, outcome : Endings]

Failovers ==
    [len      : {inner.len},
     current  : Endpoints,
     attempts : Nat,
     pauses   : Nat,
     streak   : Nat,
     cycle    : {<< >>} \cup {<<d>> : d \in RetryAfters \cup {None}},
     pending  : Option(Resends),
     trace    : Seq(Entries)]

Attempts ==
    [of        : [endpoint : Endpoints, number : Nat, resend : Option(Resends)],
     remaining : Option(Duration)]

Sends ==
    [endpoint : Endpoints, outcome : Endings, late : Int,
     retry_after : RetryAfters \cup {None}, pause : Option(Duration)]

\* Neither the result of an attempt nor a pending re-send is an absent one.
ASSUME LastAssumption == None \notin Own

ASSUME ResendAssumption ==
    None \notin [kind : {"Rotation"}, from : Nat, reason : Reasons]
                \cup [kind : {"Retry"}, reason : Reasons]

\* Every variable keeps its type: in particular every endpoint a call names
\* is in the set it was built over, and no countdown goes below zero.
TypeOK ==
    /\ inner     \in Clients
    /\ preferred \in Endpoints
    /\ pc        \in [Calls -> PcStates]
    /\ request   \in [Calls -> Option(Requests)]
    /\ failover  \in [Calls -> Option(Failovers)]
    /\ attempt   \in [Calls -> Option(Attempts)]
    /\ left      \in [Calls -> Option(Duration)]
    /\ timer     \in [Calls -> Option(Duration)]
    /\ nap       \in [Calls -> Duration]
    /\ outcome   \in [Calls -> Option(Outcomes)]
    /\ last      \in [Calls -> Option(Own)]
    /\ result    \in [Calls -> Option(Results)]
    /\ sent      \in [Calls -> Seq(Sends)]
    /\ applied   \in [Calls -> BOOLEAN]

\* How many attempts the policy grants request c.
Budget(c) ==
    IF PolicyOf(c) = None THEN 1 ELSE Greatest(PolicyOf(c).max_attempts, 1)

\* A call never puts more requests on the wire than its policy grants, and
\* one that retries do not apply to is sent at most once, whatever endpoints
\* answer and however the set rotates.
AttemptBudget ==
    \A c \in Calls : pc[c] # "idle" => Len(sent[c]) <= Budget(c)

\* The attempts of call c, told from what went on the wire: its trace must
\* read exactly so, an entry being marked rotated when, and only when, the
\* next attempt went to another endpoint.
TraceOf(c, n) ==
    [i \in 1 .. n |->
        [endpoint |-> sent[c][i].endpoint,
         outcome  |-> sent[c][i].outcome,
         rotated  |-> i < Len(sent[c]) /\ sent[c][i + 1].endpoint # sent[c][i].endpoint]]

\* FailoverTrace: "Every attempt, in the order sent, the final one included".
\* An EndpointsExhausted error comes only from a call that left an endpoint
\* for another, carries every attempt that was sent, and its last error is
\* the last entry's.
ExhaustedTellsEverything ==
    \A c \in Calls :
        pc[c] = "done" /\ result[c].kind = "EndpointsExhausted" =>
            /\ result[c].trace = TraceOf(c, Len(sent[c]))
            /\ result[c].outcome = sent[c][Len(sent[c])].outcome
            /\ \E i \in 1 .. Len(sent[c]) : sent[c][i].endpoint # sent[c][1].endpoint

\* AttemptTrace: a returned response lists every attempt before it, and
\* itself only when it is an accepted status that asked for another try.
ResponseTellsTheRest ==
    \A c \in Calls :
        pc[c] = "done" /\ result[c].kind = "Ok" =>
            LET n     == Len(sent[c])
                final == sent[c][n].outcome
                asked == final \in request[c].retry_on
            IN  /\ result[c].trace = TraceOf(c, IF asked /\ ~IsSuccess(final) THEN n ELSE n - 1)
                /\ IsSuccess(final) \/ final \in request[c].accept

\* The report that attempt i of call c was re-sent, told from the wire.
ReportOf(c, i) ==
    LET from == sent[c][i]
        to   == sent[c][i + 1]
    IN  IF to.endpoint # from.endpoint
        THEN [kind |-> "on_rotation", endpoint |-> from.endpoint, reason |-> from.outcome]
        ELSE [kind |-> "on_retry", endpoint |-> to.endpoint, reason |-> from.outcome,
              number |-> i + 1]

\* RetryObserver: every attempt a request sends except the last is reported
\* to its observer exactly once, in send order, with that attempt's endpoint
\* and outcome, at the moment the next one is sent.
ObserverHearsEveryResend ==
    \A c \in Calls :
        pc[c] # "idle" /\ request[c].observer =>
            heard[c] = [i \in 1 .. Len(heard[c]) |-> ReportOf(c, i)]
            /\ Len(heard[c]) = Greatest(Len(sent[c]) - 1, 0)

ResendsMade == UNION {{c} \X (1 .. Len(sent[c]) - 1) : c \in Calls}

\* RetryObserver: the client's observer hears the union of what is re-sent by
\* every call, so its counts add up across calls.
ClientObserverHearsTheUnion ==
    inner.observer =>
        told = [r \in {ReportOf(x[1], x[2]) : x \in ResendsMade} |->
                   Cardinality({x \in ResendsMade : ReportOf(x[1], x[2]) = r})]

\* An attempt that gave a definitive answer: a response whose status is not
\* one the request rotates on.
Definitive(c, i) ==
    /\ sent[c][i].outcome \notin {"pending", "connect", "timeout", "io", "redirect"}
    /\ sent[c][i].outcome \notin request[c].retry_on \/ IsSuccess(sent[c][i].outcome)

\* ServiceClient::preferred_endpoint: a connect failure, a timeout and a
\* rotation status never move the preference, so it names the first endpoint
\* or one that answered some call definitively.
PreferenceWasEarned ==
    \/ preferred = 0
    \/ \E c \in Calls : \E i \in DOMAIN sent[c] :
          sent[c][i].endpoint = preferred /\ Definitive(c, i)

\* A call that ends on a definitive answer leaves the preference where that
\* answer came from, so the next call starts there.
DefinitiveAnswerIsPreferred ==
    [][\A c \in Calls :
          pc[c] = "inflight" /\ sent'[c] # sent[c] =>
              preferred' = IF Definitive(c, Len(sent[c]))'
                           THEN attempt[c].of.endpoint ELSE preferred]_vars

\* Within a call no endpoint is tried twice without a pause in between: a
\* rotation is immediate only while endpoints not yet tried remain.
NoEndpointRetriedAtOnce ==
    \A c \in Calls : \A i, j \in DOMAIN sent[c] :
        i < j /\ sent[c][i].endpoint = sent[c][j].endpoint =>
            \E k \in i .. j - 1 : sent[c][k].pause # None

\* What a pause after attempt i answers to: every attempt since the pause or
\* the retry in place before it, which is the whole set, when it ends a cycle
\* of rotations, and attempt i alone when the same endpoint is tried again.
Cycle(c, i) ==
    IF inner.len > 1 /\ sent[c][i].outcome \in request[c].retry_on \cup {"connect", "timeout"}
    THEN i - inner.len + 1 .. i ELSE {i}

\* The pause after attempt i of call c is the smallest Retry-After of its cycle
\* when every attempt of it came with one, and else the backoff, which counts
\* pauses, not attempts, and has the whole milliseconds of base_delay for its
\* floor.
PauseAnswers(c, i) ==
    LET asked   == {sent[c][k].retry_after : k \in Cycle(c, i)}
        number  == Cardinality({k \in 1 .. i : sent[c][k].pause # None})
        ceiling == BackoffDelay(inner.retry, number)
        floor   == FromMillis(DurationMs(inner.retry.base_delay))
    IN  IF None \in asked
        THEN /\ sent[c][i].pause <= ceiling
             /\ sent[c][i].pause >= Least(floor, ceiling)
             /\ inner.retry.jitter = "None" => sent[c][i].pause = ceiling
        ELSE sent[c][i].pause \in asked
             /\ \A d \in asked : sent[c][i].pause <= d

\* Every pause answers to its cycle so.
PauseAnswersItsCycle ==
    \A c \in Calls : \A i \in DOMAIN sent[c] :
        sent[c][i].pause # None => PauseAnswers(c, i)

\* A pause always ends before the deadline it was checked against.
SleepEndsBeforeDeadline ==
    \A c \in Calls :
        pc[c] = "sleeping" /\ left[c] # None /\ nap[c] > 0 => nap[c] < left[c]

\* deadline_at: "Bound this request, every attempt and pause included": an
\* attempt sent under a deadline is cut short when it passes, or at most as
\* much later as the observers had kept the call since it read the clock.
AttemptEndsWithTheDeadline ==
    \A c \in Calls :
        pc[c] \in {"inflight", "body"} /\ left[c] # None =>
            /\ timer[c] # None
            /\ timer[c] <= left[c] + sent[c][Len(sent[c])].late

\* ClientError::DeadlineExceeded is returned exactly when nothing was sent.
DeadlineExceededMeansNothingSent ==
    \A c \in Calls :
        pc[c] = "done" => (result[c].kind = "DeadlineExceeded" <=> sent[c] = << >>)

\* RetryObserver, "Where each result's record lives": an error without a
\* trace is the single-endpoint path, or a set's call that never rotated.
TracelessErrorNeverRotated ==
    \A c \in Calls :
        pc[c] = "done" /\ result[c].kind \in {"Api", "Transport"} =>
            \A i \in DOMAIN sent[c] : sent[c][i].endpoint = sent[c][1].endpoint

\* What a caller may conclude from the record of a call that returned: an
\* exhausted set, or an accepted response listed in its own trace.
ProofOfNotProcessed(c) ==
    \/ /\ result[c].kind = "EndpointsExhausted"
       /\ TraceProvesNotProcessed(result[c].trace)
    \/ /\ result[c].kind = "Ok"
       /\ TraceProvesNotProcessed(result[c].trace)
       /\ result[c].trace # << >>
       /\ result[c].trace[Len(result[c].trace)].outcome = result[c].outcome
       /\ result[c].outcome \in request[c].retry_on

\* FailoverTrace::proves_not_processed: when every attempt's outcome proves
\* its endpoint did not process the request, nothing was applied anywhere.
\* Module Redirects says what becomes of it when an endpoint redirects.
NotProcessedIsSound ==
    \A c \in Calls : pc[c] = "done" /\ ProofOfNotProcessed(c) => ~applied[c]

\* The same from the other record: the reports of a request's own observer,
\* and its result.
ObserverProofIsSound ==
    \A c \in Calls :
        /\ pc[c] = "done"
        /\ request[c].observer
        /\ result[c].kind # "DeadlineExceeded"
        /\ ProvesNotProcessed(result[c].outcome)
        /\ \A i \in DOMAIN heard[c] : ProvesNotProcessed(heard[c][i].reason)
        => ~applied[c]

\* A call with a deadline comes to an end, though no endpoint ever answers:
\* its attempts are cut short, its pauses end, and its budget is finite.
DeadlineEndsTheCall ==
    \A c \in Calls : (pc[c] = "begin" /\ left[c] # None) ~> Over(c)
=============================================================================
