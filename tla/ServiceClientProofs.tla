-------------------------- MODULE ServiceClientProofs --------------------------
(***************************************************************************)
(* ServiceClient's safety properties, for any number of calls, any sets,   *)
(* clients, policies, requests and durations, and any interleaving: what   *)
(* the failover state machine preserves, then, part by part, the type and  *)
(* the attempt budget, deadlines, the shared preference, the record a call *)
(* returns, and what a caller may conclude from it.  Each part adds to the *)
(* inductive invariant what its properties need.                           *)
(***************************************************************************)
EXTENDS ServiceClient, RetryPolicyProofs, SequenceTheorems

-----------------------------------------------------------------------------
(***************************************************************************)
(* What the failover state machine preserves, operator by operator: its    *)
(* record keeps its type, an attempt is counted when it is begun and never *)
(* otherwise, and a call goes on only within the policy's budget.          *)
(***************************************************************************)

\* The answers of After: the type of its result.
Steps == [failover : Failovers, stop : {None, "Raw", "Exhausted"},
          pause : Option(Duration)]

\* The client is one of those built, and its set is not empty.
LEMMA InnerType ==
    ASSUME inner \in Clients
    PROVE  /\ inner.len \in Nat \ {0}
           /\ inner.retry \in Option(Policies)
           /\ inner.retry # None => inner.retry.max_attempts <= MaxCount
           /\ inner.attempt_timeout \in Option(Duration)
           /\ \A e \in Endpoints : inner.slots[e] \in Option(Duration)
    BY ClientsAssumption DEF Endpoints

LEMMA NewType ==
    ASSUME inner \in Clients, preferred \in Endpoints
    PROVE  /\ New(inner.len, preferred % inner.len) \in Failovers
           /\ New(inner.len, preferred % inner.len).attempts = 0
<1> DEFINE f == New(inner.len, preferred % inner.len)
<1>1. inner.len \in Nat \ {0}
    BY InnerType
<1>2. Greatest(inner.len, 1) = inner.len
    BY <1>1 DEF Greatest
<1>3. (preferred % inner.len) % inner.len \in Endpoints
    BY <1>1 DEF Endpoints
<1>4. << >> \in Seq(Entries)
    OBVIOUS
<1> QED BY <1>2, <1>3, <1>4 DEF New, Failovers, Option

LEMMA SaturatingIncType ==
    ASSUME NEW n \in Nat
    PROVE  /\ SaturatingInc(n) \in Nat
           /\ n < MaxCount => SaturatingInc(n) = n + 1
    BY MaxCountAssumption DEF SaturatingInc, Least

LEMMA MarkedType ==
    ASSUME NEW e \in Entries
    PROVE  [e EXCEPT !.rotated = TRUE] \in Entries
    BY DEF Entries

\* Failover::begin counts the attempt, and leaves the endpoint alone.
LEMMA BegunType ==
    ASSUME NEW f \in Failovers
    PROVE  /\ Begun(f) \in Failovers
           /\ Begun(f).attempts = SaturatingInc(f.attempts)
           /\ NextAttempt(f) \in [endpoint : Endpoints, number : Nat, resend : Option(Resends)]
<1>1. SaturatingInc(f.attempts) \in Nat
    BY SaturatingIncType DEF Failovers
<1>2. ASSUME f.trace # << >>
      PROVE  [f.trace EXCEPT ![Len(f.trace)].rotated = TRUE] \in Seq(Entries)
    <2>1. f.trace \in Seq(Entries) /\ Len(f.trace) \in 1 .. Len(f.trace)
        BY <1>2 DEF Failovers
    <2>2. [f.trace[Len(f.trace)] EXCEPT !.rotated = TRUE] \in Entries
        <3>1. f.trace[Len(f.trace)] \in Entries
            BY <2>1, ElementOfSeq
        <3> QED BY <3>1, MarkedType
    <2> QED BY <2>1, <2>2, ExceptSeq
<1>3. Begun(f).trace \in Seq(Entries)
    BY <1>2 DEF Begun, Failovers
<1>4. /\ Begun(f).len = f.len /\ Begun(f).current = f.current
      /\ Begun(f).attempts = SaturatingInc(f.attempts)
      /\ Begun(f) \in [len : {inner.len}, current : Endpoints, attempts : Nat, pauses : Nat,
                       streak : Nat, cycle : {<< >>} \cup {<<d>> : d \in RetryAfters \cup {None}},
                       pending : Option(Resends), trace : Seq(Entries)]
    BY <1>1, <1>3 DEF Begun, Failovers, Option
<1> QED BY <1>1, <1>4 DEF NextAttempt, Failovers

LEMMA TracedType ==
    ASSUME NEW f \in Failovers, NEW reason \in Reasons
    PROVE  Traced(f, reason) \in Failovers /\ Traced(f, reason).attempts = f.attempts
<1>1. [endpoint |-> f.current, outcome |-> reason, rotated |-> FALSE] \in Entries
    BY DEF Failovers, Entries
<1>2. Append(f.trace, [endpoint |-> f.current, outcome |-> reason, rotated |-> FALSE])
          \in Seq(Entries)
    BY <1>1, AppendProperties DEF Failovers
<1> QED BY <1>2 DEF Traced, Failovers

LEMMA CycleRetryAfterType ==
    ASSUME NEW f \in Failovers, NEW retryAfter \in RetryAfters \cup {None}
    PROVE  CycleRetryAfter(f, retryAfter) \in RetryAfters \cup {None}
<1>1. CASE f.cycle = << >>
    BY <1>1 DEF CycleRetryAfter
<1>2. CASE f.cycle # << >>
    <2>1. PICK d \in RetryAfters \cup {None} : f.cycle = << d >>
        BY <1>2 DEF Failovers
    <2>2. f.cycle[1] = d
        BY <2>1
    <2> QED BY <1>2, <2>1, <2>2 DEF CycleRetryAfter, Least
<1> QED BY <1>1, <1>2

LEMMA SpentType ==
    ASSUME NEW f
    PROVE  Spent(f) \in {"Raw", "Exhausted"}
    BY DEF Spent

\* Failover::pause: it stops, or goes on with a pause, and counts it.
LEMMA TakePauseType ==
    ASSUME NEW f \in Failovers, NEW policy \in Policies,
           NEW retryAfter \in RetryAfters \cup {None}, NEW draw \in Draws,
           NEW remaining \in Option(Duration)
    PROVE  LET step == TakePause(f, policy, retryAfter, draw, remaining)
           IN  step \in Steps /\ step.failover.attempts = f.attempts
<1> DEFINE pause == IF retryAfter # None
                    THEN FitsBefore(retryAfter, remaining)
                    ELSE Pause(policy, SaturatingInc(f.pauses), draw, remaining)
           g == [f EXCEPT !.pauses = SaturatingInc(f.pauses)]
<1>1. SaturatingInc(f.pauses) \in Nat
    BY SaturatingIncType DEF Failovers
<1>2. pause \in Option(Duration)
    <2>1. CASE retryAfter # None
        <3>1. retryAfter \in Duration
            BY <2>1, RetryAfterAssumption DEF Option
        <3> QED BY <2>1, <3>1 DEF FitsBefore, Option
    <2>2. CASE retryAfter = None
        BY <1>1, <2>2, PauseType
    <2> QED BY <2>1, <2>2
<1>3. g \in Failovers /\ g.attempts = f.attempts
    BY <1>1 DEF Failovers
<1>4. TakePause(f, policy, retryAfter, draw, remaining)
          = IF pause = None THEN Halt(f, Spent(f)) ELSE GoOn(g, pause)
    BY DEF TakePause
<1> HIDE DEF pause, g
<1>5. Halt(f, Spent(f)) \in Steps /\ Halt(f, Spent(f)).failover = f
    BY SpentType DEF Halt, Steps, Option
<1>6. GoOn(g, pause) \in Steps /\ GoOn(g, pause).failover = g
    BY <1>2, <1>3 DEF GoOn, Steps, Option
<1> QED BY <1>3, <1>4, <1>5, <1>6

LEMMA ResendingType ==
    ASSUME NEW step \in Steps, NEW resend \in Resends
    PROVE  /\ Resending(step, resend) \in Steps
           /\ Resending(step, resend).failover.attempts = step.failover.attempts
<1> DEFINE g == [step.failover EXCEPT !.pending = resend]
<1>1. step.failover \in Failovers
    BY DEF Steps
<1>2. g \in Failovers /\ g.attempts = step.failover.attempts
    BY <1>1 DEF Failovers, Option
<1>3. Resending(step, resend) = [step EXCEPT !.failover = g]
    BY DEF Resending
<1> HIDE DEF g
<1> QED BY <1>2, <1>3 DEF Steps

\* Failover::rotate: the next endpoint is one of the set.
LEMMA RotateType ==
    ASSUME inner \in Clients,
           NEW f \in Failovers, NEW policy \in Policies, NEW reason \in Reasons,
           NEW retryAfter \in RetryAfters \cup {None}, NEW draw \in Draws,
           NEW remaining \in Option(Duration)
    PROVE  LET step == Rotate(f, policy, reason, retryAfter, draw, remaining)
           IN  step \in Steps /\ step.failover.attempts = f.attempts
<1> DEFINE smallest == CycleRetryAfter(f, retryAfter)
           asked    == IF EndsCycle(f) THEN << >> ELSE << smallest >>
           counted  == [f EXCEPT !.streak = f.streak + 1, !.cycle = asked]
           step     == IF EndsCycle(f)
                       THEN TakePause(counted, policy, smallest, draw, remaining)
                       ELSE GoOn(counted, None)
           moved    == [step EXCEPT !.failover.current = (step.failover.current + 1) % f.len]
           resend   == [kind |-> "Rotation", from |-> f.current, reason |-> reason]
<1>1. smallest \in RetryAfters \cup {None}
    BY CycleRetryAfterType
<1>2. counted \in Failovers /\ counted.attempts = f.attempts
    <2> HIDE DEF smallest
    <2>1. asked \in {<< >>} \cup {<<d>> : d \in RetryAfters \cup {None}}
        BY <1>1
    <2> HIDE DEF asked
    <2>2. f.streak + 1 \in Nat
        BY DEF Failovers
    <2> QED BY <2>1, <2>2 DEF Failovers
<1>3. Rotate(f, policy, reason, retryAfter, draw, remaining)
          = IF step.stop # None THEN step ELSE Resending(moved, resend)
    BY DEF Rotate
<1> HIDE DEF smallest, counted
<1>4. GoOn(counted, None) \in Steps /\ GoOn(counted, None).failover = counted
    BY <1>2 DEF GoOn, Steps, Option
<1>5. step \in Steps /\ step.failover.attempts = f.attempts
    BY <1>1, <1>2, <1>4, TakePauseType
<1> HIDE DEF step
<1>6. moved \in Steps /\ moved.failover.attempts = step.failover.attempts
    <2> DEFINE next == (step.failover.current + 1) % f.len
               g    == [step.failover EXCEPT !.current = next]
    <2>1. step.failover \in Failovers
        BY <1>5 DEF Steps
    <2>2. next \in Endpoints
        <3>1. step.failover.current \in Nat /\ f.len = inner.len
            BY <2>1, InnerType DEF Failovers, Endpoints
        <3> QED BY <3>1, InnerType DEF Endpoints
    <2>3. moved = [step EXCEPT !.failover = g]
        OBVIOUS
    <2> HIDE DEF next, moved
    <2>4. g \in Failovers /\ g.attempts = step.failover.attempts
        BY <2>1, <2>2 DEF Failovers
    <2> HIDE DEF g
    <2> QED BY <1>5, <2>3, <2>4 DEF Steps
<1>7. resend \in Resends
    BY DEF Resends, Failovers
<1> HIDE DEF moved, resend
<1> QED BY <1>3, <1>5, <1>6, <1>7, ResendingType

LEMMA RetryInPlaceType ==
    ASSUME NEW f \in Failovers, NEW policy \in Policies, NEW reason \in Reasons,
           NEW retryAfter \in RetryAfters \cup {None}, NEW draw \in Draws,
           NEW remaining \in Option(Duration)
    PROVE  LET step == RetryInPlace(f, policy, reason, retryAfter, draw, remaining)
           IN  step \in Steps /\ step.failover.attempts = f.attempts
<1> DEFINE reset  == [f EXCEPT !.streak = 0, !.cycle = << >>]
           step   == TakePause(reset, policy, retryAfter, draw, remaining)
           resend == [kind |-> "Retry", reason |-> reason]
<1>1. reset \in Failovers /\ reset.attempts = f.attempts
    BY DEF Failovers
<1>2. RetryInPlace(f, policy, reason, retryAfter, draw, remaining)
          = IF step.stop # None THEN step ELSE Resending(step, resend)
    BY DEF RetryInPlace
<1> HIDE DEF reset
<1>3. step \in Steps /\ step.failover.attempts = f.attempts
    BY <1>1, TakePauseType
<1>4. resend \in Resends
    BY DEF Resends
<1> HIDE DEF step, resend
<1> QED BY <1>2, <1>3, <1>4, ResendingType

\* Failover::after: it goes on only when retries apply and the policy grants
\* another attempt, and never counts one.
LEMMA AfterType ==
    ASSUME inner \in Clients,
           NEW f \in Failovers, NEW out \in Outcomes, NEW policy \in Option(Policies),
           NEW draw \in Draws, NEW remaining \in Option(Duration)
    PROVE  LET step == After(f, out, policy, draw, remaining)
           IN  /\ step \in Steps
               /\ step.failover.attempts = f.attempts
               /\ step.stop = None => policy # None /\ ShouldRetry(policy, f.attempts)
<1> DEFINE g    == Traced(f, out.reason)
           step == After(f, out, policy, draw, remaining)
<1>1. ASSUME NEW h \in Failovers, NEW why \in {"Raw", "Exhausted"}
      PROVE  /\ Halt(h, why) \in Steps
             /\ Halt(h, why).failover = h
             /\ Halt(h, why).stop # None
    BY <1>1, StopAssumption DEF Halt, Steps, Option
<1>2. CASE out.kind = "Final"
    <2>1. step = Halt(f, "Raw")
        BY <1>2 DEF After
    <2> QED BY <1>1, <2>1
<1>3. CASE out.kind # "Final"
    <2>1. out.reason \in Reasons /\ out.retry_after \in RetryAfters \cup {None}
        BY <1>3 DEF Outcomes, Final
    <2>2. g \in Failovers /\ g.attempts = f.attempts
        BY <2>1, TracedType
    <2> HIDE DEF g
    <2>3. CASE policy = None
        <3>1. step = Halt(g, "Raw")
            BY <1>3, <2>3 DEF After, g
        <3> QED BY <1>1, <2>2, <3>1
    <2>4. CASE policy # None /\ ~ShouldRetry(policy, g.attempts)
        <3>1. step = Halt(g, Spent(g))
            BY <1>3, <2>4 DEF After, g
        <3> QED BY <1>1, <2>2, <3>1, SpentType
    <2>5. CASE policy # None /\ ShouldRetry(policy, g.attempts)
        <3>1. policy \in Policies
            BY <2>5 DEF Option
        <3>2. step = IF g.len > 1 /\ IsRotation(out)
                     THEN Rotate(g, policy, out.reason, out.retry_after, draw, remaining)
                     ELSE RetryInPlace(g, policy, out.reason, out.retry_after, draw, remaining)
            BY <1>3, <2>5 DEF After, g
        <3> HIDE DEF step
        <3>3. step \in Steps /\ step.failover.attempts = g.attempts
            BY <2>1, <2>2, <3>1, <3>2, RotateType, RetryInPlaceType
        <3> QED BY <2>2, <2>5, <3>3 DEF step
    <2> QED BY <2>3, <2>4, <2>5
<1> QED BY <1>2, <1>3

-----------------------------------------------------------------------------
(***************************************************************************)
(* Type correctness of ServiceClient and its attempt budget, for any       *)
(* number of calls, clients and requests and for any durations.            *)
(*                                                                         *)
(* Neither is inductive alone.  TypeOK says a call's failover or attempt   *)
(* may be None; that it is not, where the call uses it, is CallOK.  That a *)
(* call is within its budget needs the counter Failover keeps to agree     *)
(* with what was sent, and a call about to begin an attempt to have one    *)
(* left, which is BudgetOK.                                                *)
(***************************************************************************)

\* A call has, at each place, what the code there has in its hands.
CallOK(c) ==
    /\ pc[c] # "idle" => request[c] \in Requests /\ failover[c] \in Failovers
    /\ pc[c] \in {"send", "inflight", "body", "after"} => attempt[c] \in Attempts
    /\ pc[c] \in {"body", "after"} => outcome[c] \in Outcomes /\ last[c] \in Own

\* What was sent is what Failover counts, but for the attempt decided and not
\* sent yet; and another attempt is begun only with budget left for it.
BudgetOK(c) ==
    /\ pc[c] = "idle" => sent[c] = << >>
    /\ pc[c] \notin {"idle", "send"} => Len(sent[c]) = failover[c].attempts
    /\ pc[c] = "send" => Len(sent[c]) + 1 = failover[c].attempts
    /\ pc[c] # "idle" => failover[c].attempts <= Budget(c)
    /\ pc[c] \in {"begin", "sleeping"} => failover[c].attempts < Budget(c)
    /\ pc[c] \in {"inflight", "body", "after", "sleeping"} => sent[c] # << >>

IInv == TypeOK /\ \A c \in Calls : CallOK(c) /\ BudgetOK(c)

-----------------------------------------------------------------------------
(* The client is fixed, and with it every set that depends on it.          *)

LEMMA SameClient ==
    ASSUME inner' = inner
    PROVE  /\ Endpoints' = Endpoints
           /\ Entries'   = Entries
           /\ Resends'   = Resends
           /\ Failovers' = Failovers
           /\ Attempts'  = Attempts
           /\ Sends'     = Sends
           /\ Results'   = Results
    BY DEF Endpoints, Entries, Resends, Failovers, Attempts, Sends, Results

LEMMA BudgetType ==
    ASSUME inner \in Clients, NEW c \in Calls
    PROVE  /\ PolicyOf(c) \in Option(Policies)
           /\ Budget(c) \in Nat
           /\ 1 <= Budget(c)
           /\ Budget(c) <= MaxCount
<1>1. inner.retry \in Option(Policies)
      /\ (inner.retry # None => inner.retry.max_attempts <= MaxCount)
    BY InnerType
<1>2. PolicyOf(c) \in {inner.retry, None}
    BY DEF PolicyOf
<1>3. PolicyOf(c) # None => PolicyOf(c).max_attempts \in Nat /\ PolicyOf(c).max_attempts <= MaxCount
    BY <1>1, <1>2 DEF Option, Policies
<1> QED BY <1>1, <1>2, <1>3, MaxCountAssumption DEF Budget, Greatest, Option

LEMMA SameBudget ==
    ASSUME inner' = inner, NEW c \in Calls, request'[c] = request[c]
    PROVE  Budget(c)' = Budget(c)
    BY DEF Budget, PolicyOf

LEMMA InitType == Init => IInv
<1> SUFFICES ASSUME Init PROVE IInv
    OBVIOUS
<1>1. 0 \in Endpoints
    BY InnerType DEF Init, Endpoints
<1>2. TypeOK
    BY <1>1 DEF Init, TypeOK, Option, PcStates, Duration
<1>3. \A c \in Calls : CallOK(c) /\ BudgetOK(c)
    BY DEF Init, CallOK, BudgetOK
<1> QED BY <1>2, <1>3 DEF IInv

-----------------------------------------------------------------------------
(* One step per action.                                                    *)

LEMMA StartKeeps ==
    ASSUME IInv, NEW c \in Calls, Start(c)
    PROVE  IInv'
<1> USE DEF config, timers, ghosts
<1>1. inner' = inner /\ inner \in Clients /\ preferred \in Endpoints
    BY DEF IInv, TypeOK, Start
<1>2. PICK r \in Requests : /\ request' = [request EXCEPT ![c] = r]
                            /\ left'    = [left EXCEPT ![c] = DeadlineOf(r)]
    BY DEF Start
<1>3. DeadlineOf(r) \in Option(Duration)
    <2>1. r.deadline \in Option(Duration)
        BY RequestsAssumption DEF RequestType
    <2>2. inner.retry # None => inner.retry.deadline \in Option(Duration)
        BY <1>1, InnerType DEF Option, Policies
    <2> QED BY <2>1, <2>2 DEF DeadlineOf, Or, Option
<1> DEFINE f == New(inner.len, preferred % inner.len)
<1>4. f \in Failovers /\ f.attempts = 0
    BY <1>1, NewType
<1>5. failover' = [failover EXCEPT ![c] = f] /\ pc' = [pc EXCEPT ![c] = "begin"]
    BY DEF Start
<1> HIDE DEF f
<1>6. TypeOK'
    BY <1>1, <1>2, <1>3, <1>4, <1>5, SameClient DEF IInv, TypeOK, Start, Option, PcStates
<1>7. ASSUME NEW d \in Calls PROVE CallOK(d)'
    BY <1>1, <1>2, <1>4, <1>5, SameClient DEF IInv, TypeOK, CallOK, Start
<1>8. ASSUME NEW d \in Calls PROVE BudgetOK(d)'
    <2>1. CASE d = c
        <3>1. Budget(c)' \in Nat /\ 1 <= Budget(c)'
            <4>1. inner.retry # None => inner.retry.max_attempts \in Nat
                BY <1>1, InnerType DEF Option, Policies
            <4>2. PolicyOf(c)' \in {inner.retry, None}
                BY <1>1 DEF PolicyOf
            <4> QED BY <4>1, <4>2 DEF Budget, Greatest
        <3> QED BY <2>1, <3>1, <1>4, <1>5 DEF IInv, TypeOK, BudgetOK, Start
    <2>2. CASE d # c
        <3>1. Budget(d)' = Budget(d)
            BY <1>1, <1>2, <2>2, SameBudget DEF IInv, TypeOK
        <3> QED BY <2>2, <3>1, <1>5 DEF IInv, TypeOK, BudgetOK, Start
    <2> QED BY <2>1, <2>2
<1> QED BY <1>6, <1>7, <1>8 DEF IInv

LEMMA BeginKeeps ==
    ASSUME IInv, NEW c \in Calls, Begin(c)
    PROVE  IInv'
<1> USE DEF config, timers, ghosts
<1>1. inner' = inner /\ inner \in Clients /\ request' = request
    BY DEF IInv, TypeOK, Begin
<1> DEFINE f == failover[c]
           g == Begun(f)
           a == [of |-> NextAttempt(f), remaining |-> left[c]]
<1>2. f \in Failovers
    BY DEF IInv, CallOK, Begin
<1>3. g \in Failovers /\ g.attempts = f.attempts + 1
    <2>1. f.attempts \in Nat /\ f.attempts < MaxCount
        BY <1>1, <1>2, BudgetType, MaxCountAssumption DEF IInv, BudgetOK, Begin, Failovers
    <2> QED BY <1>2, <2>1, BegunType, SaturatingIncType
<1>4. a \in Attempts
    BY <1>2, BegunType DEF IInv, TypeOK, Attempts
<1>5. /\ attempt' = [attempt EXCEPT ![c] = a]
      /\ failover' = [failover EXCEPT ![c] = g]
      /\ pc' = [pc EXCEPT ![c] = "send"]
    BY DEF Begin
<1> HIDE DEF g, a
<1>6. TypeOK'
    BY <1>1, <1>3, <1>4, <1>5, SameClient DEF IInv, TypeOK, Begin, Option, PcStates
<1>7. ASSUME NEW d \in Calls PROVE CallOK(d)'
    BY <1>1, <1>3, <1>4, <1>5, SameClient DEF IInv, TypeOK, CallOK, Begin
<1>8. ASSUME NEW d \in Calls PROVE BudgetOK(d)'
    <2>1. Budget(d)' = Budget(d) /\ Budget(d) \in Nat
        BY <1>1, SameBudget, BudgetType
    <2>2. f.attempts \in Nat /\ Len(sent[c]) = f.attempts
        BY <1>2 DEF IInv, BudgetOK, Begin, Failovers
    <2> QED BY <2>1, <2>2, <1>3, <1>5 DEF IInv, TypeOK, BudgetOK, Begin
<1> QED BY <1>6, <1>7, <1>8 DEF IInv

\* The result of a call that stops, whatever it stops for.
LEMMA ResultType ==
    ASSUME NEW why, NEW f \in Failovers, NEW lst \in Option(Own)
    PROVE  ResultOf(why, f, lst) \in Results
    BY DEF ResultOf, Results, Own, Option, Failovers

LEMMA BeginTooLateKeeps ==
    ASSUME IInv, NEW c \in Calls, BeginTooLate(c)
    PROVE  IInv'
<1> USE DEF config, timers, ghosts
<1>1. inner' = inner /\ inner \in Clients /\ request' = request
    BY DEF IInv, TypeOK, BeginTooLate
<1> DEFINE r == ResultOf(BeginStop(failover[c]), failover[c], last[c])
<1>2. r \in Results
    BY ResultType DEF IInv, TypeOK, CallOK, BeginTooLate
<1>3. result' = [result EXCEPT ![c] = r] /\ pc' = [pc EXCEPT ![c] = "done"]
    BY DEF BeginTooLate
<1> HIDE DEF r
<1>4. TypeOK'
    BY <1>1, <1>2, <1>3, SameClient DEF IInv, TypeOK, BeginTooLate, Option, PcStates
<1>5. ASSUME NEW d \in Calls PROVE CallOK(d)'
    BY <1>1, <1>3, SameClient DEF IInv, TypeOK, CallOK, BeginTooLate
<1>6. ASSUME NEW d \in Calls PROVE BudgetOK(d)'
    <2>1. Budget(d)' = Budget(d)
        BY <1>1, SameBudget
    <2> QED BY <2>1, <1>3 DEF IInv, TypeOK, BudgetOK, BeginTooLate
<1> QED BY <1>4, <1>5, <1>6 DEF IInv

LEMMA SendKeeps ==
    ASSUME IInv, NEW c \in Calls, Send(c)
    PROVE  IInv'
<1> USE DEF config, timers, ghosts
<1>1. inner' = inner /\ inner \in Clients /\ request' = request
    BY DEF IInv, TypeOK, Send
<1> DEFINE a    == attempt[c].of
           slot == inner.slots[a.endpoint]
           t    == Or(AttemptTimeout(request[c].timeout, inner.attempt_timeout, slot,
                                     attempt[c].remaining), slot)
           e    == [endpoint |-> a.endpoint, outcome |-> "pending", late |-> Late(c),
                    retry_after |-> None, pause |-> None]
<1>2. a.endpoint \in Endpoints /\ attempt[c].remaining \in Option(Duration)
    BY DEF IInv, CallOK, Send, Attempts
<1>3. t \in Option(Duration)
    <2>1. slot \in Option(Duration) /\ inner.attempt_timeout \in Option(Duration)
        BY <1>1, <1>2, InnerType
    <2>2. request[c].timeout \in Option(Duration)
        BY RequestsAssumption DEF IInv, CallOK, Send, RequestType
    <2> HIDE DEF slot
    <2> QED BY <1>2, <2>1, <2>2, NoneAssumption
            DEF AttemptTimeout, Or, Least, Option, Duration
<1>4. e \in Sends
    <2>1. Late(c) \in Int
        BY <1>2 DEF IInv, TypeOK, Late, Option, Duration
    <2> QED BY <1>2, <2>1 DEF Sends, Endings, Option
<1>5. /\ timer' = [timer EXCEPT ![c] = t]
      /\ sent'  = [sent EXCEPT ![c] = Append(sent[c], e)]
      /\ pc'    = [pc EXCEPT ![c] = "inflight"]
    BY DEF Send
<1> HIDE DEF a, slot, t, e
<1>6. sent[c] \in Seq(Sends)
    BY DEF IInv, TypeOK
<1>7. /\ Append(sent[c], e) \in Seq(Sends)
      /\ Append(sent[c], e) # << >>
      /\ Len(Append(sent[c], e)) = Len(sent[c]) + 1
    BY <1>4, <1>6, AppendProperties
<1> DEFINE s == Append(sent[c], e)
<1> HIDE DEF s
<1>8. TypeOK'
    BY <1>1, <1>3, <1>5, <1>7, SameClient DEF IInv, TypeOK, Send, PcStates, s
<1>9. ASSUME NEW d \in Calls PROVE CallOK(d)'
    BY <1>1, <1>5, SameClient DEF IInv, TypeOK, CallOK, Send
<1>10. ASSUME NEW d \in Calls PROVE BudgetOK(d)'
    <2>1. Budget(d)' = Budget(d)
        BY <1>1, SameBudget
    <2> QED BY <2>1, <1>5, <1>7 DEF IInv, TypeOK, BudgetOK, Send
<1> QED BY <1>8, <1>9, <1>10 DEF IInv

-----------------------------------------------------------------------------
(* How an attempt ends: the history keeps its length and its type.         *)

LEMMA EndedType ==
    ASSUME sent \in [Calls -> Seq(Sends)], NEW c \in Calls, sent[c] # << >>,
           NEW how \in Endings, NEW retryAfter \in RetryAfters \cup {None}
    PROVE  /\ Ended(c, how, retryAfter) \in [Calls -> Seq(Sends)]
           /\ Ended(c, how, retryAfter)[c] # << >>
           /\ \A d \in Calls : Len(Ended(c, how, retryAfter)[d]) = Len(sent[d])
           /\ \A d \in Calls : d # c => Ended(c, how, retryAfter)[d] = sent[d]
<1> DEFINE n == Len(sent[c])
           e == [sent[c][n] EXCEPT !.outcome = how, !.retry_after = retryAfter]
           s == [sent[c] EXCEPT ![n] = e]
<1>1. sent[c] \in Seq(Sends) /\ n \in 1 .. n /\ n \in Nat \ {0}
    BY EmptySeq
<1>2. sent[c][n] \in Sends
    BY <1>1, ElementOfSeq
<1>3. e \in Sends
    <2> SUFFICES ASSUME NEW x \in Sends
                 PROVE  [x EXCEPT !.outcome = how, !.retry_after = retryAfter] \in Sends
        BY <1>2
    <2> QED BY DEF Sends
<1>4. Ended(c, how, retryAfter) = [sent EXCEPT ![c] = s]
    BY DEF Ended
<1> HIDE DEF e
<1>5. s \in Seq(Sends) /\ Len(s) = n
    BY <1>1, <1>3, ExceptSeq
<1>6. s # << >>
    BY <1>1, <1>5, EmptySeq
<1> HIDE DEF s
<1> QED BY <1>4, <1>5, <1>6

LEMMA InFlightType ==
    ASSUME IInv, NEW c \in Calls, pc[c] \in {"inflight", "body", "after"}
    PROVE  /\ inner \in Clients
           /\ sent \in [Calls -> Seq(Sends)]
           /\ sent[c] # << >>
           /\ failover[c] \in Failovers
           /\ request[c] \in RequestType
           /\ attempt[c].of.endpoint \in Endpoints
    BY RequestsAssumption DEF IInv, TypeOK, CallOK, BudgetOK, Attempts

LEMMA SucceedKeeps ==
    ASSUME IInv, NEW c \in Calls, Succeed(c)
    PROVE  IInv'
<1> USE DEF config, timers, ghosts
<1>1. inner' = inner /\ inner \in Clients /\ request' = request /\ failover' = failover
    BY DEF IInv, TypeOK, Succeed
<1>2. PICK status \in Statuses :
          /\ sent'   = Ended(c, status, None)
          /\ result' = [result EXCEPT ![c] = [kind |-> "Ok", outcome |-> status,
                                              trace |-> failover[c].trace]]
    BY DEF Succeed
<1>3. /\ attempt[c].of.endpoint \in Endpoints /\ failover[c] \in Failovers
      /\ sent \in [Calls -> Seq(Sends)] /\ sent[c] # << >>
    BY InFlightType DEF Succeed
<1>4. status \in Endings
    BY DEF Endings, Reasons
<1>5. /\ sent' \in [Calls -> Seq(Sends)]
      /\ \A d \in Calls : Len(sent'[d]) = Len(sent[d])
      /\ \A d \in Calls : d # c => sent'[d] = sent[d]
    BY <1>2, <1>3, <1>4, EndedType
<1>6. [kind |-> "Ok", outcome |-> status, trace |-> failover[c].trace] \in Results
    BY <1>3, <1>4 DEF Results, Failovers
<1>7. TypeOK'
    BY <1>1, <1>2, <1>3, <1>5, <1>6, SameClient
       DEF IInv, TypeOK, Succeed, Option, PcStates
<1>8. ASSUME NEW d \in Calls PROVE CallOK(d)'
    BY <1>1, SameClient DEF IInv, TypeOK, CallOK, Succeed
<1>9. ASSUME NEW d \in Calls PROVE BudgetOK(d)'
    <2>1. Budget(d)' = Budget(d)
        BY <1>1, SameBudget
    <2> QED BY <2>1, <1>1, <1>5 DEF IInv, TypeOK, BudgetOK, Succeed
<1> QED BY <1>7, <1>8, <1>9 DEF IInv

\* How a response bears on the next attempt.
LEMMA OfStatusType ==
    ASSUME NEW status \in Statuses, NEW retryAfter \in RetryAfters,
           NEW accepted \in BOOLEAN, NEW retryOn
    PROVE  OfStatus(status, retryAfter, accepted, retryOn) \in Outcomes
    BY DEF OfStatus, Rotation, InPlace, Outcomes, Reasons

LEMMA AnswerKeeps ==
    ASSUME IInv, NEW c \in Calls, Answer(c)
    PROVE  IInv'
<1> USE DEF config, timers, ghosts
<1>1. inner' = inner /\ inner \in Clients /\ request' = request /\ failover' = failover
    BY DEF IInv, TypeOK, Answer
<1>2. PICK status \in Statuses, retryAfter \in RetryAfters :
          LET accepted == status \in request[c].accept
              how      == OfStatus(status, retryAfter, accepted, request[c].retry_on)
          IN  /\ outcome'   = [outcome EXCEPT ![c] = how]
              /\ preferred' = IF IsRotation(how) THEN preferred ELSE attempt[c].of.endpoint
              /\ last'      = [last EXCEPT ![c] =
                                  [kind    |-> IF accepted THEN "Ok" ELSE "Api",
                                   outcome |-> status]]
              /\ pc'        = [pc EXCEPT ![c] = IF accepted THEN "after" ELSE "body"]
              /\ sent'      = Ended(c, status, retryAfter)
              /\ applied'   = [applied EXCEPT ![c] = @ \/ MayHaveProcessed(status)]
    BY DEF Answer
<1> DEFINE accepted == status \in request[c].accept
           how == OfStatus(status, retryAfter, accepted, request[c].retry_on)
           own == [kind |-> IF accepted THEN "Ok" ELSE "Api", outcome |-> status]
<1>3. how \in Outcomes
    <2>1. accepted \in BOOLEAN
        OBVIOUS
    <2> HIDE DEF accepted
    <2> QED BY <2>1, OfStatusType
<1>4. status \in Endings
    BY DEF Endings, Reasons
<1>5. own \in Own
    BY <1>4 DEF Own
<1>6. /\ attempt[c].of.endpoint \in Endpoints
      /\ sent \in [Calls -> Seq(Sends)] /\ sent[c] # << >>
    BY InFlightType DEF Answer
<1>7. /\ sent' \in [Calls -> Seq(Sends)]
      /\ sent'[c] # << >>
      /\ \A d \in Calls : Len(sent'[d]) = Len(sent[d])
      /\ \A d \in Calls : d # c => sent'[d] = sent[d]
    BY <1>2, <1>4, <1>6, EndedType
<1>8. /\ outcome' = [outcome EXCEPT ![c] = how]
      /\ last' = [last EXCEPT ![c] = own]
      /\ preferred' \in Endpoints
      /\ pc' \in {[pc EXCEPT ![c] = "after"], [pc EXCEPT ![c] = "body"]}
    BY <1>2, <1>6 DEF IInv, TypeOK
<1>9. applied' \in [Calls -> BOOLEAN]
    BY <1>2 DEF IInv, TypeOK, MayHaveProcessed
<1> HIDE DEF how, own, accepted
<1>10. TypeOK'
    BY <1>1, <1>3, <1>5, <1>7, <1>8, <1>9, SameClient
       DEF IInv, TypeOK, Answer, Option, PcStates
<1>11. ASSUME NEW d \in Calls PROVE CallOK(d)'
    BY <1>1, <1>3, <1>5, <1>8, SameClient DEF IInv, TypeOK, CallOK, Answer
<1>12. ASSUME NEW d \in Calls PROVE BudgetOK(d)'
    <2>1. Budget(d)' = Budget(d)
        BY <1>1, SameBudget
    <2> QED BY <2>1, <1>1, <1>7, <1>8 DEF IInv, TypeOK, BudgetOK, Answer
<1> QED BY <1>10, <1>11, <1>12 DEF IInv

LEMMA BodyReadKeeps ==
    ASSUME IInv, NEW c \in Calls, BodyRead(c)
    PROVE  IInv'
<1> USE DEF config, timers, ghosts
<1>1. inner' = inner /\ request' = request /\ failover' = failover
    BY DEF BodyRead
<1>2. TypeOK'
    BY <1>1, SameClient DEF IInv, TypeOK, BodyRead, PcStates
<1>3. ASSUME NEW d \in Calls PROVE CallOK(d)'
    BY <1>1, SameClient DEF IInv, TypeOK, CallOK, BodyRead
<1>4. ASSUME NEW d \in Calls PROVE BudgetOK(d)'
    <2>1. Budget(d)' = Budget(d)
        BY <1>1, SameBudget
    <2> QED BY <2>1, <1>1 DEF IInv, TypeOK, BudgetOK, BodyRead
<1> QED BY <1>2, <1>3, <1>4 DEF IInv

LEMMA FailKeeps ==
    ASSUME IInv, NEW c \in Calls, NEW connect \in BOOLEAN, NEW timeout \in BOOLEAN,
           Fail(c, connect, timeout)
    PROVE  IInv'
<1> USE DEF config, timers, ghosts
<1>1. inner' = inner /\ inner \in Clients /\ request' = request /\ failover' = failover
    BY DEF IInv, TypeOK, Fail
<1> DEFINE how == IF connect THEN "connect" ELSE IF timeout THEN "timeout" ELSE "io"
           out == OfTransport(connect, timeout)
           own == [kind |-> "Transport", outcome |-> how]
<1>2. /\ outcome' = [outcome EXCEPT ![c] = out]
      /\ last'    = [last EXCEPT ![c] = own]
      /\ sent'    = Ended(c, how, None)
      /\ applied' = [applied EXCEPT ![c] = @ \/ MayHaveProcessed(how)]
      /\ pc'      = [pc EXCEPT ![c] = "after"]
    BY DEF Fail
<1>3. how \in Endings
    BY DEF Endings, Reasons
<1>4. own \in Own
    BY <1>3 DEF Own
<1>5. out \in Outcomes
    BY DEF OfTransport, Rotation, Outcomes, Reasons
<1>6. sent \in [Calls -> Seq(Sends)] /\ sent[c] # << >>
    BY InFlightType DEF Fail
<1>7. /\ sent' \in [Calls -> Seq(Sends)]
      /\ sent'[c] # << >>
      /\ \A d \in Calls : Len(sent'[d]) = Len(sent[d])
      /\ \A d \in Calls : d # c => sent'[d] = sent[d]
    BY <1>2, <1>3, <1>6, EndedType
<1>8. applied' \in [Calls -> BOOLEAN]
    BY <1>2 DEF IInv, TypeOK, MayHaveProcessed
<1> HIDE DEF how, out, own
<1>9. TypeOK'
    BY <1>1, <1>2, <1>4, <1>5, <1>7, <1>8, SameClient
       DEF IInv, TypeOK, Fail, Option, PcStates
<1>10. ASSUME NEW d \in Calls PROVE CallOK(d)'
    BY <1>1, <1>2, <1>4, <1>5, SameClient DEF IInv, TypeOK, CallOK, Fail
<1>11. ASSUME NEW d \in Calls PROVE BudgetOK(d)'
    <2>1. Budget(d)' = Budget(d)
        BY <1>1, SameBudget
    <2> QED BY <2>1, <1>1, <1>2, <1>7 DEF IInv, TypeOK, BudgetOK, Fail
<1> QED BY <1>9, <1>10, <1>11 DEF IInv

LEMMA RefuseRedirectKeeps ==
    ASSUME IInv, NEW c \in Calls, RefuseRedirect(c)
    PROVE  IInv'
<1> USE DEF config, timers, ghosts
<1>1. inner' = inner /\ inner \in Clients /\ request' = request /\ failover' = failover
    BY DEF IInv, TypeOK, RefuseRedirect
<1> DEFINE r == [kind |-> "Config", outcome |-> "redirect"]
<1>2. /\ sent'   = Ended(c, "redirect", None)
      /\ result' = [result EXCEPT ![c] = r]
    BY DEF RefuseRedirect
<1>3. r \in Results
    BY DEF Results, Endings
<1>4. sent \in [Calls -> Seq(Sends)] /\ sent[c] # << >>
    BY InFlightType DEF RefuseRedirect
<1>5. /\ sent' \in [Calls -> Seq(Sends)]
      /\ \A d \in Calls : Len(sent'[d]) = Len(sent[d])
      /\ \A d \in Calls : d # c => sent'[d] = sent[d]
    <2>1. "redirect" \in Endings /\ None \in RetryAfters \cup {None}
        BY DEF Endings
    <2> QED BY <1>2, <1>4, <2>1, EndedType
<1> HIDE DEF r
<1>6. TypeOK'
    BY <1>1, <1>2, <1>3, <1>5, SameClient DEF IInv, TypeOK, RefuseRedirect, Option, PcStates
<1>7. ASSUME NEW d \in Calls PROVE CallOK(d)'
    BY <1>1, SameClient DEF IInv, TypeOK, CallOK, RefuseRedirect
<1>8. ASSUME NEW d \in Calls PROVE BudgetOK(d)'
    <2>1. Budget(d)' = Budget(d)
        BY <1>1, SameBudget
    <2> QED BY <2>1, <1>1, <1>5 DEF IInv, TypeOK, BudgetOK, RefuseRedirect
<1> QED BY <1>6, <1>7, <1>8 DEF IInv

-----------------------------------------------------------------------------
(* What follows from it.                                                   *)

\* The call goes on only with budget for the attempt it is about to begin.
LEMMA DecideKeeps ==
    ASSUME IInv, NEW c \in Calls, Decide(c)
    PROVE  IInv'
<1> USE DEF config, timers, ghosts
<1>1. inner' = inner /\ inner \in Clients /\ request' = request
    BY DEF IInv, TypeOK, Decide
<1>2. PICK draw \in 0 .. DrawDen - 1 :
          LET step == After(failover[c], outcome[c], PolicyOf(c), draw, left[c])
              f    == step.failover
          IN  /\ failover' = [failover EXCEPT ![c] = f]
              /\ timer'    = [timer EXCEPT ![c] = None]
              /\ \/ /\ step.stop # None
                    /\ result' = [result EXCEPT ![c] = ResultOf(step.stop, f, last[c])]
                    /\ pc'     = [pc EXCEPT ![c] = "done"]
                    /\ UNCHANGED <<nap, sent>>
                 \/ /\ step.stop = None
                    /\ step.pause = None
                    /\ pc' = [pc EXCEPT ![c] = "begin"]
                    /\ UNCHANGED <<nap, sent, result>>
                 \/ /\ step.stop = None
                    /\ step.pause # None
                    /\ nap'  = [nap EXCEPT ![c] = step.pause]
                    /\ sent' = [sent EXCEPT ![c][Len(sent[c])].pause = step.pause]
                    /\ pc'   = [pc EXCEPT ![c] = "sleeping"]
                    /\ UNCHANGED result
    BY DEF Decide
<1> DEFINE step == After(failover[c], outcome[c], PolicyOf(c), draw, left[c])
           f    == step.failover
<1>3. /\ failover[c] \in Failovers /\ outcome[c] \in Outcomes
      /\ sent \in [Calls -> Seq(Sends)] /\ sent[c] # << >>
      /\ left[c] \in Option(Duration) /\ last[c] \in Option(Own)
      /\ pc[c] = "after"
    BY InFlightType DEF IInv, TypeOK, CallOK, Decide
<1>4. /\ step \in Steps
      /\ f.attempts = failover[c].attempts
      /\ step.stop = None => PolicyOf(c) # None /\ ShouldRetry(PolicyOf(c), failover[c].attempts)
    <2>1. draw \in Draws
        BY DrawAssumption DEF Draws
    <2>2. PolicyOf(c) \in Option(Policies)
        BY <1>1, BudgetType
    <2> QED BY <1>1, <1>3, <2>1, <2>2, AfterType
<1>5. step.stop = None => f.attempts < Budget(c)
    BY <1>4 DEF ShouldRetry, Budget
<1>6. f \in Failovers /\ step.pause \in Option(Duration)
    BY <1>4 DEF Steps
<1>7. ResultOf(step.stop, f, last[c]) \in Results
    BY <1>3, <1>6, ResultType
<1>8. ASSUME NEW pause \in Option(Duration)
      PROVE  LET s == [sent EXCEPT ![c][Len(sent[c])].pause = pause]
             IN  /\ s \in [Calls -> Seq(Sends)]
                 /\ s[c] # << >>
                 /\ \A d \in Calls : Len(s[d]) = Len(sent[d])
                 /\ \A d \in Calls : d # c => s[d] = sent[d]
    <2> DEFINE n == Len(sent[c])
               e == [sent[c][n] EXCEPT !.pause = pause]
               t == [sent[c] EXCEPT ![n] = e]
    <2>1. sent[c] \in Seq(Sends) /\ n \in 1 .. n /\ n \in Nat \ {0}
        BY <1>3, EmptySeq
    <2>2. sent[c][n] \in Sends
        BY <2>1, ElementOfSeq
    <2>3. e \in Sends
        <3> SUFFICES ASSUME NEW x \in Sends PROVE [x EXCEPT !.pause = pause] \in Sends
            BY <2>2
        <3> QED BY DEF Sends
    <2>4. [sent EXCEPT ![c][Len(sent[c])].pause = pause] = [sent EXCEPT ![c] = t]
        OBVIOUS
    <2> HIDE DEF e
    <2>5. t \in Seq(Sends) /\ Len(t) = n
        BY <2>1, <2>3, ExceptSeq
    <2>6. t # << >>
        BY <2>1, <2>5, EmptySeq
    <2> HIDE DEF t
    <2> QED BY <1>3, <2>4, <2>5, <2>6
<1>9. /\ sent' \in [Calls -> Seq(Sends)]
      /\ sent'[c] # << >>
      /\ \A d \in Calls : Len(sent'[d]) = Len(sent[d])
      /\ \A d \in Calls : d # c => sent'[d] = sent[d]
    <2>1. sent' = sent \/ sent' = [sent EXCEPT ![c][Len(sent[c])].pause = step.pause]
        BY <1>2
    <2> DEFINE t == [sent EXCEPT ![c][Len(sent[c])].pause = step.pause]
    <2> HIDE DEF step
    <2>2. /\ t \in [Calls -> Seq(Sends)] /\ t[c] # << >>
          /\ \A d \in Calls : Len(t[d]) = Len(sent[d])
          /\ \A d \in Calls : d # c => t[d] = sent[d]
        BY <1>6, <1>8
    <2> HIDE DEF t
    <2>3. sent' = sent \/ sent' = t
        BY <2>1 DEF t
    <2> QED BY <1>3, <2>2, <2>3
<1>10. /\ failover' = [failover EXCEPT ![c] = f]
       /\ timer' = [timer EXCEPT ![c] = None]
       /\ \/ nap' = nap
          \/ nap' = [nap EXCEPT ![c] = step.pause] /\ step.pause # None
       /\ \/ result' = result
          \/ result' = [result EXCEPT ![c] = ResultOf(step.stop, f, last[c])]
       /\ \/ pc' = [pc EXCEPT ![c] = "done"]
          \/ /\ step.stop = None
             /\ \/ pc' = [pc EXCEPT ![c] = "begin"]
                \/ pc' = [pc EXCEPT ![c] = "sleeping"]
    BY <1>2
<1> HIDE DEF step, f
<1>11. TypeOK'
    <2>1. nap' \in [Calls -> Duration]
        BY <1>6, <1>10 DEF IInv, TypeOK, Option
    <2>2. result' \in [Calls -> Option(Results)]
        BY <1>7, <1>10 DEF IInv, TypeOK, Option
    <2> QED BY <1>1, <1>6, <1>9, <1>10, <2>1, <2>2, SameClient
            DEF IInv, TypeOK, Decide, Option, PcStates
<1>12. ASSUME NEW d \in Calls PROVE CallOK(d)'
    BY <1>1, <1>6, <1>10, SameClient DEF IInv, TypeOK, CallOK, Decide
<1>13. ASSUME NEW d \in Calls PROVE BudgetOK(d)'
    <2>1. Budget(d)' = Budget(d)
        BY <1>1, SameBudget
    <2> QED BY <2>1, <1>3, <1>4, <1>5, <1>9, <1>10 DEF IInv, TypeOK, BudgetOK
<1> QED BY <1>11, <1>12, <1>13 DEF IInv

LEMMA WakeKeeps ==
    ASSUME IInv, NEW c \in Calls, Wake(c)
    PROVE  IInv'
<1> USE DEF config, timers, ghosts
<1>1. inner' = inner /\ request' = request /\ failover' = failover
    BY DEF Wake
<1>2. TypeOK'
    BY <1>1, SameClient DEF IInv, TypeOK, Wake, PcStates
<1>3. ASSUME NEW d \in Calls PROVE CallOK(d)'
    BY <1>1, SameClient DEF IInv, TypeOK, CallOK, Wake
<1>4. ASSUME NEW d \in Calls PROVE BudgetOK(d)'
    <2>1. Budget(d)' = Budget(d)
        BY <1>1, SameBudget
    <2> QED BY <2>1, <1>1 DEF IInv, TypeOK, BudgetOK, Wake
<1> QED BY <1>2, <1>3, <1>4 DEF IInv

LEMMA DropKeeps ==
    ASSUME IInv, NEW c \in Calls, Drop(c)
    PROVE  IInv'
<1> USE DEF config, timers, ghosts
<1>1. inner' = inner /\ request' = request /\ failover' = failover
    BY DEF Drop
<1>2. TypeOK'
    BY <1>1, SameClient DEF IInv, TypeOK, Drop, PcStates
<1>3. ASSUME NEW d \in Calls PROVE CallOK(d)'
    BY <1>1, SameClient DEF IInv, TypeOK, CallOK, Drop
<1>4. ASSUME NEW d \in Calls PROVE BudgetOK(d)'
    <2>1. Budget(d)' = Budget(d)
        BY <1>1, SameBudget
    <2> QED BY <2>1, <1>1 DEF IInv, TypeOK, BudgetOK, Drop
<1> QED BY <1>2, <1>3, <1>4 DEF IInv

LEMMA TickKeeps ==
    ASSUME IInv, Tick
    PROVE  IInv'
<1> USE DEF config, loop, ghosts
<1>1. inner' = inner /\ request' = request /\ failover' = failover /\ pc' = pc
    BY DEF Tick
<1>2. \A t \in Option(Duration) : Ticked(t) \in Option(Duration)
    BY NoneAssumption DEF Ticked, Option, Duration
<1>3. \A t \in Duration : Ticked(t) \in Duration
    BY NoneAssumption DEF Ticked, Duration
<1>4. /\ left'  \in [Calls -> Option(Duration)]
      /\ timer' \in [Calls -> Option(Duration)]
      /\ nap'   \in [Calls -> Duration]
    BY <1>2, <1>3 DEF IInv, TypeOK, Tick
<1>5. TypeOK'
    BY <1>1, <1>4, SameClient DEF IInv, TypeOK, Tick
<1>6. ASSUME NEW d \in Calls PROVE CallOK(d)'
    BY <1>1, SameClient DEF IInv, CallOK, Tick
<1>7. ASSUME NEW d \in Calls PROVE BudgetOK(d)'
    <2>1. Budget(d)' = Budget(d)
        BY <1>1, SameBudget
    <2> QED BY <2>1, <1>1 DEF IInv, BudgetOK, Tick
<1> QED BY <1>5, <1>6, <1>7 DEF IInv

LEMMA StutterKeeps ==
    ASSUME IInv, UNCHANGED vars
    PROVE  IInv'
<1>1. inner' = inner /\ request' = request
    BY DEF vars
<1>2. TypeOK'
    BY <1>1, SameClient DEF IInv, TypeOK, vars
<1>3. ASSUME NEW d \in Calls PROVE CallOK(d)'
    BY <1>1, SameClient DEF IInv, CallOK, vars
<1>4. ASSUME NEW d \in Calls PROVE BudgetOK(d)'
    <2>1. Budget(d)' = Budget(d)
        BY <1>1, SameBudget
    <2> QED BY <2>1 DEF IInv, BudgetOK, vars
<1> QED BY <1>2, <1>3, <1>4 DEF IInv

-----------------------------------------------------------------------------
(* The theorems.                                                           *)

LEMMA NextKeeps == IInv /\ [Next]_vars => IInv'
<1> SUFFICES ASSUME IInv, [Next]_vars PROVE IInv'
    OBVIOUS
<1>1. CASE UNCHANGED vars
    BY <1>1, StutterKeeps
<1>2. CASE Tick
    BY <1>2, TickKeeps
<1>3. CASE Terminated
    BY <1>3, StutterKeeps DEF Terminated
<1>4. ASSUME NEW c \in Calls, Step(c) PROVE IInv'
    <2>1. CASE Start(c)
        BY <2>1, StartKeeps
    <2>2. CASE Begin(c)
        BY <2>2, BeginKeeps
    <2>3. CASE BeginTooLate(c)
        BY <2>3, BeginTooLateKeeps
    <2>4. CASE Send(c)
        BY <2>4, SendKeeps
    <2>5. CASE Succeed(c)
        BY <2>5, SucceedKeeps
    <2>6. CASE Answer(c)
        BY <2>6, AnswerKeeps
    <2>7. CASE BodyRead(c)
        BY <2>7, BodyReadKeeps
    <2>8. CASE Disconnect(c)
        BY <2>8, FailKeeps DEF Disconnect
    <2>9. CASE Expire(c)
        BY <2>9, FailKeeps, BodyReadKeeps DEF Expire
    <2>10. CASE OwnTimeout(c)
        BY <2>10, FailKeeps DEF OwnTimeout
    <2>11. CASE RefuseRedirect(c)
        BY <2>11, RefuseRedirectKeeps
    <2>12. CASE Decide(c)
        BY <2>12, DecideKeeps
    <2>13. CASE Wake(c)
        BY <2>13, WakeKeeps
    <2>14. CASE Drop(c)
        BY <2>14, DropKeeps
    <2> QED BY <1>4, <2>1, <2>2, <2>3, <2>4, <2>5, <2>6, <2>7, <2>8, <2>9, <2>10, <2>11,
               <2>12, <2>13, <2>14 DEF Step, Run
<1> QED BY <1>1, <1>2, <1>3, <1>4 DEF Next

\* The strengthened invariant holds in every reachable state.
LEMMA Inductive == Spec => []IInv
<1> QED BY InitType, NextKeeps, PTL DEF Spec

\* Every variable of the send loop keeps its type: every endpoint a call
\* tries, traces, reports or prefers is one of the client's set, however the
\* calls interleave and the set rotates.
THEOREM TypeCorrect == Spec => []TypeOK
<1>1. IInv => TypeOK
    BY DEF IInv
<1> QED BY <1>1, Inductive, PTL

\* No call puts more requests on the wire than its policy's max_attempts, nor
\* more than one when retries do not apply to it.
THEOREM BudgetKept == Spec => []AttemptBudget
<1>1. IInv => AttemptBudget
    <2> SUFFICES ASSUME IInv, NEW c \in Calls, pc[c] # "idle"
                 PROVE  Len(sent[c]) <= Budget(c)
        BY DEF AttemptBudget
    <2>1. Budget(c) \in Nat
        BY BudgetType DEF IInv, TypeOK
    <2>2. failover[c].attempts \in Nat /\ Len(sent[c]) \in Nat
        BY EmptySeq, LenProperties DEF IInv, TypeOK, CallOK, Failovers
    <2> QED BY <2>1, <2>2 DEF IInv, BudgetOK
<1> QED BY <1>1, Inductive, PTL

-----------------------------------------------------------------------------
(***************************************************************************)
(* What a deadline bounds, for any deadlines, timeouts, policies and       *)
(* number of calls: no pause outlasts it, no attempt outlasts it by more   *)
(* than observers kept the call, and only a call that sent nothing blames  *)
(* it.                                                                     *)
(*                                                                         *)
(* None of the three is inductive: an attempt's timeout is set from a      *)
(* clock read a step before, and a result is made of the latest attempt,   *)
(* which must be absent exactly as long as nothing was sent.  TimeOK and   *)
(* RecordOK say so of every place a call may be at.                        *)
(***************************************************************************)

TimeOK(c) ==
    /\ pc[c] = "sleeping" /\ left[c] # None /\ nap[c] > 0 => nap[c] < left[c]
    /\ pc[c] = "send" /\ left[c] # None =>
          attempt[c].remaining # None /\ left[c] <= attempt[c].remaining
    /\ pc[c] \in {"inflight", "body"} /\ left[c] # None =>
          /\ timer[c] # None
          /\ sent[c][Len(sent[c])].late >= 0
          /\ timer[c] <= left[c] + sent[c][Len(sent[c])].late

RecordOK(c) ==
    /\ pc[c] \in {"idle", "begin", "send", "sleeping"} => (last[c] = None <=> sent[c] = << >>)
    /\ pc[c] = "done" => (result[c].kind = "DeadlineExceeded" <=> sent[c] = << >>)

DInv == \A c \in Calls : TimeOK(c) /\ RecordOK(c)

-----------------------------------------------------------------------------
(* A pause that is taken fits before the deadline it was checked against.  *)

LEMMA TakePauseFits ==
    ASSUME NEW f \in Failovers, NEW policy \in Policies,
           NEW retryAfter \in RetryAfters \cup {None}, NEW draw \in Draws,
           NEW remaining \in Option(Duration), remaining # None,
           TakePause(f, policy, retryAfter, draw, remaining).pause # None
    PROVE  TakePause(f, policy, retryAfter, draw, remaining).pause < remaining
<1> DEFINE pause == IF retryAfter # None
                    THEN FitsBefore(retryAfter, remaining)
                    ELSE Pause(policy, SaturatingInc(f.pauses), draw, remaining)
<1>1. SaturatingInc(f.pauses) \in Nat
    BY SaturatingIncType DEF Failovers
<1>2. pause # None => pause < remaining
    <2>1. CASE retryAfter # None
        <3>1. retryAfter \in Duration
            BY <2>1, RetryAfterAssumption DEF Option
        <3> QED BY <2>1, <3>1, FitsBeforeKeeps
    <2>2. CASE retryAfter = None
        BY <1>1, <2>2, PauseWithinBounds
    <2> QED BY <2>1, <2>2
<1>3. TakePause(f, policy, retryAfter, draw, remaining).pause = pause
    <2>1. TakePause(f, policy, retryAfter, draw, remaining)
              = IF pause = None THEN Halt(f, Spent(f))
                ELSE GoOn([f EXCEPT !.pauses = SaturatingInc(f.pauses)], pause)
        BY DEF TakePause
    <2> HIDE DEF pause
    <2> QED BY <2>1 DEF Halt, GoOn
<1> HIDE DEF pause
<1> QED BY <1>2, <1>3

LEMMA AfterFits ==
    ASSUME inner \in Clients,
           NEW f \in Failovers, NEW out \in Outcomes, NEW policy \in Option(Policies),
           NEW draw \in Draws, NEW remaining \in Option(Duration), remaining # None,
           After(f, out, policy, draw, remaining).pause # None
    PROVE  After(f, out, policy, draw, remaining).pause < remaining
<1> DEFINE g    == Traced(f, out.reason)
           step == After(f, out, policy, draw, remaining)
<1>1. ASSUME NEW h, NEW why PROVE Halt(h, why).pause = None
    BY DEF Halt
<1>2. /\ out.kind # "Final"
      /\ policy # None
      /\ step = IF g.len > 1 /\ IsRotation(out)
                THEN Rotate(g, policy, out.reason, out.retry_after, draw, remaining)
                ELSE RetryInPlace(g, policy, out.reason, out.retry_after, draw, remaining)
    BY <1>1 DEF After
<1>3. /\ out.reason \in Reasons /\ out.retry_after \in RetryAfters \cup {None}
      /\ policy \in Policies
    BY <1>2 DEF Outcomes, Final, Option
<1>4. g \in Failovers
    BY <1>3, TracedType
<1> HIDE DEF g
<1>5. CASE step = RetryInPlace(g, policy, out.reason, out.retry_after, draw, remaining)
    <2> DEFINE reset == [g EXCEPT !.streak = 0, !.cycle = << >>]
               taken == TakePause(reset, policy, out.retry_after, draw, remaining)
               resent == Resending(taken, [kind |-> "Retry", reason |-> out.reason])
    <2>1. reset \in Failovers
        BY <1>4 DEF Failovers
    <2>2. step = IF taken.stop # None THEN taken ELSE resent
        BY <1>5 DEF RetryInPlace
    <2> HIDE DEF reset, step
    <2>3. taken \in Steps /\ (taken.pause # None => taken.pause < remaining)
        BY <1>3, <2>1, TakePauseType, TakePauseFits
    <2> HIDE DEF taken
    <2>4. resent.pause = taken.pause
        BY <2>3 DEF Resending, Steps
    <2> HIDE DEF resent
    <2>5. step.pause = taken.pause
        BY <2>2, <2>4
    <2> QED BY <2>3, <2>5 DEF step
<1>6. CASE step = Rotate(g, policy, out.reason, out.retry_after, draw, remaining)
    <2> DEFINE smallest == CycleRetryAfter(g, out.retry_after)
               asked    == IF EndsCycle(g) THEN << >> ELSE << smallest >>
               counted  == [g EXCEPT !.streak = g.streak + 1, !.cycle = asked]
               taken    == IF EndsCycle(g)
                           THEN TakePause(counted, policy, smallest, draw, remaining)
                           ELSE GoOn(counted, None)
               moved    == [taken EXCEPT !.failover.current =
                                             (taken.failover.current + 1) % g.len]
               resent   == Resending(moved, [kind |-> "Rotation", from |-> g.current,
                                             reason |-> out.reason])
    <2>1. smallest \in RetryAfters \cup {None}
        BY <1>3, <1>4, CycleRetryAfterType
    <2>2. counted \in Failovers
        <3> HIDE DEF smallest
        <3>1. asked \in {<< >>} \cup {<<d>> : d \in RetryAfters \cup {None}}
            BY <2>1
        <3> HIDE DEF asked
        <3>2. g.streak + 1 \in Nat
            BY <1>4 DEF Failovers
        <3> QED BY <1>4, <3>1, <3>2 DEF Failovers
    <2>3. step = IF taken.stop # None THEN taken ELSE resent
        BY <1>6 DEF Rotate
    <2> HIDE DEF smallest, counted, step
    <2>4. taken \in Steps /\ (taken.pause # None => taken.pause < remaining)
        <3>1. GoOn(counted, None) \in Steps /\ GoOn(counted, None).pause = None
            BY <2>2 DEF GoOn, Steps, Option
        <3> QED BY <1>3, <2>1, <2>2, <3>1, TakePauseType, TakePauseFits
    <2> HIDE DEF taken
    <2>5. moved.pause = taken.pause /\ "failover" \in DOMAIN moved
        BY <2>4 DEF Steps
    <2>6. resent.pause = moved.pause
        <3>1. moved = [failover |-> moved.failover, stop |-> moved.stop, pause |-> moved.pause]
            BY <2>4 DEF Steps
        <3> HIDE DEF moved
        <3> QED BY <3>1 DEF Resending
    <2> HIDE DEF moved, resent
    <2>7. step.pause = taken.pause
        BY <2>3, <2>5, <2>6
    <2> QED BY <2>4, <2>7 DEF step
<1> QED BY <1>2, <1>5, <1>6

-----------------------------------------------------------------------------
(* A call stays well timed and its record complete, one step per action;   *)
(* no step of a call touches another.                                      *)

TimedOK(c) == TimeOK(c) /\ RecordOK(c)

LEMMA OthersKeep ==
    ASSUME NEW c \in Calls, TimedOK(c),
           <<pc[c], left[c], timer[c], nap[c], attempt[c], last[c], result[c], sent[c]>>'
               = <<pc[c], left[c], timer[c], nap[c], attempt[c], last[c], result[c], sent[c]>>
    PROVE  TimedOK(c)'
    BY DEF TimedOK, TimeOK, RecordOK

LEMMA StartTimes ==
    ASSUME IInv, NEW c \in Calls, TimedOK(c), Start(c)
    PROVE  TimedOK(c)'
<1>1. pc'[c] = "begin" /\ sent'[c] = sent[c] /\ last'[c] = last[c] /\ pc[c] = "idle"
    BY DEF IInv, TypeOK, Start, ghosts
<1> QED BY <1>1 DEF TimedOK, TimeOK, RecordOK

LEMMA BeginTimes ==
    ASSUME IInv, NEW c \in Calls, TimedOK(c), Begin(c)
    PROVE  TimedOK(c)'
<1>1. /\ pc'[c] = "send" /\ pc[c] = "begin"
      /\ left'[c] = left[c] /\ sent'[c] = sent[c] /\ last'[c] = last[c]
      /\ attempt'[c].remaining = left[c]
      /\ left[c] \in Option(Duration)
    BY DEF IInv, TypeOK, Begin, timers, ghosts
<1>2. left[c] # None => left[c] <= left[c]
    BY <1>1 DEF Option, Duration
<1> QED BY <1>1, <1>2 DEF TimedOK, TimeOK, RecordOK

\* A result blames the deadline exactly when no attempt came before it.
LEMMA BlamesDeadline ==
    ASSUME NEW why, NEW f, NEW lst \in Option(Own)
    PROVE  ResultOf(why, f, lst).kind = "DeadlineExceeded" <=> lst = None
<1>1. CASE lst = None
    BY <1>1 DEF ResultOf
<1>2. CASE lst # None
    <2>1. lst.kind \in {"Ok", "Api", "Transport"}
        BY <1>2 DEF Option, Own
    <2> QED BY <1>2, <2>1 DEF ResultOf
<1> QED BY <1>1, <1>2

LEMMA BeginTooLateTimes ==
    ASSUME IInv, NEW c \in Calls, TimedOK(c), BeginTooLate(c)
    PROVE  TimedOK(c)'
<1>1. /\ pc'[c] = "done" /\ pc[c] = "begin" /\ sent'[c] = sent[c]
      /\ result'[c] = ResultOf(BeginStop(failover[c]), failover[c], last[c])
      /\ last[c] \in Option(Own)
    BY DEF IInv, TypeOK, BeginTooLate, ghosts
<1>2. result'[c].kind = "DeadlineExceeded" <=> last[c] = None
    BY <1>1, BlamesDeadline
<1> QED BY <1>1, <1>2 DEF TimedOK, TimeOK, RecordOK

\* The attempt's timeout fits in the time remaining when Begin read the
\* clock, of which the observers have since used what Late says.
LEMMA SendTimes ==
    ASSUME IInv, NEW c \in Calls, TimedOK(c), Send(c)
    PROVE  TimedOK(c)'
<1> DEFINE a    == attempt[c].of
           slot == inner.slots[a.endpoint]
           t    == AttemptTimeout(request[c].timeout, inner.attempt_timeout, slot,
                                  attempt[c].remaining)
           e    == [endpoint |-> a.endpoint, outcome |-> "pending", late |-> Late(c),
                    retry_after |-> None, pause |-> None]
<1>1. /\ timer'[c] = Or(t, slot)
      /\ sent'[c]  = Append(sent[c], e)
      /\ pc'[c]    = "inflight" /\ pc[c] = "send"
      /\ left'[c]  = left[c] /\ left[c] \in Option(Duration)
      /\ sent[c] \in Seq(Sends)
    BY DEF IInv, TypeOK, Send, timers
<1>2. e.late = Late(c)
    OBVIOUS
<1>3. /\ a.endpoint \in Endpoints /\ attempt[c].remaining \in Option(Duration)
      /\ inner \in Clients
      /\ request[c].timeout \in Option(Duration)
    BY RequestsAssumption DEF IInv, TypeOK, CallOK, Send, Attempts, RequestType
<1>4. e \in Sends
    <2>1. Late(c) \in Int
        BY <1>1, <1>3 DEF Late, Option, Duration
    <2> QED BY <1>3, <2>1 DEF Sends, Endings, Option
<1>5. slot \in Option(Duration) /\ inner.attempt_timeout \in Option(Duration)
    BY <1>3, InnerType
<1> HIDE DEF e, slot
<1>6. Append(sent[c], e)[Len(Append(sent[c], e))] = e
    BY <1>1, <1>4, AppendProperties
<1>7. left[c] # None => /\ timer'[c] # None
                        /\ Late(c) >= 0
                        /\ timer'[c] <= left[c] + Late(c)
    <2> SUFFICES ASSUME left[c] # None
                 PROVE  timer'[c] # None /\ Late(c) >= 0 /\ timer'[c] <= left[c] + Late(c)
        OBVIOUS
    <2>1. /\ attempt[c].remaining \in Duration /\ left[c] \in Duration
          /\ left[c] <= attempt[c].remaining
        BY <1>1, <1>3 DEF TimedOK, TimeOK, Option
    <2>2. Late(c) = attempt[c].remaining - left[c]
        BY <2>1, NoneAssumption DEF Late, Duration
    <2>3. t \in Duration /\ t <= attempt[c].remaining
        BY <1>3, <1>5, <2>1, AttemptTimeoutWithinRemaining
    <2> HIDE DEF t
    <2>4. timer'[c] = t
        BY <1>1, <2>3, NoneAssumption DEF Or, Duration
    <2> QED BY <2>1, <2>2, <2>3, <2>4, NoneAssumption DEF Duration
<1> QED BY <1>1, <1>2, <1>6, <1>7 DEF TimedOK, TimeOK, RecordOK

-----------------------------------------------------------------------------
(* How an attempt ends: what was late about it is not rewritten.           *)

LEMMA EndedKeepsLate ==
    ASSUME sent \in [Calls -> Seq(Sends)], NEW c \in Calls, sent[c] # << >>,
           NEW how, NEW retryAfter
    PROVE  LET s == Ended(c, how, retryAfter)[c]
           IN  s # << >> /\ s[Len(s)].late = sent[c][Len(sent[c])].late
<1> DEFINE n == Len(sent[c])
           e == [sent[c][n] EXCEPT !.outcome = how, !.retry_after = retryAfter]
           s == [sent[c] EXCEPT ![n] = e]
<1>1. sent[c] \in Seq(Sends) /\ n \in 1 .. n /\ n \in Nat \ {0} /\ DOMAIN sent[c] = 1 .. n
    BY EmptySeq
<1>2. sent[c][n] \in Sends
    BY <1>1, ElementOfSeq
<1>3. e.late = sent[c][n].late
    <2> SUFFICES ASSUME NEW x \in Sends
                 PROVE  [x EXCEPT !.outcome = how, !.retry_after = retryAfter].late = x.late
        BY <1>2
    <2> QED BY DEF Sends
<1>4. Ended(c, how, retryAfter)[c] = s
    BY DEF Ended
<1> HIDE DEF e
<1>5. Len(s) = n /\ s[n] = e /\ s # << >>
    <2>1. DOMAIN s = 1 .. n
        BY <1>1
    <2>2. s[n] = e
        BY <1>1
    <2>3. Len(s) = n
        BY <1>1, <2>1, LenProperties
    <2> HIDE DEF s
    <2> QED BY <1>1, <2>1, <2>2, <2>3
<1> HIDE DEF s
<1> QED BY <1>3, <1>4, <1>5

\* A call in flight has sent something, and the rest of it is as it was.
LEMMA InFlightTimes ==
    ASSUME IInv, NEW c \in Calls, TimedOK(c), pc[c] = "inflight",
           NEW how, NEW retryAfter, sent' = Ended(c, how, retryAfter)
    PROVE  /\ sent'[c] # << >>
           /\ sent'[c][Len(sent'[c])].late = sent[c][Len(sent[c])].late
           /\ \A d \in Calls : d # c => sent'[d] = sent[d]
<1>1. sent \in [Calls -> Seq(Sends)] /\ sent[c] # << >>
    BY InFlightType
<1>2. /\ sent'[c] # << >>
      /\ sent'[c][Len(sent'[c])].late = sent[c][Len(sent[c])].late
    BY <1>1, EndedKeepsLate
<1>3. \A d \in Calls : d # c => sent'[d] = sent[d]
    BY <1>1 DEF Ended
<1> QED BY <1>2, <1>3

LEMMA SucceedTimes ==
    ASSUME IInv, NEW c \in Calls, TimedOK(c), Succeed(c)
    PROVE  TimedOK(c)'
<1>1. PICK status \in Statuses :
          /\ sent'   = Ended(c, status, None)
          /\ result' = [result EXCEPT ![c] = [kind |-> "Ok", outcome |-> status,
                                              trace |-> failover[c].trace]]
    BY DEF Succeed
<1>2. sent'[c] # << >>
    BY <1>1, InFlightTimes DEF Succeed
<1>3. pc'[c] = "done" /\ result'[c].kind = "Ok"
    BY <1>1 DEF IInv, TypeOK, Succeed
<1> QED BY <1>2, <1>3 DEF TimedOK, TimeOK, RecordOK

LEMMA AnswerTimes ==
    ASSUME IInv, NEW c \in Calls, TimedOK(c), Answer(c)
    PROVE  TimedOK(c)'
<1>1. PICK status \in Statuses, retryAfter \in RetryAfters :
          sent' = Ended(c, status, retryAfter)
    BY DEF Answer
<1>2. /\ sent'[c] # << >>
      /\ sent'[c][Len(sent'[c])].late = sent[c][Len(sent[c])].late
    BY <1>1, InFlightTimes DEF Answer
<1>3. /\ pc[c] = "inflight" /\ pc'[c] \in {"body", "after"}
      /\ left'[c] = left[c] /\ timer'[c] = timer[c]
    BY DEF IInv, TypeOK, Answer, timers
<1> QED BY <1>2, <1>3 DEF TimedOK, TimeOK, RecordOK

LEMMA BodyReadTimes ==
    ASSUME IInv, NEW c \in Calls, TimedOK(c), BodyRead(c)
    PROVE  TimedOK(c)'
<1>1. pc'[c] = "after"
    BY DEF IInv, TypeOK, BodyRead
<1> QED BY <1>1 DEF TimedOK, TimeOK, RecordOK

LEMMA FailTimes ==
    ASSUME IInv, NEW c \in Calls, TimedOK(c), NEW connect, NEW timeout,
           Fail(c, connect, timeout)
    PROVE  TimedOK(c)'
<1>1. pc'[c] = "after"
    BY DEF IInv, TypeOK, Fail
<1> QED BY <1>1 DEF TimedOK, TimeOK, RecordOK

LEMMA RefuseRedirectTimes ==
    ASSUME IInv, NEW c \in Calls, TimedOK(c), RefuseRedirect(c)
    PROVE  TimedOK(c)'
<1>1. sent'[c] # << >>
    BY InFlightTimes DEF RefuseRedirect
<1>2. pc'[c] = "done" /\ result'[c].kind = "Config"
    BY DEF IInv, TypeOK, RefuseRedirect
<1> QED BY <1>1, <1>2 DEF TimedOK, TimeOK, RecordOK

-----------------------------------------------------------------------------
(* What follows from it.                                                   *)

\* A call that stops here has an attempt to blame; one that sleeps wakes
\* before its deadline, because the clock was read in this very step.
LEMMA DecideTimes ==
    ASSUME IInv, NEW c \in Calls, TimedOK(c), Decide(c)
    PROVE  /\ TimedOK(c)'
           /\ \A d \in Calls : d # c => sent'[d] = sent[d]
<1>1. PICK draw \in 0 .. DrawDen - 1 :
          LET step == After(failover[c], outcome[c], PolicyOf(c), draw, left[c])
              f    == step.failover
          IN  \/ /\ result' = [result EXCEPT ![c] = ResultOf(step.stop, f, last[c])]
                 /\ pc'     = [pc EXCEPT ![c] = "done"]
                 /\ UNCHANGED <<nap, sent>>
              \/ /\ pc' = [pc EXCEPT ![c] = "begin"]
                 /\ UNCHANGED <<nap, sent, result>>
              \/ /\ step.pause # None
                 /\ nap'  = [nap EXCEPT ![c] = step.pause]
                 /\ sent' = [sent EXCEPT ![c][Len(sent[c])].pause = step.pause]
                 /\ pc'   = [pc EXCEPT ![c] = "sleeping"]
                 /\ UNCHANGED result
    BY DEF Decide
<1> DEFINE step == After(failover[c], outcome[c], PolicyOf(c), draw, left[c])
<1>2. /\ failover[c] \in Failovers /\ outcome[c] \in Outcomes /\ inner \in Clients
      /\ sent \in [Calls -> Seq(Sends)] /\ sent[c] # << >>
      /\ left[c] \in Option(Duration) /\ last[c] \in Own
      /\ left'[c] = left[c] /\ last'[c] = last[c]
    BY InFlightType DEF IInv, TypeOK, CallOK, Decide, timers
<1>3. last[c] # None /\ last[c] \in Option(Own)
    BY <1>2, LastAssumption DEF Option
<1>4. left[c] # None /\ step.pause # None => step.pause < left[c]
    <2>1. draw \in Draws /\ PolicyOf(c) \in Option(Policies)
        BY <1>2, DrawAssumption, BudgetType DEF Draws
    <2> QED BY <1>2, <2>1, AfterFits
<1>5. ResultOf(step.stop, step.failover, last[c]).kind # "DeadlineExceeded"
    BY <1>3, BlamesDeadline
<1> HIDE DEF step
<1>6. sent'[c] # << >> /\ \A d \in Calls : d # c => sent'[d] = sent[d]
    <2>1. CASE sent' = sent
        BY <1>2, <2>1
    <2>2. CASE sent' = [sent EXCEPT ![c][Len(sent[c])].pause = step.pause]
        <3> DEFINE n == Len(sent[c])
                   e == [sent[c][n] EXCEPT !.pause = step.pause]
                   t == [sent[c] EXCEPT ![n] = e]
        <3>1. sent' = [sent EXCEPT ![c] = t]
            BY <2>2
        <3>2. n \in 1 .. n /\ DOMAIN sent[c] = 1 .. n
            BY <1>2, EmptySeq, LenProperties
        <3>3. DOMAIN t # {}
            <4> HIDE DEF e
            <4> QED BY <3>2
        <3>4. t # << >>
            <4> HIDE DEF t
            <4>1. DOMAIN << >> = {}
                OBVIOUS
            <4> QED BY <3>3, <4>1
        <3> HIDE DEF t
        <3> QED BY <1>2, <3>1, <3>4
    <2> QED BY <1>1, <2>1, <2>2 DEF step
<1>7. CASE pc' = [pc EXCEPT ![c] = "done"]
    <2>1. pc'[c] = "done"
        BY <1>7 DEF IInv, TypeOK
    <2>2. result'[c] = ResultOf(step.stop, step.failover, last[c])
        BY <1>1, <2>1 DEF step, IInv, TypeOK
    <2> QED BY <1>5, <1>6, <2>1, <2>2 DEF TimedOK, TimeOK, RecordOK
<1>8. CASE pc' = [pc EXCEPT ![c] = "begin"]
    <2>1. pc'[c] = "begin"
        BY <1>8 DEF IInv, TypeOK
    <2> QED BY <1>2, <1>3, <1>6, <2>1 DEF TimedOK, TimeOK, RecordOK
<1>9. CASE pc' = [pc EXCEPT ![c] = "sleeping"]
    <2>1. pc'[c] = "sleeping"
        BY <1>9 DEF IInv, TypeOK
    <2>2. nap'[c] = step.pause /\ step.pause # None
        BY <1>1, <2>1 DEF step, IInv, TypeOK
    <2> QED BY <1>2, <1>3, <1>4, <1>6, <2>1, <2>2 DEF TimedOK, TimeOK, RecordOK
<1> QED BY <1>1, <1>6, <1>7, <1>8, <1>9

LEMMA WakeTimes ==
    ASSUME IInv, NEW c \in Calls, TimedOK(c), Wake(c)
    PROVE  TimedOK(c)'
<1>1. /\ pc[c] = "sleeping" /\ pc'[c] = "begin"
      /\ last'[c] = last[c] /\ sent'[c] = sent[c]
    BY DEF IInv, TypeOK, Wake, ghosts
<1> QED BY <1>1 DEF TimedOK, TimeOK, RecordOK

LEMMA DropTimes ==
    ASSUME IInv, NEW c \in Calls, TimedOK(c), Drop(c)
    PROVE  TimedOK(c)'
<1>1. pc'[c] = "dropped"
    BY DEF IInv, TypeOK, Drop
<1> QED BY <1>1 DEF TimedOK, TimeOK, RecordOK

\* Time passes at the same pace for a call's deadline, timeout and pause.
LEMMA TickTimes ==
    ASSUME IInv, Tick, NEW c \in Calls, TimedOK(c)
    PROVE  TimedOK(c)'
<1>1. /\ pc'[c] = pc[c] /\ attempt'[c] = attempt[c] /\ last'[c] = last[c]
      /\ result'[c] = result[c] /\ sent'[c] = sent[c]
    BY DEF Tick, loop, ghosts
<1>2. CASE Over(c)
    BY <1>1, <1>2 DEF Over, TimedOK, TimeOK, RecordOK
<1>3. CASE ~Over(c)
    <2>1. /\ left'[c] = Ticked(left[c])
          /\ timer'[c] = Ticked(timer[c])
          /\ nap'[c] = Ticked(nap[c])
        BY <1>3 DEF Tick
    <2>2. /\ left[c] \in Option(Duration) /\ timer[c] \in Option(Duration)
          /\ nap[c] \in Duration
        BY DEF IInv, TypeOK
    <2>3. left'[c] # None => left[c] # None
        BY <2>1 DEF Ticked
    <2>4. pc[c] = "sleeping" /\ left'[c] # None /\ nap'[c] > 0 => nap'[c] < left'[c]
        BY <2>1, <2>2, <2>3, NoneAssumption DEF TimedOK, TimeOK, Ticked, Option, Duration
    <2>5. ASSUME pc[c] = "send", left'[c] # None
          PROVE  attempt[c].remaining # None /\ left'[c] <= attempt[c].remaining
        <3>1. attempt[c].remaining \in Option(Duration)
            BY <2>5 DEF IInv, CallOK, Attempts
        <3> QED BY <2>1, <2>2, <2>3, <2>5, <3>1, NoneAssumption
                DEF TimedOK, TimeOK, Ticked, Option, Duration
    <2>6. ASSUME pc[c] \in {"inflight", "body"}, left'[c] # None
          PROVE  /\ timer'[c] # None
                 /\ timer'[c] <= left'[c] + sent[c][Len(sent[c])].late
        <3>1. sent[c] # << >> /\ sent[c] \in Seq(Sends)
            BY <2>6, InFlightType
        <3>2. sent[c][Len(sent[c])] \in Sends
            BY <3>1, EmptySeq, ElementOfSeq
        <3>3. sent[c][Len(sent[c])].late \in Int
            BY <3>2 DEF Sends
        <3>4. /\ timer[c] # None /\ sent[c][Len(sent[c])].late >= 0
              /\ timer[c] <= left[c] + sent[c][Len(sent[c])].late
            BY <2>3, <2>6 DEF TimedOK, TimeOK
        <3> QED BY <2>1, <2>2, <2>3, <2>6, <3>3, <3>4, NoneAssumption
                DEF Ticked, Option, Duration
    <2> QED BY <1>1, <2>3, <2>4, <2>5, <2>6 DEF TimedOK, TimeOK, RecordOK
<1> QED BY <1>2, <1>3

-----------------------------------------------------------------------------
(* The theorems.                                                           *)

LEMMA StepTimes ==
    ASSUME IInv, NEW c \in Calls, TimedOK(c), Step(c)
    PROVE  TimedOK(c)'
<1>1. CASE Start(c)
    BY <1>1, StartTimes
<1>2. CASE Begin(c) \/ BeginTooLate(c)
    BY <1>2, BeginTimes, BeginTooLateTimes
<1>3. CASE Send(c)
    BY <1>3, SendTimes
<1>4. CASE Succeed(c)
    BY <1>4, SucceedTimes
<1>5. CASE Answer(c)
    BY <1>5, AnswerTimes
<1>6. CASE BodyRead(c)
    BY <1>6, BodyReadTimes
<1>7. CASE Disconnect(c) \/ OwnTimeout(c)
    BY <1>7, FailTimes DEF Disconnect, OwnTimeout
<1>8. CASE Expire(c)
    BY <1>8, FailTimes, BodyReadTimes DEF Expire
<1>9. CASE RefuseRedirect(c)
    BY <1>9, RefuseRedirectTimes
<1>10. CASE Decide(c)
    BY <1>10, DecideTimes
<1>11. CASE Wake(c) \/ Drop(c)
    BY <1>11, WakeTimes, DropTimes
<1> QED BY <1>1, <1>2, <1>3, <1>4, <1>5, <1>6, <1>7, <1>8, <1>9, <1>10, <1>11 DEF Step, Run

\* A step of one call leaves every other as it was.
LEMMA StepIsItsOwn ==
    ASSUME IInv, DInv, NEW c \in Calls, Step(c), NEW d \in Calls, d # c
    PROVE  <<pc[d], left[d], timer[d], nap[d], attempt[d], last[d], result[d], sent[d]>>'
               = <<pc[d], left[d], timer[d], nap[d], attempt[d], last[d], result[d], sent[d]>>
<1> USE DEF config, timers, ghosts
<1>1. CASE Start(c)
    BY <1>1 DEF IInv, TypeOK, Start
<1>2. CASE Begin(c)
    BY <1>2 DEF IInv, TypeOK, Begin
<1>3. CASE BeginTooLate(c)
    BY <1>3 DEF IInv, TypeOK, BeginTooLate
<1>4. CASE Send(c)
    BY <1>4 DEF IInv, TypeOK, Send
<1>5. CASE Succeed(c)
    <2>1. sent'[d] = sent[d]
        BY <1>5, InFlightTimes DEF DInv, TimedOK, Succeed
    <2> QED BY <1>5, <2>1 DEF IInv, TypeOK, Succeed
<1>6. CASE Answer(c)
    <2>1. sent'[d] = sent[d]
        BY <1>6, InFlightTimes DEF DInv, TimedOK, Answer
    <2> QED BY <1>6, <2>1 DEF IInv, TypeOK, Answer
<1>7. CASE BodyRead(c)
    BY <1>7 DEF IInv, TypeOK, BodyRead
<1>8. ASSUME NEW connect, NEW timeout, Fail(c, connect, timeout)
      PROVE  <<pc[d], left[d], timer[d], nap[d], attempt[d], last[d], result[d], sent[d]>>'
                 = <<pc[d], left[d], timer[d], nap[d], attempt[d], last[d], result[d], sent[d]>>
    <2>1. sent'[d] = sent[d]
        BY <1>8, InFlightTimes DEF DInv, TimedOK, Fail
    <2> QED BY <1>8, <2>1 DEF IInv, TypeOK, Fail
<1>9. CASE Disconnect(c) \/ OwnTimeout(c)
    BY <1>8, <1>9 DEF Disconnect, OwnTimeout
<1>10. CASE Expire(c)
    BY <1>7, <1>8, <1>10 DEF Expire
<1>11. CASE RefuseRedirect(c)
    <2>1. sent'[d] = sent[d]
        BY <1>11, InFlightTimes DEF DInv, TimedOK, RefuseRedirect
    <2> QED BY <1>11, <2>1 DEF IInv, TypeOK, RefuseRedirect
<1>12. CASE Decide(c)
    <2>1. sent'[d] = sent[d]
        BY <1>12, DecideTimes DEF DInv, TimedOK
    <2>2. nap'[d] = nap[d] /\ pc'[d] = pc[d] /\ result'[d] = result[d]
        BY <1>12 DEF IInv, TypeOK, Decide
    <2> QED BY <1>12, <2>1, <2>2 DEF IInv, TypeOK, Decide
<1>13. CASE Wake(c) \/ Drop(c)
    BY <1>13 DEF IInv, TypeOK, Wake, Drop
<1> QED BY <1>1, <1>2, <1>3, <1>4, <1>5, <1>6, <1>7, <1>9, <1>10, <1>11, <1>12, <1>13
        DEF Step, Run

LEMMA DNext == IInv /\ DInv /\ [Next]_vars => DInv'
<1> SUFFICES ASSUME IInv, DInv, [Next]_vars, NEW d \in Calls
             PROVE  TimedOK(d)'
    BY DEF DInv, TimedOK
<1>1. TimedOK(d)
    BY DEF DInv, TimedOK
<1>2. CASE Tick
    BY <1>1, <1>2, TickTimes
<1>3. CASE UNCHANGED vars
    BY <1>1, <1>3, OthersKeep DEF vars
<1>4. CASE Terminated
    BY <1>3, <1>4 DEF Terminated
<1>5. ASSUME NEW c \in Calls, Step(c) PROVE TimedOK(d)'
    <2>1. CASE d = c
        BY <1>1, <1>5, <2>1, StepTimes
    <2>2. CASE d # c
        BY <1>1, <1>5, <2>2, StepIsItsOwn, OthersKeep
    <2> QED BY <2>1, <2>2
<1> QED BY <1>2, <1>3, <1>4, <1>5 DEF Next

LEMMA DInductive == Spec => [](IInv /\ DInv)
<1>1. Init => DInv
    BY DEF Init, DInv, TimeOK, RecordOK
<1> QED BY <1>1, DNext, Inductive, PTL DEF Spec

\* A pause always ends before the deadline it was checked against.
THEOREM SleepEnds == Spec => []SleepEndsBeforeDeadline
<1>1. DInv => SleepEndsBeforeDeadline
    BY DEF DInv, TimeOK, SleepEndsBeforeDeadline
<1> QED BY <1>1, DInductive, PTL

\* An attempt sent under a deadline is cut short when it passes, or as much
\* later as observers kept the call between its clock and its sending.
THEOREM AttemptEnds == Spec => []AttemptEndsWithTheDeadline
<1>1. DInv => AttemptEndsWithTheDeadline
    BY DEF DInv, TimeOK, AttemptEndsWithTheDeadline
<1> QED BY <1>1, DInductive, PTL

\* A call returns DeadlineExceeded exactly when it sent nothing: once an
\* attempt was made, what it returns is that attempt's result.
THEOREM BlamesOnlyUnsent == Spec => []DeadlineExceededMeansNothingSent
<1>1. DInv => DeadlineExceededMeansNothingSent
    BY DEF DInv, RecordOK, DeadlineExceededMeansNothingSent
<1> QED BY <1>1, DInductive, PTL

-----------------------------------------------------------------------------
(***************************************************************************)
(* What brings a call to its end, for any calls, policies and timeouts:    *)
(* each step of its own leaves it fewer to go, a number its budget bounds, *)
(* and under a deadline it never waits but for a timer that runs.  This is *)
(* what DeadlineEndsTheCall rests on, but for the fairness by which a task *)
(* that can go on does and a clock that can go on does.                    *)
(***************************************************************************)

\* The places of a round of the loop, by how far they are from its end.
Place(p) ==
    CASE p = "inflight" -> 6
      [] p = "body"     -> 5
      [] p = "after"    -> 4
      [] p = "sleeping" -> 3
      [] p = "begin"    -> 2
      [] p = "send"     -> 1
      [] OTHER          -> 0

StepsLeft(c) == 6 * (Budget(c) - Len(sent[c])) + Place(pc[c])

\* How long a call still waits where it is, None if nothing ends its wait.
Wait(c) ==
    IF pc[c] = "sleeping" THEN nap[c]
    ELSE IF pc[c] \in {"inflight", "body"} THEN timer[c]
    ELSE 0

\* A call that was started goes on, or stands while time passes or others run.
GoesOn(c) == ~Over(c) /\ StepsLeft(c)' < StepsLeft(c)

Stands(c) ==
    /\ UNCHANGED <<pc[c], sent[c]>>
    /\ Wait(c)' = IF Tick /\ ~Over(c) THEN Ticked(Wait(c)) ELSE Wait(c)

LEMMA Places ==
    /\ \A p \in PcStates : Place(p) \in 0 .. 6
    /\ Place("inflight") = 6 /\ Place("body") = 5 /\ Place("after") = 4
    /\ Place("sleeping") = 3 /\ Place("begin") = 2 /\ Place("send") = 1
    /\ Place("done") = 0 /\ Place("dropped") = 0
    BY DEF Place, PcStates

\* Each action of a call, as it goes from place to place: only one that sends
\* takes it back to the head of a round, and that one spends budget.
LEMMA Moves ==
    ASSUME IInv, NEW c \in Calls, Step(c), pc[c] # "idle"
    PROVE  /\ ~Over(c) /\ inner' = inner /\ request'[c] = request[c]
           /\ \/ pc[c] = "send" /\ pc'[c] = "inflight"
                 /\ failover'[c].attempts = failover[c].attempts
              \/ pc[c] = "begin" /\ pc'[c] = "send" /\ sent'[c] = sent[c]
              \/ /\ pc[c] \notin {"send", "idle"}
                 /\ pc'[c] \notin {"send", "idle"} /\ Place(pc'[c]) < Place(pc[c])
                 /\ failover'[c].attempts = failover[c].attempts
<1> USE Places DEF config, timers, ghosts, Over
<1>1. pc \in [Calls -> PcStates] /\ failover \in [Calls -> Option(Failovers)]
    BY DEF IInv, TypeOK
<1>2. ~Start(c)
    BY DEF Start
<1>3. CASE Begin(c)
    BY <1>1, <1>3 DEF Begin
<1>4. CASE BeginTooLate(c)
    BY <1>1, <1>4 DEF BeginTooLate
<1>5. CASE Send(c)
    BY <1>1, <1>5 DEF Send
<1>6. CASE Succeed(c)
    BY <1>1, <1>6 DEF Succeed
<1>7. CASE Answer(c)
    BY <1>1, <1>7 DEF Answer
<1>8. CASE BodyRead(c)
    BY <1>1, <1>8 DEF BodyRead
<1>9. ASSUME NEW connect, NEW timeout, Fail(c, connect, timeout)
      PROVE  /\ pc[c] = "inflight" /\ pc'[c] = "after" /\ ~Over(c)
             /\ inner' = inner /\ request' = request /\ failover' = failover
    BY <1>1, <1>9 DEF Fail
<1>10. CASE Disconnect(c) \/ OwnTimeout(c) \/ Expire(c)
    <2>1. BodyRead(c) \/ \E connect, timeout : Fail(c, connect, timeout)
        BY <1>10 DEF Disconnect, OwnTimeout, Expire
    <2> QED BY <1>8, <1>9, <2>1
<1>11. CASE RefuseRedirect(c)
    BY <1>1, <1>11 DEF RefuseRedirect
<1>12. CASE Wake(c) \/ Drop(c)
    BY <1>1, <1>12 DEF Wake, Drop
<1>13. CASE Decide(c)
    <2>1. PICK draw \in 0 .. DrawDen - 1 :
              LET step == After(failover[c], outcome[c], PolicyOf(c), draw, left[c])
              IN  /\ failover' = [failover EXCEPT ![c] = step.failover]
                  /\ \/ pc' = [pc EXCEPT ![c] = "done"]
                     \/ pc' = [pc EXCEPT ![c] = "begin"]
                     \/ pc' = [pc EXCEPT ![c] = "sleeping"]
        BY <1>13 DEF Decide
    <2> DEFINE step == After(failover[c], outcome[c], PolicyOf(c), draw, left[c])
    <2>2. step.failover.attempts = failover[c].attempts
        <3>1. /\ failover[c] \in Failovers /\ outcome[c] \in Outcomes
              /\ left[c] \in Option(Duration) /\ inner \in Clients
            BY <1>13, InFlightType DEF IInv, TypeOK, CallOK, Decide
        <3>2. draw \in Draws
            BY DrawAssumption DEF Draws
        <3>3. PolicyOf(c) \in Option(Policies)
            BY <3>1, BudgetType
        <3> QED BY <3>1, <3>2, <3>3, AfterType
    <2> HIDE DEF step
    <2>3. /\ failover' = [failover EXCEPT ![c] = step.failover]
          /\ pc'[c] \in {"done", "begin", "sleeping"} /\ pc[c] = "after"
          /\ inner' = inner /\ request' = request
        BY <1>1, <1>13, <2>1 DEF step, Decide
    <2> QED BY <1>1, <2>2, <2>3
<1> QED BY <1>2, <1>3, <1>4, <1>5, <1>6, <1>7, <1>8, <1>10, <1>11, <1>12, <1>13
        DEF Step, Run

LEMMA StepGoesOn ==
    ASSUME IInv, IInv', NEW c \in Calls, Step(c), pc[c] # "idle"
    PROVE  GoesOn(c)
<1>1. Budget(c)' = Budget(c) /\ Budget(c) \in Nat
    BY Moves, SameBudget, BudgetType DEF IInv, TypeOK
<1>2. Len(sent[c]) \in Nat /\ Len(sent'[c]) \in Nat
    BY LenProperties DEF IInv, TypeOK
<1>3. Place(pc[c]) \in 0 .. 6 /\ Place(pc'[c]) \in 0 .. 6
    BY Places DEF IInv, TypeOK
<1>4. BudgetOK(c) /\ BudgetOK(c)'
    BY DEF IInv
<1>5. CASE pc[c] = "send" /\ pc'[c] = "inflight"
           /\ failover'[c].attempts = failover[c].attempts
    <2>1. Len(sent'[c]) = Len(sent[c]) + 1
        BY <1>2, <1>4, <1>5 DEF BudgetOK
    <2>2. Place(pc[c]) = 1 /\ Place(pc'[c]) = 6
        BY <1>5, Places
    <2> QED BY <1>1, <1>2, <2>1, <2>2, Moves DEF GoesOn, StepsLeft
<1>6. CASE pc[c] = "begin" /\ pc'[c] = "send" /\ sent'[c] = sent[c]
    <2>1. Place(pc[c]) = 2 /\ Place(pc'[c]) = 1
        BY <1>6, Places
    <2> QED BY <1>1, <1>2, <1>6, <2>1, Moves DEF GoesOn, StepsLeft
<1>7. CASE /\ pc[c] \notin {"send", "idle"}
           /\ pc'[c] \notin {"send", "idle"} /\ Place(pc'[c]) < Place(pc[c])
           /\ failover'[c].attempts = failover[c].attempts
    <2>1. Len(sent'[c]) = Len(sent[c])
        BY <1>2, <1>4, <1>7 DEF BudgetOK
    <2> QED BY <1>1, <1>2, <1>3, <1>7, <2>1, Moves DEF GoesOn, StepsLeft
<1> QED BY <1>5, <1>6, <1>7, Moves

LEMMA OthersStandStill ==
    ASSUME IInv, DInv, NEW c \in Calls, Step(c), NEW d \in Calls, d # c
    PROVE  Stands(d)
<1>1. pc'[d] = pc[d] /\ sent'[d] = sent[d] /\ timer'[d] = timer[d] /\ nap'[d] = nap[d]
    BY StepIsItsOwn
<1>2. pc[c] = "idle" => Start(c)
    BY DEF Step, Run, Begin, BeginTooLate, Send, Decide, Wake, Succeed, Answer, BodyRead,
           Disconnect, Expire, OwnTimeout, Fail, RefuseRedirect, Drop
<1>3. ~Tick
    <2>1. CASE pc[c] = "idle"
        <3>1. Start(c)
            BY <1>2, <2>1
        <3> QED BY <3>1 DEF Tick, loop, Start, IInv, TypeOK
    <2>2. CASE pc[c] # "idle"
        <3>1. Place(pc[c]) \in 0 .. 6
            BY Places DEF IInv, TypeOK
        <3>2. pc'[c] # pc[c]
            BY <2>2, <3>1, Moves
        <3> QED BY <3>2 DEF Tick, loop
    <2> QED BY <2>1, <2>2
<1> QED BY <1>1, <1>3 DEF Stands, Wait

LEMMA TickWaits ==
    ASSUME IInv, Tick, NEW c \in Calls
    PROVE  Stands(c)
<1>1. pc' = pc /\ sent' = sent
    BY DEF Tick, loop, ghosts
<1>2. CASE Over(c)
    BY <1>1, <1>2 DEF Stands, Wait, Over
<1>3. CASE ~Over(c)
    <2>1. timer'[c] = Ticked(timer[c]) /\ nap'[c] = Ticked(nap[c])
        BY <1>3 DEF Tick
    <2>2. Ticked(0) = 0
        BY DEF Ticked
    <2> QED BY <1>1, <1>3, <2>1, <2>2 DEF Stands, Wait
<1> QED BY <1>2, <1>3

\* Every call has a number of steps to go, which its budget bounds; and under
\* a deadline, wherever it is, it waits for a timer that runs, or for nothing.
THEOREM WaitsAreTimed ==
    Spec => []\A c \in Calls : pc[c] # "idle" =>
                /\ StepsLeft(c) \in 0 .. 6 * Budget(c) + 2
                /\ left[c] # None => Wait(c) \in Duration
<1>1. IInv /\ DInv => \A c \in Calls : pc[c] # "idle" =>
                          /\ StepsLeft(c) \in 0 .. 6 * Budget(c) + 2
                          /\ left[c] # None => Wait(c) \in Duration
    <2> SUFFICES ASSUME IInv, DInv, NEW c \in Calls, pc[c] # "idle"
                 PROVE  /\ StepsLeft(c) \in 0 .. 6 * Budget(c) + 2
                        /\ left[c] # None => Wait(c) \in Duration
        OBVIOUS
    <2>1. Budget(c) \in Nat /\ Len(sent[c]) \in Nat /\ Place(pc[c]) \in 0 .. 6
        BY BudgetType, LenProperties, Places DEF IInv, TypeOK
    <2>2. failover[c].attempts \in Nat
        BY DEF IInv, CallOK, Failovers
    <2>3. Len(sent[c]) <= Budget(c)
        BY <2>1, <2>2 DEF IInv, BudgetOK
    <2>4. ASSUME Place(pc[c]) > 2
          PROVE  Len(sent[c]) >= 1
        <3> DEFINE p == pc[c]
        <3>1. p \in PcStates
            BY DEF IInv, TypeOK
        <3>2. Place("idle") = 0
            BY DEF Place
        <3> HIDE DEF p
        <3>3. p \in {"inflight", "body", "after", "sleeping"}
            <4>1. ASSUME p \in {"begin", "send", "done", "dropped", "idle"}
                  PROVE  Place(p) <= 2
                BY <3>2, <4>1, Places
            <4> QED BY <2>1, <2>4, <3>1, <4>1 DEF PcStates, p
        <3> QED BY <2>1, <3>3, EmptySeq DEF IInv, TypeOK, BudgetOK, p
    <2>5. StepsLeft(c) \in 0 .. 6 * Budget(c) + 2
        BY <2>1, <2>3, <2>4 DEF StepsLeft
    <2>6. left[c] # None => Wait(c) \in Duration
        BY DEF Wait, IInv, TypeOK, DInv, TimeOK, Option, Duration
    <2> QED BY <2>5, <2>6
<1> QED BY <1>1, DInductive, PTL

\* Every step either takes a call that was started further, or leaves it
\* where it is, its wait no longer, and shorter by each tick until it is over.
THEOREM EveryStepGoesOn ==
    Spec => [][\A c \in Calls : pc[c] # "idle" => GoesOn(c) \/ Stands(c)]_vars
<1> DEFINE A == \A c \in Calls : pc[c] # "idle" => GoesOn(c) \/ Stands(c)
<1>1. IInv /\ DInv /\ [Next]_vars => [A]_vars
    <2> SUFFICES ASSUME IInv, DInv, Next, NEW c \in Calls, pc[c] # "idle", ~UNCHANGED vars
                 PROVE  GoesOn(c) \/ Stands(c)
        OBVIOUS
    <2>1. IInv'
        BY NextKeeps
    <2>2. CASE Tick
        BY <2>2, TickWaits
    <2>3. ~Terminated
        BY DEF Terminated
    <2>4. ASSUME NEW d \in Calls, Step(d)
          PROVE  GoesOn(c) \/ Stands(c)
        BY <2>1, <2>4, StepGoesOn, OthersStandStill
    <2> QED BY <2>2, <2>3, <2>4 DEF Next
<1> HIDE DEF A
<1> QED BY <1>1, DInductive, PTL DEF Spec, A

-----------------------------------------------------------------------------
(***************************************************************************)
(* The preference the calls of a client share, for any calls, endpoints    *)
(* and statuses, and any interleaving: it names the first endpoint or one  *)
(* that answered some call definitively, and each definitive answer moves  *)
(* it.                                                                     *)
(*                                                                         *)
(* That it was earned is not inductive: an answer is written over the      *)
(* latest entry of the history, which must not be the one that earned the  *)
(* preference.  Flying says that the entry of an attempt in flight is      *)
(* still open, and is of the endpoint the attempt went to.                 *)
(***************************************************************************)

Flying(c) ==
    pc[c] = "inflight" =>
        /\ sent[c][Len(sent[c])].endpoint = attempt[c].of.endpoint
        /\ sent[c][Len(sent[c])].outcome = "pending"

PInv == PreferenceWasEarned /\ \A c \in Calls : Flying(c)

-----------------------------------------------------------------------------
(* How the history grows.                                                  *)

\* An attempt that ends is the latest one, and no other is rewritten.
LEMMA EndedEntries ==
    ASSUME sent \in [Calls -> Seq(Sends)], NEW c \in Calls, sent[c] # << >>,
           NEW how, NEW retryAfter
    PROVE  LET s == Ended(c, how, retryAfter)
               n == Len(sent[c])
           IN  /\ \A d \in Calls : d # c => s[d] = sent[d]
               /\ n \in Nat \ {0} /\ DOMAIN sent[c] = 1 .. n
               /\ DOMAIN s[c] = 1 .. n /\ Len(s[c]) = n
               /\ \A i \in 1 .. n : i # n => s[c][i] = sent[c][i]
               /\ s[c][n].endpoint = sent[c][n].endpoint
               /\ s[c][n].outcome = how
               /\ s[c][n].retry_after = retryAfter
               /\ s[c][n].pause = sent[c][n].pause
<1> DEFINE n == Len(sent[c])
           e == [sent[c][n] EXCEPT !.outcome = how, !.retry_after = retryAfter]
           t == [sent[c] EXCEPT ![n] = e]
<1>1. sent[c] \in Seq(Sends) /\ n \in 1 .. n /\ n \in Nat \ {0} /\ DOMAIN sent[c] = 1 .. n
    BY EmptySeq
<1>2. sent[c][n] \in Sends
    BY <1>1, ElementOfSeq
<1>3. /\ e.endpoint = sent[c][n].endpoint /\ e.outcome = how
      /\ e.retry_after = retryAfter /\ e.pause = sent[c][n].pause
    <2> SUFFICES ASSUME NEW x \in Sends
                 PROVE  LET y == [x EXCEPT !.outcome = how, !.retry_after = retryAfter]
                        IN  /\ y.endpoint = x.endpoint /\ y.outcome = how
                            /\ y.retry_after = retryAfter /\ y.pause = x.pause
        BY <1>2
    <2> QED BY DEF Sends
<1>4. Ended(c, how, retryAfter) = [sent EXCEPT ![c] = t]
    BY DEF Ended
<1> HIDE DEF e
<1>5. /\ DOMAIN t = 1 .. n
      /\ t[n] = e
      /\ \A i \in 1 .. n : i # n => t[i] = sent[c][i]
    BY <1>1
<1>6. Len(t) = n
    BY <1>1, <1>5, LenProperties
<1> HIDE DEF t
<1> QED BY <1>1, <1>3, <1>4, <1>5, <1>6

\* A pause is noted on the latest attempt, and nothing else is.
LEMMA PausedEntries ==
    ASSUME sent \in [Calls -> Seq(Sends)], NEW c \in Calls, sent[c] # << >>, NEW pause
    PROVE  LET s == [sent EXCEPT ![c][Len(sent[c])].pause = pause]
               n == Len(sent[c])
           IN  /\ \A d \in Calls : d # c => s[d] = sent[d]
               /\ n \in Nat \ {0} /\ DOMAIN sent[c] = 1 .. n
               /\ DOMAIN s[c] = 1 .. n /\ Len(s[c]) = n
               /\ \A i \in 1 .. n : /\ s[c][i].endpoint = sent[c][i].endpoint
                                    /\ s[c][i].outcome = sent[c][i].outcome
                                    /\ s[c][i].retry_after = sent[c][i].retry_after
                                    /\ i # n => s[c][i].pause = sent[c][i].pause
               /\ s[c][n].pause = pause
<1> DEFINE n == Len(sent[c])
           e == [sent[c][n] EXCEPT !.pause = pause]
           t == [sent[c] EXCEPT ![n] = e]
           s == [sent EXCEPT ![c][Len(sent[c])].pause = pause]
<1>1. sent[c] \in Seq(Sends) /\ n \in 1 .. n /\ n \in Nat \ {0} /\ DOMAIN sent[c] = 1 .. n
    BY EmptySeq
<1>2. sent[c][n] \in Sends
    BY <1>1, ElementOfSeq
<1>3. /\ e.endpoint = sent[c][n].endpoint /\ e.outcome = sent[c][n].outcome
      /\ e.retry_after = sent[c][n].retry_after /\ e.pause = pause
    <2> SUFFICES ASSUME NEW x \in Sends
                 PROVE  LET y == [x EXCEPT !.pause = pause]
                        IN  /\ y.endpoint = x.endpoint /\ y.outcome = x.outcome
                            /\ y.retry_after = x.retry_after /\ y.pause = pause
        BY <1>2
    <2> QED BY DEF Sends
<1>4. s = [sent EXCEPT ![c] = t]
    OBVIOUS
<1> HIDE DEF e, s
<1>5. /\ DOMAIN t = 1 .. n
      /\ t[n] = e
      /\ \A i \in 1 .. n : i # n => t[i] = sent[c][i]
    BY <1>1
<1>6. Len(t) = n
    BY <1>1, <1>5, LenProperties
<1> HIDE DEF t
<1>7. /\ \A d \in Calls : d # c => s[d] = sent[d]
      /\ s[c] = t
    BY <1>4
<1>8. \A i \in 1 .. n : /\ t[i].endpoint = sent[c][i].endpoint
                        /\ t[i].outcome = sent[c][i].outcome
                        /\ t[i].retry_after = sent[c][i].retry_after
                        /\ i # n => t[i].pause = sent[c][i].pause
    BY <1>3, <1>5
<1>9. t[n].pause = pause
    BY <1>1, <1>3, <1>5
<1> QED BY <1>1, <1>5, <1>6, <1>7, <1>8, <1>9 DEF s

\* What Send appends.
Sending(c) == [endpoint    |-> attempt[c].of.endpoint,
               outcome     |-> "pending",
               late        |-> Late(c),
               retry_after |-> None,
               pause       |-> None]

LEMMA SendingEntries ==
    ASSUME IInv, NEW c \in Calls, Send(c)
    PROVE  LET n == Len(sent[c])
           IN  /\ \A d \in Calls : d # c => sent'[d] = sent[d]
               /\ n \in Nat /\ DOMAIN sent[c] = 1 .. n
               /\ DOMAIN sent'[c] = 1 .. n + 1 /\ Len(sent'[c]) = n + 1
               /\ \A i \in 1 .. n : sent'[c][i] = sent[c][i]
               /\ sent'[c][n + 1].endpoint = attempt[c].of.endpoint
               /\ sent'[c][n + 1].outcome = "pending"
               /\ sent'[c][n + 1].pause = None
<1>1. /\ sent' = [sent EXCEPT ![c] = Append(sent[c], Sending(c))]
      /\ sent \in [Calls -> Seq(Sends)]
    BY DEF IInv, TypeOK, Send, Sending
<1>2. Sending(c) \in Sends
    <2>1. attempt[c].of.endpoint \in Endpoints /\ attempt[c].remaining \in Option(Duration)
        BY DEF IInv, CallOK, Send, Attempts
    <2>2. Late(c) \in Int
        BY <2>1 DEF IInv, TypeOK, Late, Option, Duration
    <2> QED BY <2>1, <2>2 DEF Sending, Sends, Endings, Option
<1>3. /\ Sending(c).endpoint = attempt[c].of.endpoint
      /\ Sending(c).outcome = "pending"
      /\ Sending(c).pause = None
    BY DEF Sending
<1> DEFINE s == Append(sent[c], Sending(c))
           n == Len(sent[c])
<1>4. /\ s \in Seq(Sends)
      /\ Len(s) = n + 1
      /\ \A i \in 1 .. n : s[i] = sent[c][i]
      /\ s[n + 1] = Sending(c)
    BY <1>1, <1>2, AppendProperties
<1>5. n \in Nat /\ DOMAIN sent[c] = 1 .. n
    BY <1>1, LenProperties
<1>6. DOMAIN s = 1 .. n + 1
    BY <1>4, LenProperties
<1> HIDE DEF s
<1> QED BY <1>1, <1>3, <1>4, <1>5, <1>6 DEF s

-----------------------------------------------------------------------------
(* What was answered stays answered.                                       *)

Stays ==
    \A d \in Calls : \A i \in DOMAIN sent[d] :
        Definitive(d, i) =>
            /\ i \in DOMAIN sent'[d]
            /\ sent'[d][i].endpoint = sent[d][i].endpoint
            /\ Definitive(d, i)'

LEMMA EarnedStays ==
    ASSUME PreferenceWasEarned, Stays, preferred' = preferred
    PROVE  PreferenceWasEarned'
    BY DEF PreferenceWasEarned, Stays

LEMMA EarnedAnew ==
    ASSUME NEW c \in Calls, NEW n \in DOMAIN sent'[c],
           sent'[c][n].endpoint = preferred', Definitive(c, n)'
    PROVE  PreferenceWasEarned'
    BY DEF PreferenceWasEarned

LEMMA SilentStays ==
    ASSUME sent' = sent, request' = request
    PROVE  Stays
    BY DEF Stays, Definitive

LEMMA StartStays ==
    ASSUME IInv, NEW c \in Calls, Start(c)
    PROVE  Stays
<1>1. sent' = sent /\ sent[c] = << >> /\ \A d \in Calls : d # c => request'[d] = request[d]
    BY DEF IInv, TypeOK, BudgetOK, Start, ghosts
<1>2. DOMAIN sent[c] = {}
    BY <1>1
<1> QED BY <1>1, <1>2 DEF Stays, Definitive

LEMMA SendStays ==
    ASSUME IInv, NEW c \in Calls, Send(c)
    PROVE  Stays
<1>1. request' = request
    BY DEF Send, config
<1>2. ASSUME NEW d \in Calls, NEW i \in DOMAIN sent[d]
      PROVE  i \in DOMAIN sent'[d] /\ sent'[d][i] = sent[d][i]
    BY SendingEntries
<1> QED BY <1>1, <1>2 DEF Stays, Definitive

\* The entry an ending is written over was open, so nothing rests on it.
LEMMA EndedStays ==
    ASSUME IInv, NEW c \in Calls, pc[c] = "inflight", Flying(c), request' = request,
           NEW how, NEW retryAfter, sent' = Ended(c, how, retryAfter)
    PROVE  Stays
<1>1. sent \in [Calls -> Seq(Sends)] /\ sent[c] # << >>
    BY InFlightType
<1>2. ~Definitive(c, Len(sent[c]))
    BY DEF Flying, Definitive
<1>3. ASSUME NEW d \in Calls, NEW i \in DOMAIN sent[d], Definitive(d, i)
      PROVE  i \in DOMAIN sent'[d] /\ sent'[d][i] = sent[d][i]
    BY <1>1, <1>2, <1>3, EndedEntries
<1> QED BY <1>3 DEF Stays, Definitive

LEMMA DecideStays ==
    ASSUME IInv, NEW c \in Calls, Decide(c)
    PROVE  Stays
<1>1. sent \in [Calls -> Seq(Sends)] /\ sent[c] # << >>
    BY InFlightType DEF Decide
<1>2. request' = request
    BY DEF Decide, config
<1>3. CASE sent' = sent
    BY <1>2, <1>3, SilentStays
<1>4. ASSUME NEW pause, sent' = [sent EXCEPT ![c][Len(sent[c])].pause = pause]
      PROVE  Stays
    <2>1. ASSUME NEW d \in Calls, NEW i \in DOMAIN sent[d]
          PROVE  /\ i \in DOMAIN sent'[d]
                 /\ sent'[d][i].endpoint = sent[d][i].endpoint
                 /\ sent'[d][i].outcome = sent[d][i].outcome
        BY <1>1, <1>4, PausedEntries
    <2> QED BY <1>2, <2>1 DEF Stays, Definitive
<1>5. sent' = sent \/ \E pause : sent' = [sent EXCEPT ![c][Len(sent[c])].pause = pause]
    BY DEF Decide
<1> QED BY <1>3, <1>4, <1>5

-----------------------------------------------------------------------------
(* One step per action: the preference, and what is in flight.             *)

\* What each call's step has to show: the preference was earned, and this
\* call's attempt is as it should be.  The others are where they were.
Earned(c) == PreferenceWasEarned' /\ Flying(c)'

LEMMA SendEarns ==
    ASSUME IInv, PInv, NEW c \in Calls, Send(c)
    PROVE  Earned(c)
<1>1. /\ sent'[c][Len(sent'[c])].endpoint = attempt[c].of.endpoint
      /\ sent'[c][Len(sent'[c])].outcome = "pending"
    BY SendingEntries
<1>2. attempt' = attempt /\ preferred' = preferred
    BY DEF Send
<1> QED BY <1>1, <1>2, SendStays, EarnedStays DEF Earned, Flying, PInv

LEMMA SucceedEarns ==
    ASSUME IInv, PInv, NEW c \in Calls, Succeed(c)
    PROVE  /\ Earned(c)
           /\ Definitive(c, Len(sent[c]))'
           /\ preferred' = attempt[c].of.endpoint
<1>1. PICK status \in Statuses : IsSuccess(status) /\ sent' = Ended(c, status, None)
    BY DEF Succeed
<1> DEFINE n == Len(sent[c])
<1>2. sent \in [Calls -> Seq(Sends)] /\ sent[c] # << >>
    BY InFlightType DEF Succeed
<1>3. /\ Len(sent'[c]) = n /\ n \in DOMAIN sent'[c]
      /\ sent'[c][n].endpoint = sent[c][n].endpoint /\ sent'[c][n].outcome = status
    BY <1>1, <1>2, EndedEntries
<1>4. /\ preferred' = attempt[c].of.endpoint /\ request' = request
      /\ sent[c][n].endpoint = attempt[c].of.endpoint
      /\ pc'[c] = "done"
    BY DEF Succeed, config, PInv, Flying, IInv, TypeOK
<1>5. Definitive(c, n)'
    BY <1>1, <1>3, StatusAssumption DEF Definitive
<1>6. PreferenceWasEarned'
    BY <1>3, <1>4, <1>5, EarnedAnew
<1> QED BY <1>3, <1>4, <1>5, <1>6 DEF Earned, Flying

\* A status that rotates is not definitive, any other is.
LEMMA AnswerEarns ==
    ASSUME IInv, PInv, NEW c \in Calls, Answer(c)
    PROVE  /\ Earned(c)
           /\ preferred' = IF Definitive(c, Len(sent[c]))' THEN attempt[c].of.endpoint
                           ELSE preferred
<1>1. PICK status \in Statuses, retryAfter \in RetryAfters :
          LET accepted == status \in request[c].accept
              how      == OfStatus(status, retryAfter, accepted, request[c].retry_on)
          IN  /\ ~IsSuccess(status)
              /\ preferred' = IF IsRotation(how) THEN preferred ELSE attempt[c].of.endpoint
              /\ sent'      = Ended(c, status, retryAfter)
    BY DEF Answer
<1> DEFINE n == Len(sent[c])
           accepted == status \in request[c].accept
           how == OfStatus(status, retryAfter, accepted, request[c].retry_on)
<1>2. sent \in [Calls -> Seq(Sends)] /\ sent[c] # << >>
    BY InFlightType DEF Answer
<1>3. /\ Len(sent'[c]) = n /\ n \in DOMAIN sent'[c]
      /\ sent'[c][n].endpoint = sent[c][n].endpoint /\ sent'[c][n].outcome = status
    BY <1>1, <1>2, EndedEntries
<1>4. /\ request' = request /\ pc[c] = "inflight" /\ pc'[c] # "inflight"
      /\ sent[c][n].endpoint = attempt[c].of.endpoint
    BY DEF Answer, config, PInv, Flying, IInv, TypeOK
<1>5. Definitive(c, n)' <=> status \notin request[c].retry_on
    BY <1>1, <1>3, <1>4, StatusAssumption DEF Definitive
<1>6. IsRotation(how) <=> status \in request[c].retry_on
    BY DEF OfStatus, Rotation, InPlace, Final, IsRotation
<1> HIDE DEF how
<1>7. preferred' = IF Definitive(c, n)' THEN attempt[c].of.endpoint ELSE preferred
    BY <1>1, <1>5, <1>6 DEF how
<1>8. PreferenceWasEarned'
    <2>1. CASE Definitive(c, n)'
        BY <1>3, <1>4, <1>7, <2>1, EarnedAnew
    <2>2. CASE ~Definitive(c, n)'
        <3>1. Stays
            BY <1>1, <1>4, EndedStays DEF PInv
        <3> QED BY <1>7, <2>2, <3>1, EarnedStays DEF PInv
    <2> QED BY <2>1, <2>2
<1> QED BY <1>3, <1>4, <1>7, <1>8 DEF Earned, Flying

\* An attempt that ends without an answer moves nothing.
LEMMA UnansweredEarns ==
    ASSUME IInv, PInv, NEW c \in Calls, pc[c] = "inflight", pc'[c] # "inflight",
           NEW how \in {"connect", "timeout", "io", "redirect"},
           sent' = Ended(c, how, None), request' = request, preferred' = preferred
    PROVE  Earned(c) /\ ~Definitive(c, Len(sent[c]))'
<1>1. sent \in [Calls -> Seq(Sends)] /\ sent[c] # << >>
    BY InFlightType
<1>2. Len(sent'[c]) = Len(sent[c]) /\ sent'[c][Len(sent'[c])].outcome = how
    BY <1>1, EndedEntries
<1>3. Stays
    BY EndedStays DEF PInv
<1> QED BY <1>2, <1>3, EarnedStays DEF Earned, Flying, Definitive, PInv

LEMMA FailEarns ==
    ASSUME IInv, PInv, NEW c \in Calls, NEW connect, NEW timeout, Fail(c, connect, timeout)
    PROVE  /\ Earned(c) /\ ~Definitive(c, Len(sent[c]))'
           /\ preferred' = preferred
<1> DEFINE how == IF connect THEN "connect" ELSE IF timeout THEN "timeout" ELSE "io"
<1>1. /\ sent' = Ended(c, how, None) /\ how \in {"connect", "timeout", "io", "redirect"}
      /\ pc[c] = "inflight" /\ pc'[c] # "inflight"
      /\ preferred' = preferred /\ request' = request
    BY DEF Fail, config, IInv, TypeOK
<1> HIDE DEF how
<1> QED BY <1>1, UnansweredEarns

LEMMA RefuseRedirectEarns ==
    ASSUME IInv, PInv, NEW c \in Calls, RefuseRedirect(c)
    PROVE  /\ Earned(c) /\ ~Definitive(c, Len(sent[c]))'
           /\ preferred' = preferred
<1>1. /\ sent' = Ended(c, "redirect", None)
      /\ pc[c] = "inflight" /\ pc'[c] # "inflight"
      /\ preferred' = preferred /\ request' = request
    BY DEF RefuseRedirect, config, IInv, TypeOK
<1> QED BY <1>1, UnansweredEarns

\* Every other step leaves the call out of flight and what it sent answered.
LEMMA QuietEarns ==
    ASSUME PInv, NEW c \in Calls, Stays, preferred' = preferred, pc'[c] # "inflight"
    PROVE  Earned(c)
    BY EarnedStays DEF Earned, Flying, PInv

LEMMA StepEarns ==
    ASSUME IInv, PInv, NEW c \in Calls, Step(c)
    PROVE  Earned(c)
<1> USE DEF config, ghosts
<1>1. CASE Start(c)
    <2>1. pc'[c] # "inflight" /\ preferred' = preferred
        BY <1>1 DEF Start, IInv, TypeOK
    <2> QED BY <1>1, <2>1, StartStays, QuietEarns
<1>2. CASE Begin(c) \/ BeginTooLate(c) \/ BodyRead(c) \/ Wake(c) \/ Drop(c)
    <2>1. /\ pc'[c] # "inflight" /\ preferred' = preferred
          /\ sent' = sent /\ request' = request
        BY <1>2 DEF Begin, BeginTooLate, BodyRead, Wake, Drop, IInv, TypeOK
    <2> QED BY <2>1, SilentStays, QuietEarns
<1>3. CASE Send(c)
    BY <1>3, SendEarns
<1>4. CASE Succeed(c)
    BY <1>4, SucceedEarns
<1>5. CASE Answer(c)
    BY <1>5, AnswerEarns
<1>6. CASE Disconnect(c) \/ OwnTimeout(c)
    BY <1>6, FailEarns DEF Disconnect, OwnTimeout
<1>7. CASE Expire(c)
    BY <1>2, <1>7, FailEarns DEF Expire
<1>8. CASE RefuseRedirect(c)
    BY <1>8, RefuseRedirectEarns
<1>9. CASE Decide(c)
    <2>1. pc'[c] # "inflight" /\ preferred' = preferred
        BY <1>9 DEF Decide, IInv, TypeOK
    <2> QED BY <1>9, <2>1, DecideStays, QuietEarns
<1> QED BY <1>1, <1>2, <1>3, <1>4, <1>5, <1>6, <1>7, <1>8, <1>9 DEF Step, Run

\* A step of one call leaves every other where it was.
LEMMA OthersStand ==
    ASSUME IInv, NEW c \in Calls, Step(c), NEW d \in Calls, d # c
    PROVE  pc'[d] = pc[d] /\ attempt'[d] = attempt[d] /\ sent'[d] = sent[d]
<1> USE DEF config, ghosts
<1>1. CASE Start(c)
    BY <1>1 DEF IInv, TypeOK, Start
<1>2. CASE Begin(c)
    BY <1>2 DEF IInv, TypeOK, Begin
<1>3. CASE BeginTooLate(c) \/ BodyRead(c) \/ Wake(c) \/ Drop(c)
    BY <1>3 DEF IInv, TypeOK, BeginTooLate, BodyRead, Wake, Drop
<1>4. CASE Send(c)
    BY <1>4 DEF IInv, TypeOK, Send
<1>5. ASSUME NEW how, NEW retryAfter, pc[c] = "inflight",
             sent' = Ended(c, how, retryAfter)
      PROVE  sent'[d] = sent[d]
    BY <1>5, InFlightType, EndedEntries
<1>6. CASE Succeed(c)
    BY <1>5, <1>6 DEF IInv, TypeOK, Succeed
<1>7. CASE Answer(c)
    BY <1>5, <1>7 DEF IInv, TypeOK, Answer
<1>8. ASSUME NEW connect, NEW timeout, Fail(c, connect, timeout)
      PROVE  pc'[d] = pc[d] /\ attempt'[d] = attempt[d] /\ sent'[d] = sent[d]
    BY <1>5, <1>8 DEF IInv, TypeOK, Fail
<1>9. CASE Disconnect(c) \/ OwnTimeout(c) \/ Expire(c)
    BY <1>3, <1>8, <1>9 DEF Disconnect, OwnTimeout, Expire
<1>10. CASE RefuseRedirect(c)
    BY <1>5, <1>10 DEF IInv, TypeOK, RefuseRedirect
<1>11. CASE Decide(c)
    <2>1. pc'[d] = pc[d] /\ attempt'[d] = attempt[d]
        BY <1>11 DEF IInv, TypeOK, Decide
    <2>2. sent'[d] = sent[d]
        BY <1>11, InFlightType, PausedEntries DEF Decide
    <2> QED BY <2>1, <2>2
<1> QED BY <1>1, <1>2, <1>3, <1>4, <1>6, <1>7, <1>9, <1>10, <1>11 DEF Step, Run

LEMMA PNext == IInv /\ PInv /\ [Next]_vars => PInv'
<1> SUFFICES ASSUME IInv, PInv, [Next]_vars PROVE PInv'
    OBVIOUS
<1>1. ASSUME preferred' = preferred, sent' = sent, request' = request, pc' = pc,
             attempt' = attempt
      PROVE  PInv'
    BY <1>1, SilentStays, EarnedStays DEF PInv, Flying
<1>2. CASE Tick \/ Terminated \/ UNCHANGED vars
    BY <1>1, <1>2 DEF Tick, Terminated, vars, config, loop, ghosts
<1>3. ASSUME NEW c \in Calls, Step(c) PROVE PInv'
    <2>1. Earned(c)
        BY <1>3, StepEarns
    <2>2. ASSUME NEW d \in Calls, d # c PROVE Flying(d)'
        BY <1>3, <2>2, OthersStand DEF PInv, Flying
    <2> QED BY <2>1, <2>2 DEF PInv, Earned
<1> QED BY <1>2, <1>3 DEF Next

LEMMA PInductive == Spec => [](IInv /\ PInv)
<1>1. Init => PInv
    BY DEF Init, PInv, PreferenceWasEarned, Flying
<1> QED BY <1>1, PNext, Inductive, PTL DEF Spec

\* The endpoint calls start at is the first of the set, or one that answered
\* some call with a status that call does not rotate on.
THEOREM PreferenceEarned == Spec => []PreferenceWasEarned
<1>1. PInv => PreferenceWasEarned
    BY DEF PInv
<1> QED BY <1>1, PInductive, PTL

\* A call that gets a definitive answer leaves the preference where it came
\* from, and an attempt that ends otherwise leaves it alone.
THEOREM AnswerPreferred == Spec => DefinitiveAnswerIsPreferred
<1> DEFINE A == \A c \in Calls :
                   pc[c] = "inflight" /\ sent'[c] # sent[c] =>
                       preferred' = IF Definitive(c, Len(sent[c]))'
                                    THEN attempt[c].of.endpoint ELSE preferred
<1>1. IInv /\ PInv /\ [Next]_vars => [A]_vars
    <2> SUFFICES ASSUME IInv, PInv, Next, NEW c \in Calls,
                        pc[c] = "inflight", sent'[c] # sent[c]
                 PROVE  preferred' = IF Definitive(c, Len(sent[c]))'
                                     THEN attempt[c].of.endpoint ELSE preferred
        OBVIOUS
    <2>1. Step(c)
        <3>1. ~Tick /\ ~Terminated
            BY DEF Tick, Terminated, vars, ghosts
        <3>2. PICK d \in Calls : Step(d)
            BY <3>1 DEF Next
        <3> QED BY <3>2, OthersStand
    <2>2. CASE Succeed(c)
        BY <2>2, SucceedEarns
    <2>3. CASE Answer(c)
        BY <2>3, AnswerEarns
    <2>4. ASSUME NEW connect, NEW timeout, Fail(c, connect, timeout)
          PROVE  preferred' = preferred /\ ~Definitive(c, Len(sent[c]))'
        BY <2>4, FailEarns
    <2>5. CASE RefuseRedirect(c)
        BY <2>5, RefuseRedirectEarns
    <2>6. CASE Disconnect(c) \/ OwnTimeout(c) \/ Expire(c)
        BY <2>4, <2>6 DEF Disconnect, OwnTimeout, Expire, BodyRead
    <2>7. ~(Start(c) \/ Run(c) \/ BodyRead(c) \/ Drop(c))
        BY DEF Start, Run, Begin, BeginTooLate, Send, Decide, Wake, BodyRead, Drop, ghosts
    <2> QED BY <2>1, <2>2, <2>3, <2>5, <2>6, <2>7 DEF Step
<1>2. [][A]_vars <=> DefinitiveAnswerIsPreferred
    BY DEF DefinitiveAnswerIsPreferred
<1> HIDE DEF A
<1> QED BY <1>1, <1>2, PInductive, PTL DEF Spec

-----------------------------------------------------------------------------
(***************************************************************************)
(* The record a call returns, for any calls, sets, policies and answers:   *)
(* an exhausted set's trace and a response's trace list the attempts that  *)
(* went on the wire, in order, and prove what they say they prove.         *)
(*                                                                         *)
(* The trace is written a step behind the wire, and an entry is marked     *)
(* rotated two steps behind it: RecordedOK says, for each place a call may *)
(* be at, how far its trace has got, and Concluded what it has become once *)
(* the call returns.                                                       *)
(***************************************************************************)

-----------------------------------------------------------------------------
(* What Failover writes down.                                              *)

\* A pause leaves the trace and the endpoint alone.
LEMMA TakePauseRecord ==
    ASSUME NEW f \in Failovers, NEW policy, NEW retryAfter, NEW draw, NEW remaining
    PROVE  LET step == TakePause(f, policy, retryAfter, draw, remaining)
           IN  /\ step.failover.trace = f.trace
               /\ step.failover.current = f.current
               /\ step.stop \in {None, Spent(f)}
<1> DEFINE pause == IF retryAfter # None
                    THEN FitsBefore(retryAfter, remaining)
                    ELSE Pause(policy, SaturatingInc(f.pauses), draw, remaining)
           g == [f EXCEPT !.pauses = SaturatingInc(f.pauses)]
<1>1. g.trace = f.trace /\ g.current = f.current
    BY DEF Failovers
<1>2. TakePause(f, policy, retryAfter, draw, remaining)
          = IF pause = None THEN Halt(f, Spent(f)) ELSE GoOn(g, pause)
    BY DEF TakePause
<1> HIDE DEF pause, g
<1> QED BY <1>1, <1>2 DEF Halt, GoOn

\* What a step that goes on leaves pending.
Resent(step, f, reason) ==
    LET h == step.failover
    IN  /\ h.trace = f.trace
        /\ step.stop = None =>
              /\ h.pending # None
              /\ h.pending.reason = reason
              /\ IF h.pending.kind = "Rotation"
                 THEN h.pending.from = f.current /\ h.current # f.current
                 ELSE h.current = f.current
        /\ step.stop \in {None, Spent(f)}

\* The next endpoint of a set of more than one is another.
LEMMA NextIsAnother ==
    ASSUME inner \in Clients, inner.len > 1, NEW e \in Endpoints
    PROVE  (e + 1) % inner.len # e
    BY InnerType DEF Endpoints

LEMMA RotateRecord ==
    ASSUME inner \in Clients, inner.len > 1,
           NEW f \in Failovers, NEW policy \in Policies, NEW reason \in Reasons,
           NEW retryAfter \in RetryAfters \cup {None}, NEW draw \in Draws,
           NEW remaining \in Option(Duration)
    PROVE  Resent(Rotate(f, policy, reason, retryAfter, draw, remaining), f, reason)
<1> DEFINE smallest == CycleRetryAfter(f, retryAfter)
           asked    == IF EndsCycle(f) THEN << >> ELSE << smallest >>
           counted  == [f EXCEPT !.streak = f.streak + 1, !.cycle = asked]
           step     == IF EndsCycle(f)
                       THEN TakePause(counted, policy, smallest, draw, remaining)
                       ELSE GoOn(counted, None)
           next     == (step.failover.current + 1) % f.len
           moved    == [step.failover EXCEPT !.current = next]
           resend   == [kind |-> "Rotation", from |-> f.current, reason |-> reason]
           resent   == [moved EXCEPT !.pending = resend]
<1>1. smallest \in RetryAfters \cup {None}
    BY CycleRetryAfterType
<1>2. counted \in Failovers /\ counted.trace = f.trace /\ counted.current = f.current
    <2> HIDE DEF smallest
    <2>1. asked \in {<< >>} \cup {<<d>> : d \in RetryAfters \cup {None}}
        BY <1>1
    <2> HIDE DEF asked
    <2>2. f.streak + 1 \in Nat
        BY DEF Failovers
    <2> QED BY <2>1, <2>2 DEF Failovers
<1>3. Spent(counted) = Spent(f)
    BY <1>2 DEF Spent
<1>4. Rotate(f, policy, reason, retryAfter, draw, remaining)
          = IF step.stop # None THEN step
            ELSE Resending([step EXCEPT !.failover.current = next], resend)
    BY DEF Rotate
<1> HIDE DEF smallest, counted
<1>5. GoOn(counted, None) \in Steps /\ GoOn(counted, None).failover = counted
      /\ GoOn(counted, None).stop = None
    BY <1>2 DEF GoOn, Steps, Option
<1>6. /\ step \in Steps
      /\ step.failover.trace = f.trace /\ step.failover.current = f.current
      /\ step.stop \in {None, Spent(f)}
    BY <1>1, <1>2, <1>3, <1>5, TakePauseType, TakePauseRecord
<1> HIDE DEF step
<1>7. next \in Endpoints /\ next # f.current
    <2>1. f.len = inner.len /\ f.current \in Endpoints
        BY DEF Failovers
    <2>2. next = (f.current + 1) % inner.len
        BY <1>6, <2>1
    <2>3. next \in Endpoints
        BY <2>1, <2>2, InnerType DEF Endpoints
    <2> QED BY <2>1, <2>2, <2>3, NextIsAnother
<1> HIDE DEF next
<1>8. step.failover \in Failovers
    BY <1>6 DEF Steps
<1>9. moved \in Failovers /\ moved.trace = f.trace /\ moved.current = next
    BY <1>6, <1>7, <1>8 DEF Failovers
<1>10. Resending([step EXCEPT !.failover.current = next], resend).failover = resent
    <2>1. [step EXCEPT !.failover.current = next] = [step EXCEPT !.failover = moved]
        OBVIOUS
    <2> HIDE DEF moved, resend
    <2>2. [step EXCEPT !.failover = moved] \in Steps
        BY <1>6, <1>9 DEF Steps
    <2>3. ASSUME NEW s \in Steps
          PROVE  Resending(s, resend).failover = [s.failover EXCEPT !.pending = resend]
        BY DEF Steps, Resending
    <2>4. [step EXCEPT !.failover = moved].failover = moved
        BY <1>6 DEF Steps
    <2> QED BY <2>1, <2>2, <2>3, <2>4
<1>11. Resending([step EXCEPT !.failover.current = next], resend).stop = step.stop
    <2>1. ASSUME NEW s \in Steps, NEW m, NEW r
          PROVE  [[s EXCEPT !.failover.current = m] EXCEPT !.failover.pending = r].stop = s.stop
        BY DEF Steps
    <2> QED BY <1>6, <2>1 DEF Resending
<1>12. resend # None /\ resend.reason = reason /\ resend.kind = "Rotation"
       /\ resend.from = f.current
    <2>1. f.current \in Nat
        BY DEF Failovers, Endpoints
    <2> QED BY <2>1, ResendAssumption
<1> HIDE DEF moved, resend
<1>13. resent.trace = f.trace /\ resent.current = next /\ resent.pending = resend
    BY <1>9 DEF Failovers
<1> HIDE DEF resent
<1> QED BY <1>4, <1>6, <1>7, <1>10, <1>11, <1>12, <1>13 DEF Resent

LEMMA RetryInPlaceRecord ==
    ASSUME NEW f \in Failovers, NEW policy \in Policies, NEW reason \in Reasons,
           NEW retryAfter \in RetryAfters \cup {None}, NEW draw \in Draws,
           NEW remaining \in Option(Duration)
    PROVE  Resent(RetryInPlace(f, policy, reason, retryAfter, draw, remaining), f, reason)
<1> DEFINE reset  == [f EXCEPT !.streak = 0, !.cycle = << >>]
           step   == TakePause(reset, policy, retryAfter, draw, remaining)
           resend == [kind |-> "Retry", reason |-> reason]
           resent == [step.failover EXCEPT !.pending = resend]
<1>1. reset \in Failovers /\ reset.trace = f.trace /\ reset.current = f.current
    BY DEF Failovers
<1>2. RetryInPlace(f, policy, reason, retryAfter, draw, remaining)
          = IF step.stop # None THEN step ELSE Resending(step, resend)
    BY DEF RetryInPlace
<1>3. Spent(reset) = Spent(f)
    BY <1>1 DEF Spent
<1> HIDE DEF reset
<1>4. /\ step \in Steps
      /\ step.failover.trace = f.trace /\ step.failover.current = f.current
      /\ step.stop \in {None, Spent(f)}
    BY <1>1, <1>3, TakePauseType, TakePauseRecord
<1> HIDE DEF step
<1>5. step.failover \in Failovers
    BY <1>4 DEF Steps
<1>6. /\ Resending(step, resend).failover = resent
      /\ Resending(step, resend).stop = step.stop
    <2>1. ASSUME NEW s \in Steps, NEW r
          PROVE  LET t == [s EXCEPT !.failover.pending = r]
                 IN  t.failover = [s.failover EXCEPT !.pending = r] /\ t.stop = s.stop
        BY DEF Steps
    <2> HIDE DEF resend
    <2> QED BY <1>4, <2>1 DEF Resending
<1>7. resend # None /\ resend.reason = reason /\ resend.kind = "Retry"
    BY ResendAssumption
<1> HIDE DEF resend
<1>8. resent.trace = f.trace /\ resent.current = f.current /\ resent.pending = resend
    BY <1>4, <1>5 DEF Failovers
<1> HIDE DEF resent
<1> QED BY <1>2, <1>4, <1>6, <1>7, <1>8 DEF Resent

\* A final outcome is not traced and is returned as it is; any other is
\* traced, and the set is exhausted only once the call has rotated.
LEMMA AfterRecord ==
    ASSUME inner \in Clients,
           NEW f \in Failovers, NEW out \in Outcomes, NEW policy \in Option(Policies),
           NEW draw \in Draws, NEW remaining \in Option(Duration)
    PROVE  LET step == After(f, out, policy, draw, remaining)
               g    == Traced(f, out.reason)
           IN  /\ out.kind = "Final" => step.failover = f /\ step.stop = "Raw"
               /\ out.kind # "Final" => Resent(step, g, out.reason) \/ step = Halt(g, "Raw")
<1> DEFINE step == After(f, out, policy, draw, remaining)
           g    == Traced(f, out.reason)
<1>1. CASE out.kind = "Final"
    BY <1>1 DEF After, Halt
<1>2. CASE out.kind # "Final" /\ policy = None
    BY <1>2 DEF After
<1>3. CASE out.kind # "Final" /\ policy # None
    <2>1. out.reason \in Reasons /\ out.retry_after \in RetryAfters \cup {None}
        BY <1>3 DEF Outcomes, Final
    <2>2. g \in Failovers /\ policy \in Policies
        BY <1>3, <2>1, TracedType DEF Option
    <2> HIDE DEF g
    <2>3. CASE ~ShouldRetry(policy, g.attempts)
        <3>1. step = Halt(g, Spent(g))
            BY <1>3, <2>3 DEF After, g
        <3>2. Spent(g) # None
            BY StopAssumption DEF Spent
        <3> QED BY <1>3, <3>1, <3>2 DEF Resent, Halt, g
    <2>4. CASE ShouldRetry(policy, g.attempts)
        <3>1. step = IF g.len > 1 /\ IsRotation(out)
                     THEN Rotate(g, policy, out.reason, out.retry_after, draw, remaining)
                     ELSE RetryInPlace(g, policy, out.reason, out.retry_after, draw, remaining)
            BY <1>3, <2>4 DEF After, g
        <3>2. g.len = inner.len
            BY <2>2 DEF Failovers
        <3> HIDE DEF step
        <3>3. Resent(step, g, out.reason)
            BY <2>1, <2>2, <3>1, <3>2, RotateRecord, RetryInPlaceRecord
        <3> QED BY <1>3, <3>3 DEF step, g
    <2> QED BY <2>3, <2>4
<1> QED BY <1>1, <1>2, <1>3

-----------------------------------------------------------------------------
(* What the wire says of it.                                               *)

Rows == [endpoint : Endpoints, outcome : Endings, rotated : BOOLEAN]

LEMMA FunctionIsSeq ==
    ASSUME NEW n \in Nat, NEW S, NEW f \in [1 .. n -> S]
    PROVE  f \in Seq(S) /\ Len(f) = n
<1>1. f \in Seq(S)
    OBVIOUS
<1> QED BY <1>1, LenProperties

LEMMA WireType ==
    ASSUME NEW c \in Calls, sent[c] \in Seq(Sends)
    PROVE  /\ Len(sent[c]) \in Nat
           /\ \A i \in 1 .. Len(sent[c]) : sent[c][i] \in Sends
    BY LenProperties, ElementOfSeq

LEMMA TraceType ==
    ASSUME NEW c \in Calls, sent[c] \in Seq(Sends), NEW n \in 0 .. Len(sent[c])
    PROVE  TraceOf(c, n) \in Seq(Rows) /\ Len(TraceOf(c, n)) = n
<1>1. ASSUME NEW i \in 1 .. n
      PROVE  sent[c][i].endpoint \in Endpoints /\ sent[c][i].outcome \in Endings
    <2>1. sent[c][i] \in Sends
        BY WireType
    <2> QED BY <2>1 DEF Sends
<1>2. TraceOf(c, n) \in [1 .. n -> Rows]
    BY <1>1 DEF TraceOf, Rows
<1> QED BY <1>2, FunctionIsSeq, WireType

\* The latest attempt is not followed by another.
LEMMA LastRow ==
    ASSUME NEW c \in Calls, Len(sent[c]) \in Nat \ {0}
    PROVE  LET n == Len(sent[c])
           IN  TraceOf(c, n)[n] = [endpoint |-> sent[c][n].endpoint,
                                   outcome  |-> sent[c][n].outcome,
                                   rotated  |-> FALSE]
<1> DEFINE n     == Len(sent[c])
           moved == n < Len(sent[c]) /\ sent[c][n + 1].endpoint # sent[c][n].endpoint
<1>1. TraceOf(c, n)[n] = [endpoint |-> sent[c][n].endpoint, outcome |-> sent[c][n].outcome,
                          rotated |-> moved]
    BY DEF TraceOf
<1>2. moved = FALSE
    OBVIOUS
<1> HIDE DEF moved
<1> QED BY <1>1, <1>2, Zenon

\* Not followed by another, it is the last entry.
LEMMA TraceExtends ==
    ASSUME NEW c \in Calls, sent[c] \in Seq(Sends), sent[c] # << >>
    PROVE  LET n == Len(sent[c])
           IN  TraceOf(c, n) = Append(TraceOf(c, n - 1),
                                      [endpoint |-> sent[c][n].endpoint,
                                       outcome  |-> sent[c][n].outcome,
                                       rotated  |-> FALSE])
<1> DEFINE n   == Len(sent[c])
           row == [endpoint |-> sent[c][n].endpoint, outcome |-> sent[c][n].outcome,
                   rotated |-> FALSE]
           all == TraceOf(c, n)
           but == TraceOf(c, n - 1)
<1>1. n \in Nat \ {0}
    BY EmptySeq
<1>2. /\ all \in Seq(Rows) /\ Len(all) = n
      /\ but \in Seq(Rows) /\ Len(but) = n - 1
    BY <1>1, TraceType
<1>3. row \in Rows
    <2>1. sent[c][n] \in Sends
        BY <1>1, WireType
    <2> QED BY <2>1 DEF Rows, Sends
<1>4. /\ Append(but, row) \in Seq(Rows) /\ Len(Append(but, row)) = n
      /\ \A i \in 1 .. n - 1 : Append(but, row)[i] = but[i]
      /\ Append(but, row)[n] = row
    <2> HIDE DEF but, row
    <2> QED BY <1>1, <1>2, <1>3, AppendProperties
<1>5. \A i \in 1 .. n - 1 : all[i] = but[i]
    BY <1>1 DEF TraceOf
<1>6. all[n] = row
    BY <1>1, LastRow
<1> HIDE DEF all, but, row
<1>7. \A i \in 1 .. n : all[i] = Append(but, row)[i]
    BY <1>1, <1>4, <1>5, <1>6
<1> QED BY <1>2, <1>4, <1>7, SeqEqual DEF all, but, row

\* Two histories that went to the same endpoints, and ended alike as far as
\* the trace goes, have the same trace.
LEMMA SameTrace ==
    ASSUME NEW c \in Calls, Len(sent[c]) \in Nat, Len(sent'[c]) = Len(sent[c]),
           NEW m \in 0 .. Len(sent[c]),
           \A i \in 1 .. Len(sent[c]) : sent'[c][i].endpoint = sent[c][i].endpoint,
           \A i \in 1 .. m : sent'[c][i].outcome = sent[c][i].outcome
    PROVE  TraceOf(c, m)' = TraceOf(c, m)
<1>1. ASSUME NEW i \in 1 .. m
      PROVE  /\ sent'[c][i].endpoint = sent[c][i].endpoint
             /\ sent'[c][i].outcome = sent[c][i].outcome
             /\ (i < Len(sent'[c]) /\ sent'[c][i + 1].endpoint # sent'[c][i].endpoint)
                    = (i < Len(sent[c]) /\ sent[c][i + 1].endpoint # sent[c][i].endpoint)
    <2>1. i \in 1 .. Len(sent[c])
        OBVIOUS
    <2>2. i < Len(sent[c]) => i + 1 \in 1 .. Len(sent[c])
        OBVIOUS
    <2> QED BY <2>1, <2>2
<1> QED BY <1>1 DEF TraceOf

\* The trace of a call about to send: its last entry is marked when the next
\* attempt goes elsewhere.
SendingTrace(c, next) ==
    [i \in 1 .. Len(sent[c]) |->
        [endpoint |-> sent[c][i].endpoint,
         outcome  |-> sent[c][i].outcome,
         rotated  |-> IF i < Len(sent[c]) THEN sent[c][i + 1].endpoint # sent[c][i].endpoint
                      ELSE next # sent[c][i].endpoint]]

LEMMA BegunRecord ==
    ASSUME NEW c \in Calls, sent[c] \in Seq(Sends), sent[c] # << >>,
           NEW f \in Failovers, f.trace = TraceOf(c, Len(sent[c])), f.pending # None,
           f.pending.kind = "Rotation" <=> f.current # sent[c][Len(sent[c])].endpoint
    PROVE  Begun(f).trace = SendingTrace(c, f.current)
<1> DEFINE n == Len(sent[c])
           t == TraceOf(c, n)
           marked == [t EXCEPT ![n].rotated = TRUE]
<1>1. n \in Nat \ {0} /\ n \in 1 .. n
    BY EmptySeq
<1>2. Len(f.trace) = n /\ f.trace # << >>
    BY <1>1, TraceType
<1>3. Begun(f).trace = IF RotationPending(f) THEN marked ELSE t
    BY <1>2 DEF Begun, Failovers
<1>4. CASE f.current = sent[c][n].endpoint
    <2>1. Begun(f).trace = t
        BY <1>3, <1>4 DEF RotationPending
    <2>2. t = SendingTrace(c, f.current)
        <3>1. ASSUME NEW i \in 1 .. n
              PROVE  (i < n /\ sent[c][i + 1].endpoint # sent[c][i].endpoint)
                         = IF i < n THEN sent[c][i + 1].endpoint # sent[c][i].endpoint
                           ELSE f.current # sent[c][i].endpoint
            <4>1. ~(i < n) => i = n
                BY <1>1
            <4> QED BY <1>4, <4>1
        <3> QED BY <3>1 DEF TraceOf, SendingTrace
    <2> QED BY <2>1, <2>2
<1>5. CASE f.current # sent[c][n].endpoint
    <2>1. Begun(f).trace = marked
        BY <1>3, <1>5 DEF RotationPending
    <2>2. marked = SendingTrace(c, f.current)
        <3>1. t[n] = [endpoint |-> sent[c][n].endpoint, outcome |-> sent[c][n].outcome,
                      rotated |-> FALSE]
            BY <1>1, LastRow
        <3> DEFINE row == [endpoint |-> sent[c][n].endpoint, outcome |-> sent[c][n].outcome,
                           rotated |-> TRUE]
        <3>2. [t[n] EXCEPT !.rotated = TRUE] = row
            <4>1. ASSUME NEW z \in Rows, NEW b
                  PROVE  [z EXCEPT !.rotated = b]
                             = [endpoint |-> z.endpoint, outcome |-> z.outcome, rotated |-> b]
                BY DEF Rows
            <4>2. t[n] \in Rows
                BY <1>1, TraceType, ElementOfSeq
            <4>3. t[n].endpoint = sent[c][n].endpoint /\ t[n].outcome = sent[c][n].outcome
                BY <3>1
            <4> HIDE DEF t
            <4> QED BY <4>1, <4>2, <4>3
        <3>3. marked = [t EXCEPT ![n] = row]
            BY <3>2
        <3>4. SendingTrace(c, f.current)[n] = row
            <4> DEFINE moves == IF n < Len(sent[c])
                                THEN sent[c][n + 1].endpoint # sent[c][n].endpoint
                                ELSE f.current # sent[c][n].endpoint
            <4>1. SendingTrace(c, f.current)[n]
                      = [endpoint |-> sent[c][n].endpoint, outcome |-> sent[c][n].outcome,
                         rotated |-> moves]
                BY <1>1 DEF SendingTrace
            <4>2. moves = TRUE
                BY <1>1, <1>5
            <4> HIDE DEF moves
            <4> QED BY <4>1, <4>2, Zenon
        <3>5. \A i \in 1 .. n : i # n => SendingTrace(c, f.current)[i] = t[i]
            <4>1. \A i \in 1 .. n : i # n => i < n
                BY <1>1
            <4> QED BY <4>1 DEF SendingTrace, TraceOf
        <3>6. t = [i \in 1 .. n |-> t[i]]
            BY DEF TraceOf
        <3>7. SendingTrace(c, f.current) = [i \in 1 .. n |-> SendingTrace(c, f.current)[i]]
            BY DEF SendingTrace
        <3> HIDE DEF t, row, marked
        <3> QED BY <1>1, <3>3, <3>4, <3>5, <3>6, <3>7
    <2> QED BY <2>1, <2>2
<1> QED BY <1>4, <1>5

-----------------------------------------------------------------------------
(* The invariant.                                                          *)

Latest(c) == sent[c][Len(sent[c])]

\* The result a call holds is that of its latest attempt.
Held(c) ==
    /\ last[c] \in Own
    /\ last[c].outcome = Latest(c).outcome
    /\ last[c].kind = "Ok" =>
          ~IsSuccess(Latest(c).outcome) /\ Latest(c).outcome \in request[c].accept

Asked(c) == Latest(c).outcome \in request[c].retry_on

\* A re-send to this endpoint says where the latest attempt went and why it
\* is not the last.
Tells(c, resend, endpoint) ==
    /\ resend # None
    /\ resend.reason = Latest(c).outcome
    /\ resend.kind = "Rotation" => resend.from = Latest(c).endpoint
    /\ resend.kind = "Rotation" <=> endpoint # Latest(c).endpoint

\* What the record r of a call that returned says of it.
Concluded(c, r) ==
    /\ r.kind # "DeadlineExceeded" => r.outcome = Latest(c).outcome
    /\ r.kind = "EndpointsExhausted" =>
          /\ r.trace = TraceOf(c, Len(sent[c]))
          /\ \E i \in 1 .. Len(sent[c]) : sent[c][i].endpoint # sent[c][1].endpoint
    /\ r.kind = "Ok" =>
          /\ IsSuccess(Latest(c).outcome) \/ Latest(c).outcome \in request[c].accept
          /\ IF Asked(c) /\ ~IsSuccess(Latest(c).outcome)
             THEN r.trace = TraceOf(c, Len(sent[c]))
             ELSE r.trace = TraceOf(c, Len(sent[c]) - 1)

RecordedOK(c) ==
    /\ pc[c] = "idle" => last[c] = None
    /\ pc[c] \in {"begin", "sleeping"} =>
          /\ failover[c].trace = TraceOf(c, Len(sent[c]))
          /\ sent[c] = << >> => last[c] = None /\ failover[c].pending = None
          /\ sent[c] # << >> => /\ Held(c)
                                /\ last[c].kind = "Ok" => Asked(c)
                                /\ Tells(c, failover[c].pending, failover[c].current)
    /\ pc[c] = "send" =>
          /\ failover[c].current = attempt[c].of.endpoint
          /\ attempt[c].of.number = Len(sent[c]) + 1
          /\ sent[c] = << >> => attempt[c].of.resend = None
          /\ sent[c] # << >> => Tells(c, attempt[c].of.resend, attempt[c].of.endpoint)
          /\ failover[c].trace = SendingTrace(c, attempt[c].of.endpoint)
    /\ pc[c] \in {"inflight", "body", "after"} =>
          /\ failover[c].current = Latest(c).endpoint
          /\ failover[c].trace = TraceOf(c, Len(sent[c]) - 1)
    /\ pc[c] \in {"body", "after"} =>
          /\ Held(c)
          /\ outcome[c].kind # "Final" => outcome[c].reason = Latest(c).outcome
          /\ last[c].kind = "Ok" => (outcome[c].kind # "Final" <=> Asked(c))
    /\ pc[c] = "done" => Concluded(c, result[c])

RInv == \A c \in Calls : RecordedOK(c)

-----------------------------------------------------------------------------
(* Where a call concludes.                                                 *)

\* An entry is marked only when the call went from one endpoint to another.
LEMMA MarkMeansMoved ==
    ASSUME NEW c \in Calls, Len(sent[c]) \in Nat \ {0},
           NEW i \in 1 .. Len(sent[c]), TraceOf(c, Len(sent[c]))[i].rotated
    PROVE  \E j \in 1 .. Len(sent[c]) : sent[c][j].endpoint # sent[c][1].endpoint
<1>1. i < Len(sent[c]) /\ sent[c][i + 1].endpoint # sent[c][i].endpoint
    BY DEF TraceOf
<1>2. i + 1 \in 1 .. Len(sent[c])
    BY <1>1
<1>3. \/ sent[c][i].endpoint # sent[c][1].endpoint
      \/ sent[c][i + 1].endpoint # sent[c][1].endpoint
    BY <1>1
<1> QED BY <1>2, <1>3

LEMMA SpentMeansMoved ==
    ASSUME NEW c \in Calls, Len(sent[c]) \in Nat \ {0},
           NEW f, f.trace = TraceOf(c, Len(sent[c])), Spent(f) = "Exhausted"
    PROVE  \E j \in 1 .. Len(sent[c]) : sent[c][j].endpoint # sent[c][1].endpoint
<1>1. PICK i \in DOMAIN f.trace : f.trace[i].rotated
    BY DEF Spent
<1>2. i \in 1 .. Len(sent[c])
    BY <1>1 DEF TraceOf
<1> QED BY <1>1, <1>2, MarkMeansMoved

\* A call that gives up with every attempt traced.
LEMMA GivesUp ==
    ASSUME NEW c \in Calls, Len(sent[c]) \in Nat \ {0}, Held(c),
           last[c].kind = "Ok" => Asked(c),
           NEW f, f.trace = TraceOf(c, Len(sent[c])),
           NEW why, why = "Exhausted" => Spent(f) = "Exhausted"
    PROVE  Concluded(c, ResultOf(why, f, last[c]))
<1> DEFINE r == ResultOf(why, f, last[c])
<1> SUFFICES Concluded(c, r)
    OBVIOUS
<1>1. last[c] # None /\ last[c].kind \in {"Ok", "Api", "Transport"}
    BY LastAssumption DEF Held, Own
<1>2. CASE last[c].kind = "Ok"
    <2>1. r = [kind |-> "Ok", outcome |-> last[c].outcome, trace |-> f.trace]
        BY <1>1, <1>2 DEF ResultOf
    <2> HIDE DEF r
    <2> QED BY <1>2, <2>1 DEF Concluded, Held
<1>3. CASE last[c].kind # "Ok" /\ why = "Exhausted"
    <2>1. r = [kind |-> "EndpointsExhausted", outcome |-> last[c].outcome, trace |-> f.trace]
        BY <1>1, <1>3 DEF ResultOf
    <2>2. \E j \in 1 .. Len(sent[c]) : sent[c][j].endpoint # sent[c][1].endpoint
        BY <1>3, SpentMeansMoved
    <2> HIDE DEF r
    <2> QED BY <2>1, <2>2 DEF Concluded, Held
<1>4. CASE last[c].kind # "Ok" /\ why # "Exhausted"
    <2>1. r.kind = last[c].kind /\ r.outcome = last[c].outcome
        BY <1>1, <1>4 DEF ResultOf
    <2> HIDE DEF r
    <2> QED BY <1>1, <1>4, <2>1 DEF Concluded, Held
<1> QED BY <1>2, <1>3, <1>4

\* A call whose latest attempt is final returns it, and does not trace it.
LEMMA Answers ==
    ASSUME NEW c \in Calls, Held(c), last[c].kind = "Ok" => ~Asked(c),
           NEW f, f.trace = TraceOf(c, Len(sent[c]) - 1)
    PROVE  Concluded(c, ResultOf("Raw", f, last[c]))
<1> DEFINE r == ResultOf("Raw", f, last[c])
<1> SUFFICES Concluded(c, r)
    OBVIOUS
<1>1. last[c] # None /\ last[c].kind \in {"Ok", "Api", "Transport"}
    BY LastAssumption DEF Held, Own
<1>2. CASE last[c].kind = "Ok"
    <2>1. r = [kind |-> "Ok", outcome |-> last[c].outcome, trace |-> f.trace]
        BY <1>1, <1>2 DEF ResultOf
    <2> HIDE DEF r
    <2> QED BY <1>2, <2>1 DEF Concluded, Held
<1>3. CASE last[c].kind # "Ok"
    <2>1. r.kind = last[c].kind /\ r.outcome = last[c].outcome
        BY <1>1, <1>3 DEF ResultOf
    <2> HIDE DEF r
    <2> QED BY <1>1, <1>3, <2>1 DEF Concluded, Held
<1> QED BY <1>2, <1>3

LEMMA StaysConcluded ==
    ASSUME NEW c \in Calls, NEW r, Concluded(c, r),
           sent'[c] = sent[c], request'[c] = request[c]
    PROVE  result'[c] = r => Concluded(c, result[c])'
    BY DEF Concluded, Latest, Asked, TraceOf

-----------------------------------------------------------------------------
(* One step per action.                                                    *)

LEMMA EmptyTraces ==
    ASSUME NEW c \in Calls, sent[c] = << >>, NEW next
    PROVE  TraceOf(c, Len(sent[c])) = << >> /\ SendingTrace(c, next) = << >>
<1>1. Len(sent[c]) = 0
    BY EmptySeq
<1>2. ASSUME NEW f, f = [i \in 1 .. 0 |-> f[i]] PROVE f = << >>
    BY <1>2
<1> QED BY <1>1, <1>2 DEF TraceOf, SendingTrace

LEMMA StartRecords ==
    ASSUME IInv, NEW c \in Calls, RecordedOK(c), Start(c)
    PROVE  RecordedOK(c)'
<1>1. /\ pc'[c] = "begin" /\ pc[c] = "idle"
      /\ sent' = sent /\ sent[c] = << >> /\ last'[c] = last[c]
      /\ failover'[c].trace = << >> /\ failover'[c].pending = None
    BY DEF IInv, TypeOK, BudgetOK, Start, New, ghosts
<1>2. TraceOf(c, Len(sent[c]))' = << >>
    BY <1>1, EmptyTraces DEF TraceOf
<1> QED BY <1>1, <1>2 DEF RecordedOK

LEMMA BeginRecords ==
    ASSUME IInv, NEW c \in Calls, RecordedOK(c), Begin(c)
    PROVE  RecordedOK(c)'
<1> DEFINE f == failover[c]
           g == Begun(f)
<1>1. /\ pc'[c] = "send" /\ pc[c] = "begin" /\ sent' = sent
      /\ failover'[c] = g
      /\ attempt'[c].of.endpoint = f.current
      /\ attempt'[c].of.number = SaturatingInc(f.attempts)
      /\ attempt'[c].of.resend = f.pending
      /\ sent[c] \in Seq(Sends)
    BY DEF IInv, TypeOK, Begin, NextAttempt, ghosts
<1>2. f \in Failovers
    BY DEF IInv, CallOK, Begin
<1>3. SaturatingInc(f.attempts) = Len(sent[c]) + 1
    <2>1. f.attempts \in Nat /\ f.attempts < MaxCount /\ Len(sent[c]) = f.attempts
        BY <1>1, <1>2, BudgetType, MaxCountAssumption DEF IInv, TypeOK, BudgetOK, Failovers
    <2> QED BY <2>1, SaturatingIncType
<1>4. g.current = f.current
    BY <1>2 DEF Begun, Failovers
<1>5. g.trace = SendingTrace(c, f.current)
    <2>1. CASE sent[c] = << >>
        <3>1. f.pending = None /\ f.trace = << >>
            BY <1>1, <2>1, EmptyTraces DEF RecordedOK
        <3>2. g.trace = f.trace
            BY <1>2, <3>1 DEF Begun, RotationPending, Failovers
        <3> QED BY <2>1, <3>1, <3>2, EmptyTraces
    <2>2. CASE sent[c] # << >>
        <3>1. /\ f.trace = TraceOf(c, Len(sent[c])) /\ f.pending # None
              /\ f.pending.kind = "Rotation" <=> f.current # sent[c][Len(sent[c])].endpoint
            BY <1>1, <2>2 DEF RecordedOK, Tells, Latest
        <3> QED BY <1>1, <1>2, <2>2, <3>1, BegunRecord
    <2> QED BY <2>1, <2>2
<1>6. /\ sent[c] = << >> => f.pending = None
      /\ sent[c] # << >> => Tells(c, f.pending, f.current)
    BY <1>1 DEF RecordedOK
<1> HIDE DEF f, g
<1>7. SendingTrace(c, attempt[c].of.endpoint)' = SendingTrace(c, f.current)
    BY <1>1 DEF SendingTrace
<1>8. sent[c] # << >> => Tells(c, attempt[c].of.resend, attempt[c].of.endpoint)'
    BY <1>1, <1>6 DEF Tells, Latest
<1> QED BY <1>1, <1>3, <1>4, <1>5, <1>6, <1>7, <1>8 DEF RecordedOK

LEMMA BeginTooLateRecords ==
    ASSUME IInv, NEW c \in Calls, RecordedOK(c), BeginTooLate(c)
    PROVE  RecordedOK(c)'
<1> DEFINE f == failover[c]
           r == ResultOf(BeginStop(f), f, last[c])
<1>1. /\ pc'[c] = "done" /\ pc[c] = "begin" /\ sent' = sent /\ request' = request
      /\ result'[c] = r
      /\ sent[c] \in Seq(Sends)
    BY DEF IInv, TypeOK, BeginTooLate, config, ghosts
<1>2. Concluded(c, r)
    <2>1. CASE sent[c] = << >>
        <3>1. r.kind = "DeadlineExceeded"
            BY <1>1, <2>1 DEF RecordedOK, ResultOf
        <3> HIDE DEF r
        <3> QED BY <3>1 DEF Concluded
    <2>2. CASE sent[c] # << >>
        <3>1. Len(sent[c]) \in Nat \ {0}
            BY <1>1, <2>2, EmptySeq
        <3>2. /\ f.trace = TraceOf(c, Len(sent[c])) /\ Held(c)
              /\ last[c].kind = "Ok" => Asked(c)
            BY <1>1, <2>2 DEF RecordedOK
        <3>3. BeginStop(f) = "Exhausted" => Spent(f) = "Exhausted"
            BY DEF BeginStop
        <3> QED BY <3>1, <3>2, <3>3, GivesUp
    <2> QED BY <2>1, <2>2
<1> HIDE DEF r
<1>3. Concluded(c, result[c])'
    BY <1>1, <1>2, StaysConcluded
<1> QED BY <1>1, <1>3 DEF RecordedOK

\* The attempt joins the wire, and the trace is one behind it.
LEMMA SendRecords ==
    ASSUME IInv, NEW c \in Calls, RecordedOK(c), Send(c)
    PROVE  RecordedOK(c)'
<1> DEFINE n == Len(sent[c])
           e == attempt[c].of.endpoint
<1>1. /\ n \in Nat /\ Len(sent'[c]) = n + 1
      /\ \A i \in 1 .. n : sent'[c][i] = sent[c][i]
      /\ sent'[c][n + 1].endpoint = e
    BY SendingEntries
<1>2. pc'[c] = "inflight" /\ pc[c] = "send" /\ failover' = failover
    BY DEF IInv, TypeOK, Send
<1>3. TraceOf(c, Len(sent[c]) - 1)' = SendingTrace(c, e)
    <2>1. Len(sent'[c]) - 1 = n
        BY <1>1
    <2>2. ASSUME NEW i \in 1 .. n
          PROVE  /\ sent'[c][i].endpoint = sent[c][i].endpoint
                 /\ sent'[c][i].outcome = sent[c][i].outcome
                 /\ (i < Len(sent'[c]) /\ sent'[c][i + 1].endpoint # sent'[c][i].endpoint)
                        = IF i < n THEN sent[c][i + 1].endpoint # sent[c][i].endpoint
                          ELSE e # sent[c][i].endpoint
        <3>1. i < Len(sent'[c]) /\ sent'[c][i] = sent[c][i]
            BY <1>1
        <3>2. CASE i < n
            <4>1. sent'[c][i + 1] = sent[c][i + 1]
                BY <1>1, <3>2
            <4> QED BY <3>1, <3>2, <4>1
        <3>3. CASE ~(i < n)
            <4>1. i = n
                BY <1>1, <3>3
            <4> QED BY <1>1, <3>1, <3>3, <4>1
        <3> QED BY <3>2, <3>3
    <2>3. TraceOf(c, Len(sent[c]) - 1)'
              = [i \in 1 .. n |->
                    [endpoint |-> sent'[c][i].endpoint,
                     outcome  |-> sent'[c][i].outcome,
                     rotated  |-> i < Len(sent'[c])
                                  /\ sent'[c][i + 1].endpoint # sent'[c][i].endpoint]]
        BY <2>1 DEF TraceOf
    <2> QED BY <2>2, <2>3 DEF SendingTrace
<1>4. Latest(c)'.endpoint = e
    BY <1>1 DEF Latest
<1> QED BY <1>2, <1>3, <1>4 DEF RecordedOK

\* How an attempt ends is written on its own entry, which no trace has yet.
LEMMA EndedRecord ==
    ASSUME IInv, NEW c \in Calls, pc[c] = "inflight",
           NEW how, NEW retryAfter, sent' = Ended(c, how, retryAfter)
    PROVE  /\ Len(sent[c]) \in Nat \ {0} /\ Len(sent'[c]) = Len(sent[c])
           /\ TraceOf(c, Len(sent[c]) - 1)' = TraceOf(c, Len(sent[c]) - 1)
           /\ Latest(c)'.endpoint = Latest(c).endpoint
           /\ Latest(c)'.outcome = how
<1> DEFINE n == Len(sent[c])
<1>1. sent \in [Calls -> Seq(Sends)] /\ sent[c] # << >>
    BY InFlightType
<1>2. /\ n \in Nat \ {0} /\ Len(sent'[c]) = n
      /\ \A i \in 1 .. n : i # n => sent'[c][i] = sent[c][i]
      /\ sent'[c][n].endpoint = sent[c][n].endpoint
      /\ sent'[c][n].outcome = how
    BY <1>1, EndedEntries
<1>3. \A i \in 1 .. n : sent'[c][i].endpoint = sent[c][i].endpoint
    BY <1>2
<1>4. n - 1 \in 0 .. n /\ \A i \in 1 .. n - 1 : sent'[c][i].outcome = sent[c][i].outcome
    <2>1. \A i \in 1 .. n - 1 : i \in 1 .. n /\ i # n
        BY <1>2
    <2> QED BY <1>2, <2>1
<1>5. \A m \in {n - 1} : TraceOf(c, m)' = TraceOf(c, m)
    BY <1>2, <1>3, <1>4, SameTrace
<1>6. TraceOf(c, Len(sent[c]) - 1)' = TraceOf(c, n - 1)
    BY <1>2, <1>5 DEF TraceOf
<1> QED BY <1>2, <1>6 DEF Latest

LEMMA SucceedRecords ==
    ASSUME IInv, NEW c \in Calls, RecordedOK(c), Succeed(c)
    PROVE  RecordedOK(c)'
<1>1. PICK status \in Statuses :
          /\ IsSuccess(status)
          /\ sent'   = Ended(c, status, None)
          /\ result' = [result EXCEPT ![c] = [kind |-> "Ok", outcome |-> status,
                                              trace |-> failover[c].trace]]
    BY DEF Succeed
<1>2. pc[c] = "inflight" /\ pc'[c] = "done"
    BY DEF IInv, TypeOK, Succeed
<1>3. /\ TraceOf(c, Len(sent[c]) - 1)' = TraceOf(c, Len(sent[c]) - 1)
      /\ Latest(c)'.outcome = status
    BY <1>1, <1>2, EndedRecord
<1>4. /\ result'[c].kind = "Ok" /\ result'[c].outcome = status
      /\ result'[c].trace = TraceOf(c, Len(sent[c]) - 1)
    BY <1>1, <1>2 DEF IInv, TypeOK, RecordedOK
<1>5. Concluded(c, result[c])'
    BY <1>1, <1>3, <1>4 DEF Concluded
<1> QED BY <1>2, <1>5 DEF RecordedOK

LEMMA AnswerRecords ==
    ASSUME IInv, NEW c \in Calls, RecordedOK(c), Answer(c)
    PROVE  RecordedOK(c)'
<1>1. PICK status \in Statuses, retryAfter \in RetryAfters :
          LET accepted == status \in request[c].accept
              how      == OfStatus(status, retryAfter, accepted, request[c].retry_on)
          IN  /\ ~IsSuccess(status)
              /\ outcome' = [outcome EXCEPT ![c] = how]
              /\ last'    = [last EXCEPT ![c] = [kind    |-> IF accepted THEN "Ok" ELSE "Api",
                                                 outcome |-> status]]
              /\ sent'    = Ended(c, status, retryAfter)
    BY DEF Answer
<1> DEFINE accepted == status \in request[c].accept
           how == OfStatus(status, retryAfter, accepted, request[c].retry_on)
           own == [kind |-> IF accepted THEN "Ok" ELSE "Api", outcome |-> status]
<1>2. /\ pc[c] = "inflight" /\ pc'[c] \in {"body", "after"}
      /\ failover' = failover /\ request' = request
      /\ outcome'[c] = how /\ last'[c] = own
    BY <1>1 DEF IInv, TypeOK, Answer, config
<1>3. /\ TraceOf(c, Len(sent[c]) - 1)' = TraceOf(c, Len(sent[c]) - 1)
      /\ Latest(c)'.endpoint = Latest(c).endpoint
      /\ Latest(c)'.outcome = status
    BY <1>1, <1>2, EndedRecord
<1>4. how.kind # "Final" => how.reason = status
    BY DEF OfStatus, Rotation, InPlace, Final
<1>5. accepted => (how.kind # "Final" <=> status \in request[c].retry_on)
    BY DEF OfStatus, Rotation, InPlace, Final
<1>6. /\ own \in Own /\ own.outcome = status
      /\ own.kind = "Ok" => accepted
    BY DEF Own, Endings, Reasons
<1> HIDE DEF how, own
<1>7. Held(c)'
    BY <1>1, <1>2, <1>3, <1>6 DEF Held
<1>8. last'[c].kind = "Ok" => (outcome'[c].kind # "Final" <=> Asked(c)')
    BY <1>2, <1>3, <1>5, <1>6 DEF Asked
<1> QED BY <1>2, <1>3, <1>4, <1>7, <1>8 DEF RecordedOK

LEMMA BodyReadRecords ==
    ASSUME IInv, NEW c \in Calls, RecordedOK(c), BodyRead(c)
    PROVE  RecordedOK(c)'
<1>1. pc[c] = "body" /\ pc'[c] = "after"
    BY DEF IInv, TypeOK, BodyRead
<1>2. <<request, failover, outcome, last, sent>>' = <<request, failover, outcome, last, sent>>
    BY DEF BodyRead, config, ghosts
<1>3. failover[c].current = Latest(c).endpoint /\ failover[c].trace = TraceOf(c, Len(sent[c]) - 1)
    BY <1>1 DEF RecordedOK
<1>4. /\ Held(c)
      /\ outcome[c].kind # "Final" => outcome[c].reason = Latest(c).outcome
      /\ last[c].kind = "Ok" => (outcome[c].kind # "Final" <=> Asked(c))
    BY <1>1 DEF RecordedOK
<1>5. (failover[c].current = Latest(c).endpoint
       /\ failover[c].trace = TraceOf(c, Len(sent[c]) - 1))'
    BY <1>2, <1>3 DEF Latest, TraceOf
<1>6. (/\ Held(c)
       /\ outcome[c].kind # "Final" => outcome[c].reason = Latest(c).outcome
       /\ last[c].kind = "Ok" => (outcome[c].kind # "Final" <=> Asked(c)))'
    BY <1>2, <1>4 DEF Held, Latest, Asked
<1> QED BY <1>1, <1>5, <1>6 DEF RecordedOK

LEMMA FailRecords ==
    ASSUME IInv, NEW c \in Calls, RecordedOK(c), NEW connect, NEW timeout,
           Fail(c, connect, timeout)
    PROVE  RecordedOK(c)'
<1> DEFINE how == IF connect THEN "connect" ELSE IF timeout THEN "timeout" ELSE "io"
           own == [kind |-> "Transport", outcome |-> how]
           out == OfTransport(connect, timeout)
<1>1. /\ sent' = Ended(c, how, None)
      /\ pc[c] = "inflight" /\ pc'[c] = "after"
      /\ failover' = failover
      /\ outcome'[c] = out /\ last'[c] = own
    BY DEF IInv, TypeOK, Fail
<1>2. /\ own \in Own /\ own.outcome = how /\ own.kind = "Transport"
    BY DEF Own, Endings, Reasons
<1>3. out.kind # "Final" => out.reason = how
    BY DEF OfTransport, Rotation, Final
<1> HIDE DEF how, own, out
<1>4. /\ TraceOf(c, Len(sent[c]) - 1)' = TraceOf(c, Len(sent[c]) - 1)
      /\ Latest(c)'.endpoint = Latest(c).endpoint
      /\ Latest(c)'.outcome = how
    BY <1>1, EndedRecord
<1>5. Held(c)'
    BY <1>1, <1>2, <1>4 DEF Held
<1> QED BY <1>1, <1>2, <1>3, <1>4, <1>5 DEF RecordedOK

LEMMA RefuseRedirectRecords ==
    ASSUME IInv, NEW c \in Calls, RecordedOK(c), RefuseRedirect(c)
    PROVE  RecordedOK(c)'
<1>1. /\ sent' = Ended(c, "redirect", None)
      /\ pc[c] = "inflight" /\ pc'[c] = "done"
      /\ result'[c].kind = "Config" /\ result'[c].outcome = "redirect"
    BY DEF IInv, TypeOK, RefuseRedirect
<1>2. Latest(c)'.outcome = "redirect"
    BY <1>1, EndedRecord
<1>3. Concluded(c, result[c])'
    BY <1>1, <1>2 DEF Concluded
<1> QED BY <1>1, <1>3 DEF RecordedOK

LEMMA WakeRecords ==
    ASSUME IInv, NEW c \in Calls, RecordedOK(c), Wake(c)
    PROVE  RecordedOK(c)'
<1>1. pc[c] = "sleeping" /\ pc'[c] = "begin"
    BY DEF IInv, TypeOK, Wake
<1>2. <<request, failover, last, sent>>' = <<request, failover, last, sent>>
    BY DEF Wake, config, ghosts
<1> QED BY <1>1, <1>2 DEF RecordedOK, Held, Asked, Tells, Latest, TraceOf

LEMMA DropRecords ==
    ASSUME IInv, NEW c \in Calls, Drop(c)
    PROVE  RecordedOK(c)'
<1>1. pc'[c] = "dropped"
    BY DEF IInv, TypeOK, Drop
<1> QED BY <1>1 DEF RecordedOK

\* What Failover::after makes of a call whose latest attempt is not final.
LEMMA DecidedRecord ==
    ASSUME IInv, NEW c \in Calls, RecordedOK(c), pc[c] = "after",
           outcome[c].kind # "Final", NEW draw \in Draws
    PROVE  LET step == After(failover[c], outcome[c], PolicyOf(c), draw, left[c])
           IN  /\ step.failover.trace = TraceOf(c, Len(sent[c]))
               /\ step.stop = None =>
                     Tells(c, step.failover.pending, step.failover.current)
               /\ step.stop = "Exhausted" => Spent(step.failover) = "Exhausted"
<1> DEFINE f    == failover[c]
           g    == Traced(f, outcome[c].reason)
           step == After(f, outcome[c], PolicyOf(c), draw, left[c])
<1>1. /\ inner \in Clients /\ f \in Failovers /\ outcome[c] \in Outcomes
      /\ left[c] \in Option(Duration)
      /\ sent[c] \in Seq(Sends) /\ sent[c] # << >>
    BY InFlightType DEF IInv, TypeOK, CallOK
<1>2. PolicyOf(c) \in Option(Policies)
    BY <1>1, BudgetType
<1>3. Resent(step, g, outcome[c].reason) \/ step = Halt(g, "Raw")
    <2> HIDE DEF f
    <2> QED BY <1>1, <1>2, AfterRecord
<1>4. /\ f.current = Latest(c).endpoint /\ f.trace = TraceOf(c, Len(sent[c]) - 1)
      /\ outcome[c].reason = Latest(c).outcome
    BY DEF RecordedOK
<1>5. /\ g.current = f.current
      /\ g.trace = Append(f.trace, [endpoint |-> f.current, outcome |-> outcome[c].reason,
                                    rotated |-> FALSE])
    BY <1>1 DEF Traced, Failovers
<1>6. g.trace = TraceOf(c, Len(sent[c]))
    BY <1>1, <1>4, <1>5, TraceExtends DEF Latest
<1> HIDE DEF f, g
<1>7. CASE step = Halt(g, "Raw")
    <2>1. step.failover = g /\ step.stop = "Raw"
        BY <1>7 DEF Halt
    <2> HIDE DEF step
    <2>2. step.stop # None
        BY <2>1, StopAssumption
    <2> QED BY <1>6, <2>1, <2>2 DEF step, f
<1>8. CASE Resent(step, g, outcome[c].reason)
    <2> HIDE DEF step
    <2>1. step.failover.trace = g.trace
        BY <1>8 DEF Resent
    <2>2. Spent(step.failover) = Spent(g)
        BY <2>1 DEF Spent
    <2>3. step.stop = "Exhausted" => Spent(g) = "Exhausted"
        BY <1>8, StopAssumption DEF Resent
    <2>4. step.stop = None => Tells(c, step.failover.pending, step.failover.current)
        BY <1>4, <1>5, <1>8 DEF Resent, Tells
    <2> QED BY <1>6, <2>1, <2>2, <2>3, <2>4 DEF step, f
<1> QED BY <1>3, <1>7, <1>8 DEF f

LEMMA DecideRecords ==
    ASSUME IInv, NEW c \in Calls, RecordedOK(c), Decide(c)
    PROVE  RecordedOK(c)'
<1>1. PICK draw \in 0 .. DrawDen - 1 :
          LET step == After(failover[c], outcome[c], PolicyOf(c), draw, left[c])
              f    == step.failover
          IN  /\ failover' = [failover EXCEPT ![c] = f]
              /\ \/ /\ step.stop # None
                    /\ result' = [result EXCEPT ![c] = ResultOf(step.stop, f, last[c])]
                    /\ pc'     = [pc EXCEPT ![c] = "done"]
                    /\ sent' = sent
                 \/ /\ step.stop = None
                    /\ pc' = [pc EXCEPT ![c] = "begin"]
                    /\ sent' = sent
                 \/ /\ step.stop = None
                    /\ sent' = [sent EXCEPT ![c][Len(sent[c])].pause = step.pause]
                    /\ pc'   = [pc EXCEPT ![c] = "sleeping"]
    BY DEF Decide
<1> DEFINE f    == failover[c]
           n    == Len(sent[c])
           step == After(f, outcome[c], PolicyOf(c), draw, left[c])
<1>2. /\ pc[c] = "after" /\ request' = request /\ last' = last
      /\ inner \in Clients /\ f \in Failovers /\ outcome[c] \in Outcomes
      /\ left[c] \in Option(Duration) /\ PolicyOf(c) \in Option(Policies)
      /\ sent \in [Calls -> Seq(Sends)] /\ sent[c] # << >> /\ n \in Nat \ {0}
      /\ failover'[c] = step.failover
      /\ draw \in Draws
    BY <1>1, InFlightType, BudgetType, DrawAssumption, EmptySeq
       DEF IInv, TypeOK, CallOK, Decide, config, Draws
<1>3. /\ Held(c)
      /\ last[c].kind = "Ok" => (outcome[c].kind # "Final" <=> Asked(c))
      /\ f.trace = TraceOf(c, n - 1)
    BY <1>2 DEF RecordedOK
<1>4. outcome[c].kind = "Final" => step.failover = f /\ step.stop = "Raw"
    <2> HIDE DEF f
    <2> QED BY <1>2, AfterRecord
<1>5. outcome[c].kind # "Final" =>
          /\ step.failover.trace = TraceOf(c, n)
          /\ step.stop = None => Tells(c, step.failover.pending, step.failover.current)
          /\ step.stop = "Exhausted" => Spent(step.failover) = "Exhausted"
    BY <1>2, DecidedRecord
<1>6. \/ /\ step.stop # None
         /\ result'[c] = ResultOf(step.stop, step.failover, last[c])
         /\ pc'[c] = "done"
         /\ sent' = sent
      \/ /\ step.stop = None
         /\ pc'[c] \in {"begin", "sleeping"}
         /\ sent' = sent \/ sent' = [sent EXCEPT ![c][Len(sent[c])].pause = step.pause]
    <2> DEFINE r == ResultOf(step.stop, step.failover, last[c])
    <2>1. pc \in [Calls -> PcStates] /\ \A x : [pc EXCEPT ![c] = x][c] = x
        BY DEF IInv, TypeOK
    <2>2. \A x : [result EXCEPT ![c] = x][c] = x
        BY DEF IInv, TypeOK
    <2> QED BY <1>1, <2>1, <2>2
<1> HIDE DEF f, step
<1>7. CASE step.stop # None
    <2> DEFINE r == ResultOf(step.stop, step.failover, last[c])
    <2>1. pc'[c] = "done" /\ sent' = sent /\ result'[c] = r
        BY <1>6, <1>7
    <2>2. Concluded(c, r)
        <3>1. CASE outcome[c].kind = "Final"
            <4>1. r = ResultOf("Raw", f, last[c])
                BY <1>4, <3>1
            <4>2. last[c].kind = "Ok" => ~Asked(c)
                BY <1>3, <3>1
            <4> HIDE DEF r
            <4> QED BY <1>3, <4>1, <4>2, Answers
        <3>2. CASE outcome[c].kind # "Final"
            <4>1. last[c].kind = "Ok" => Asked(c)
                BY <1>3, <3>2
            <4> QED BY <1>2, <1>3, <1>5, <3>2, <4>1, GivesUp
        <3> QED BY <3>1, <3>2
    <2> HIDE DEF r
    <2>3. Concluded(c, result[c])'
        BY <1>2, <2>1, <2>2, StaysConcluded
    <2> QED BY <2>1, <2>3 DEF RecordedOK
<1>8. CASE step.stop = None
    <2>1. /\ pc'[c] \in {"begin", "sleeping"}
          /\ sent' = sent \/ sent' = [sent EXCEPT ![c][Len(sent[c])].pause = step.pause]
        BY <1>6, <1>8
    <2>2. /\ outcome[c].kind # "Final"
          /\ step.failover.trace = TraceOf(c, n)
          /\ Tells(c, step.failover.pending, step.failover.current)
        BY <1>4, <1>5, <1>8, StopAssumption
    <2>3. /\ Len(sent'[c]) = n
          /\ \A i \in 1 .. n : /\ sent'[c][i].endpoint = sent[c][i].endpoint
                               /\ sent'[c][i].outcome = sent[c][i].outcome
        <3>1. ASSUME NEW pause, sent' = [sent EXCEPT ![c][Len(sent[c])].pause = pause]
              PROVE  /\ Len(sent'[c]) = n
                     /\ \A i \in 1 .. n : /\ sent'[c][i].endpoint = sent[c][i].endpoint
                                          /\ sent'[c][i].outcome = sent[c][i].outcome
            BY <1>2, <3>1, PausedEntries
        <3>2. CASE sent' = sent
            BY <3>2
        <3> QED BY <2>1, <3>1, <3>2
    <2>4. TraceOf(c, Len(sent[c]))' = TraceOf(c, n)
        <3>1. n \in 0 .. n
            BY <1>2
        <3>2. \A m \in {n} : TraceOf(c, m)' = TraceOf(c, m)
            BY <1>2, <2>3, <3>1, SameTrace
        <3> QED BY <2>3, <3>2 DEF TraceOf
    <2>5. sent'[c] # << >>
        BY <1>2, <2>3, EmptySeq
    <2>6. Latest(c)'.endpoint = Latest(c).endpoint /\ Latest(c)'.outcome = Latest(c).outcome
        BY <1>2, <2>3 DEF Latest
    <2>7. Held(c)' /\ (last[c].kind = "Ok" => Asked(c))'
        BY <1>2, <1>3, <2>2, <2>6 DEF Held, Asked
    <2>8. Tells(c, failover[c].pending, failover[c].current)'
        BY <1>2, <2>2, <2>6 DEF Tells
    <2> QED BY <1>2, <2>1, <2>2, <2>4, <2>5, <2>7, <2>8 DEF RecordedOK
<1> QED BY <1>7, <1>8

\* Time and the other calls leave a call's record alone.
LEMMA OthersRecord ==
    ASSUME NEW c \in Calls, RecordedOK(c),
           <<pc[c], request[c], failover[c], attempt[c], outcome[c], last[c], result[c],
             sent[c]>>'
               = <<pc[c], request[c], failover[c], attempt[c], outcome[c], last[c], result[c],
                   sent[c]>>
    PROVE  RecordedOK(c)'
    BY DEF RecordedOK, Concluded, Held, Asked, Tells, Latest, TraceOf, SendingTrace

LEMMA StepRecords ==
    ASSUME IInv, NEW c \in Calls, RecordedOK(c), Step(c)
    PROVE  RecordedOK(c)'
<1>1. CASE Start(c)
    BY <1>1, StartRecords
<1>2. CASE Begin(c) \/ BeginTooLate(c)
    BY <1>2, BeginRecords, BeginTooLateRecords
<1>3. CASE Send(c)
    BY <1>3, SendRecords
<1>4. CASE Succeed(c)
    BY <1>4, SucceedRecords
<1>5. CASE Answer(c)
    BY <1>5, AnswerRecords
<1>6. CASE BodyRead(c)
    BY <1>6, BodyReadRecords
<1>7. CASE Disconnect(c) \/ OwnTimeout(c) \/ Expire(c)
    BY <1>7, FailRecords, BodyReadRecords DEF Disconnect, OwnTimeout, Expire
<1>8. CASE RefuseRedirect(c)
    BY <1>8, RefuseRedirectRecords
<1>9. CASE Decide(c)
    BY <1>9, DecideRecords
<1>10. CASE Wake(c) \/ Drop(c)
    BY <1>10, WakeRecords, DropRecords
<1> QED BY <1>1, <1>2, <1>3, <1>4, <1>5, <1>6, <1>7, <1>8, <1>9, <1>10 DEF Step, Run

\* A step of one call leaves every other as it was.
LEMMA OthersRest ==
    ASSUME IInv, NEW c \in Calls, Step(c), NEW d \in Calls, d # c
    PROVE  <<request[d], failover[d], outcome[d], last[d], result[d]>>'
               = <<request[d], failover[d], outcome[d], last[d], result[d]>>
<1> USE DEF config
<1>1. CASE Start(c)
    BY <1>1 DEF IInv, TypeOK, Start
<1>2. CASE Begin(c)
    BY <1>2 DEF IInv, TypeOK, Begin
<1>3. CASE BeginTooLate(c)
    BY <1>3 DEF IInv, TypeOK, BeginTooLate
<1>4. CASE Send(c) \/ BodyRead(c) \/ Wake(c) \/ Drop(c)
    BY <1>4 DEF Send, BodyRead, Wake, Drop
<1>5. CASE Succeed(c)
    BY <1>5 DEF IInv, TypeOK, Succeed
<1>6. CASE Answer(c)
    BY <1>6 DEF IInv, TypeOK, Answer
<1>7. ASSUME NEW connect, NEW timeout, Fail(c, connect, timeout)
      PROVE  <<request[d], failover[d], outcome[d], last[d], result[d]>>'
                 = <<request[d], failover[d], outcome[d], last[d], result[d]>>
    BY <1>7 DEF IInv, TypeOK, Fail
<1>8. CASE Disconnect(c) \/ OwnTimeout(c) \/ Expire(c)
    BY <1>4, <1>7, <1>8 DEF Disconnect, OwnTimeout, Expire
<1>9. CASE RefuseRedirect(c)
    BY <1>9 DEF IInv, TypeOK, RefuseRedirect
<1>10. CASE Decide(c)
    BY <1>10 DEF IInv, TypeOK, Decide
<1> QED BY <1>1, <1>2, <1>3, <1>4, <1>5, <1>6, <1>8, <1>9, <1>10 DEF Step, Run

LEMMA RNext == IInv /\ RInv /\ [Next]_vars => RInv'
<1> SUFFICES ASSUME IInv, RInv, [Next]_vars, NEW d \in Calls PROVE RecordedOK(d)'
    BY DEF RInv
<1>1. RecordedOK(d)
    BY DEF RInv
<1>2. CASE Tick \/ Terminated \/ UNCHANGED vars
    BY <1>1, <1>2, OthersRecord DEF Tick, Terminated, vars, config, loop, ghosts
<1>3. ASSUME NEW c \in Calls, Step(c) PROVE RecordedOK(d)'
    <2>1. CASE d = c
        BY <1>1, <1>3, <2>1, StepRecords
    <2>2. CASE d # c
        BY <1>1, <1>3, <2>2, OthersStand, OthersRest, OthersRecord
    <2> QED BY <2>1, <2>2
<1> QED BY <1>2, <1>3 DEF Next

LEMMA RInductive == Spec => [](IInv /\ RInv)
<1>1. Init => RInv
    BY DEF Init, RInv, RecordedOK
<1> QED BY <1>1, RNext, Inductive, PTL DEF Spec

\* An EndpointsExhausted error comes only from a call that left an endpoint
\* for another, and lists every attempt that was sent, the last one's outcome
\* being its own.
THEOREM ExhaustedTells == Spec => []ExhaustedTellsEverything
<1>1. RInv => ExhaustedTellsEverything
    <2> SUFFICES ASSUME RInv, NEW c \in Calls, pc[c] = "done",
                        result[c].kind = "EndpointsExhausted"
                 PROVE  /\ result[c].trace = TraceOf(c, Len(sent[c]))
                        /\ result[c].outcome = sent[c][Len(sent[c])].outcome
                        /\ \E i \in 1 .. Len(sent[c]) : sent[c][i].endpoint # sent[c][1].endpoint
        BY DEF ExhaustedTellsEverything
    <2>1. Concluded(c, result[c])
        BY DEF RInv, RecordedOK
    <2> QED BY <2>1 DEF Concluded, Latest
<1> QED BY <1>1, RInductive, PTL

\* A returned response lists every attempt before it, and itself only when it
\* is an accepted status the request rotates on.
THEOREM ResponseTells == Spec => []ResponseTellsTheRest
<1>1. RInv => ResponseTellsTheRest
    <2> SUFFICES ASSUME RInv, NEW c \in Calls, pc[c] = "done", result[c].kind = "Ok"
                 PROVE  LET n     == Len(sent[c])
                            final == sent[c][n].outcome
                            asked == final \in request[c].retry_on
                        IN  /\ result[c].trace
                                   = TraceOf(c, IF asked /\ ~IsSuccess(final) THEN n ELSE n - 1)
                            /\ IsSuccess(final) \/ final \in request[c].accept
        BY DEF ResponseTellsTheRest
    <2>1. Concluded(c, result[c])
        BY DEF RInv, RecordedOK
    <2> QED BY <2>1 DEF Concluded, Latest, Asked
<1> QED BY <1>1, RInductive, PTL

-----------------------------------------------------------------------------
(***************************************************************************)
(* What a caller may conclude from what it was told, for any calls, sets,  *)
(* policies and answers: an observer hears of each re-send as it happened, *)
(* and when the reasons in a record, or in the reports, all prove that the *)
(* request was not processed, it was not.                                  *)
(*                                                                         *)
(* AppliedOK says that a request that may have been processed left an      *)
(* outcome that admits it, and HeardOK that the reports are one behind the *)
(* wire; RecordedOK, above, does the rest.                                 *)
(***************************************************************************)

Admits(how) == how # "pending" /\ ~ProvesNotProcessed(how)

AppliedOK(c) ==
    applied[c] => \E i \in 1 .. Len(sent[c]) : Admits(sent[c][i].outcome)

ReportsOf(c, n) == [i \in 1 .. n |-> ReportOf(c, i)]

HeardOK(c) ==
    /\ pc[c] = "idle" => heard[c] = << >>
    /\ pc[c] # "idle" /\ request[c].observer =>
          heard[c] = ReportsOf(c, Greatest(Len(sent[c]) - 1, 0))

EInv ==
    /\ heard = [c \in Calls |-> heard[c]]
    /\ \A c \in Calls : AppliedOK(c) /\ HeardOK(c)

-----------------------------------------------------------------------------
(* A request that may have been processed left an outcome that admits it.  *)

LEMMA AdmittedStays ==
    ASSUME IInv, PInv, NEW c \in Calls, AppliedOK(c), Step(c), applied'[c] = applied[c]
    PROVE  AppliedOK(c)'
<1> SUFFICES ASSUME NEW i \in 1 .. Len(sent[c]), Admits(sent[c][i].outcome)
             PROVE  i \in 1 .. Len(sent'[c]) /\ sent'[c][i].outcome = sent[c][i].outcome
    BY DEF AppliedOK
<1>1. ASSUME sent' = sent PROVE i \in 1 .. Len(sent'[c]) /\ sent'[c][i].outcome = sent[c][i].outcome
    BY <1>1
<1>2. ASSUME pc[c] = "inflight", NEW how, NEW retryAfter, sent' = Ended(c, how, retryAfter)
      PROVE  i \in 1 .. Len(sent'[c]) /\ sent'[c][i].outcome = sent[c][i].outcome
    <2>1. sent[c][Len(sent[c])].outcome = "pending"
        BY <1>2 DEF PInv, Flying
    <2>2. i # Len(sent[c])
        BY <2>1 DEF Admits
    <2>3. sent \in [Calls -> Seq(Sends)] /\ sent[c] # << >>
        BY <1>2, InFlightType
    <2> QED BY <1>2, <2>2, <2>3, EndedEntries
<1>3. CASE Send(c)
    BY <1>3, SendingEntries
<1>4. CASE Decide(c)
    <2>1. sent \in [Calls -> Seq(Sends)] /\ sent[c] # << >>
        BY <1>4, InFlightType DEF Decide
    <2>2. ASSUME NEW pause, sent' = [sent EXCEPT ![c][Len(sent[c])].pause = pause]
          PROVE  i \in 1 .. Len(sent'[c]) /\ sent'[c][i].outcome = sent[c][i].outcome
        BY <2>1, <2>2, PausedEntries
    <2>3. sent' = sent \/ \E pause : sent' = [sent EXCEPT ![c][Len(sent[c])].pause = pause]
        BY <1>4 DEF Decide
    <2> QED BY <1>1, <2>2, <2>3
<1>5. CASE Succeed(c)
    BY <1>2, <1>5 DEF Succeed
<1>6. CASE Answer(c)
    BY <1>2, <1>6 DEF Answer
<1>7. ASSUME NEW connect, NEW timeout, Fail(c, connect, timeout)
      PROVE  i \in 1 .. Len(sent'[c]) /\ sent'[c][i].outcome = sent[c][i].outcome
    BY <1>2, <1>7 DEF Fail
<1>8. CASE RefuseRedirect(c)
    BY <1>2, <1>8 DEF RefuseRedirect
<1>9. CASE Start(c) \/ Begin(c) \/ BeginTooLate(c) \/ BodyRead(c) \/ Wake(c) \/ Drop(c)
    BY <1>1, <1>9 DEF Start, Begin, BeginTooLate, BodyRead, Wake, Drop, ghosts
<1>10. CASE Disconnect(c) \/ OwnTimeout(c) \/ Expire(c)
    BY <1>7, <1>9, <1>10 DEF Disconnect, OwnTimeout, Expire
<1> QED BY <1>3, <1>4, <1>5, <1>6, <1>8, <1>9, <1>10 DEF Step, Run

LEMMA EndedAdmits ==
    ASSUME IInv, NEW c \in Calls, pc[c] = "inflight",
           NEW how, NEW retryAfter, sent' = Ended(c, how, retryAfter), Admits(how)
    PROVE  AppliedOK(c)'
<1>1. sent \in [Calls -> Seq(Sends)] /\ sent[c] # << >>
    BY InFlightType
<1>2. Len(sent[c]) \in 1 .. Len(sent'[c]) /\ sent'[c][Len(sent[c])].outcome = how
    BY <1>1, EndedEntries
<1> QED BY <1>2 DEF AppliedOK

LEMMA StepAdmits ==
    ASSUME IInv, PInv, NEW c \in Calls, AppliedOK(c), Step(c)
    PROVE  AppliedOK(c)'
<1> USE DEF ghosts
<1>1. CASE Start(c) \/ Begin(c) \/ BeginTooLate(c) \/ Send(c) \/ BodyRead(c) \/ Decide(c)
           \/ Wake(c) \/ Drop(c)
    <2>1. applied' = applied
        BY <1>1 DEF Start, Begin, BeginTooLate, Send, BodyRead, Decide, Wake, Drop
    <2> QED BY <2>1, AdmittedStays
<1>2. CASE Succeed(c)
    <2>1. PICK status \in Statuses : IsSuccess(status) /\ sent' = Ended(c, status, None)
        BY <1>2 DEF Succeed
    <2>2. Admits(status)
        BY <2>1 DEF IsSuccess, Admits, ProvesNotProcessed
    <2> QED BY <1>2, <2>1, <2>2, EndedAdmits DEF Succeed
<1>3. CASE Answer(c)
    <2>1. PICK status \in Statuses, retryAfter \in RetryAfters :
              /\ sent' = Ended(c, status, retryAfter)
              /\ applied' = [applied EXCEPT ![c] = @ \/ MayHaveProcessed(status)]
        BY <1>3 DEF Answer
    <2>2. CASE MayHaveProcessed(status)
        <3>1. Admits(status)
            BY <2>2, StatusAssumption DEF MayHaveProcessed, Admits, ProvesNotProcessed
        <3> QED BY <1>3, <2>1, <3>1, EndedAdmits DEF Answer
    <2>3. CASE ~MayHaveProcessed(status)
        <3>1. applied'[c] = (applied[c] \/ FALSE) /\ applied[c] \in BOOLEAN
            BY <2>1, <2>3 DEF IInv, TypeOK
        <3>2. applied'[c] = applied[c]
            BY <3>1
        <3> QED BY <3>2, AdmittedStays
    <2> QED BY <2>2, <2>3
<1>4. ASSUME NEW connect, NEW timeout, Fail(c, connect, timeout), Step(c)
      PROVE  AppliedOK(c)'
    <2> DEFINE how == IF connect THEN "connect" ELSE IF timeout THEN "timeout" ELSE "io"
    <2>1. /\ sent' = Ended(c, how, None) /\ pc[c] = "inflight"
          /\ applied' = [applied EXCEPT ![c] = @ \/ MayHaveProcessed(how)]
        BY <1>4 DEF Fail
    <2>2. how # "pending"
        OBVIOUS
    <2> HIDE DEF how
    <2>3. CASE MayHaveProcessed(how)
        <3>1. Admits(how)
            BY <2>2, <2>3 DEF MayHaveProcessed, Admits, ProvesNotProcessed
        <3> QED BY <2>1, <3>1, EndedAdmits
    <2>4. CASE ~MayHaveProcessed(how)
        <3>1. applied'[c] = (applied[c] \/ FALSE) /\ applied[c] \in BOOLEAN
            BY <2>1, <2>4 DEF IInv, TypeOK
        <3>2. applied'[c] = applied[c]
            BY <3>1
        <3> QED BY <3>2, AdmittedStays
    <2> QED BY <2>3, <2>4
<1>5. CASE Disconnect(c) \/ OwnTimeout(c) \/ Expire(c)
    BY <1>1, <1>4, <1>5 DEF Disconnect, OwnTimeout, Expire
<1>6. CASE RefuseRedirect(c)
    <2>1. Admits("redirect")
        BY DEF Admits, ProvesNotProcessed
    <2> QED BY <1>6, <2>1, EndedAdmits DEF RefuseRedirect
<1> QED BY <1>1, <1>2, <1>3, <1>5, <1>6 DEF Step, Run

-----------------------------------------------------------------------------
(* The reports are one behind the wire.                                    *)

\* Two histories that went to the same endpoints, and but for the latest
\* attempt ended alike, are reported alike.
LEMMA SameReports ==
    ASSUME NEW c \in Calls, Len(sent[c]) \in Nat, Len(sent'[c]) = Len(sent[c]),
           \A i \in 1 .. Len(sent[c]) : sent'[c][i].endpoint = sent[c][i].endpoint,
           \A i \in 1 .. Len(sent[c]) - 1 : sent'[c][i].outcome = sent[c][i].outcome
    PROVE  ReportsOf(c, Greatest(Len(sent[c]) - 1, 0))'
               = ReportsOf(c, Greatest(Len(sent[c]) - 1, 0))
<1> DEFINE k == Greatest(Len(sent[c]) - 1, 0)
<1>1. Greatest(Len(sent'[c]) - 1, 0) = k
    OBVIOUS
<1>2. ASSUME NEW i \in 1 .. k PROVE ReportOf(c, i)' = ReportOf(c, i)
    <2>1. i \in 1 .. Len(sent[c]) - 1 /\ i \in 1 .. Len(sent[c]) /\ i + 1 \in 1 .. Len(sent[c])
        BY DEF Greatest
    <2>2. /\ sent'[c][i].endpoint = sent[c][i].endpoint
          /\ sent'[c][i].outcome = sent[c][i].outcome
          /\ sent'[c][i + 1].endpoint = sent[c][i + 1].endpoint
        BY <2>1
    <2> QED BY <2>2 DEF ReportOf
<1>3. ReportsOf(c, Greatest(Len(sent[c]) - 1, 0))' = [i \in 1 .. k |-> ReportOf(c, i)']
    BY <1>1 DEF ReportsOf
<1> HIDE DEF k
<1> QED BY <1>2, <1>3 DEF ReportsOf, k

\* What is reported as an attempt is sent is what the wire shows of it.
LEMMA SendReports ==
    ASSUME IInv, NEW c \in Calls, NEW n \in Nat \ {0}, n = Len(sent[c]),
           Len(sent'[c]) = n + 1, \A i \in 1 .. n : sent'[c][i] = sent[c][i],
           sent'[c][n + 1].endpoint = attempt[c].of.endpoint,
           Tells(c, attempt[c].of.resend, attempt[c].of.endpoint),
           attempt[c].of.number = n + 1
    PROVE  ReportOf(c, n)' = Report(attempt[c].of)
<1> DEFINE a == attempt[c].of
           r == Report(a)
<1>1. sent'[c][n] = sent[c][n] /\ sent[c][n] = Latest(c)
    BY DEF Latest
<1>2. a.resend.kind = "Rotation" <=> a.endpoint # Latest(c).endpoint
    BY DEF Tells
<1>3. CASE a.resend.kind = "Rotation"
    <2>1. r = [kind |-> "on_rotation", endpoint |-> Latest(c).endpoint,
               reason |-> Latest(c).outcome]
        BY <1>3 DEF Report, OnRotation, Tells
    <2>2. ReportOf(c, n)' = [kind |-> "on_rotation", endpoint |-> Latest(c).endpoint,
                             reason |-> Latest(c).outcome]
        BY <1>1, <1>2, <1>3 DEF ReportOf
    <2> QED BY <2>1, <2>2
<1>4. CASE a.resend.kind # "Rotation"
    <2>1. r = [kind |-> "on_retry", endpoint |-> a.endpoint,
               reason |-> Latest(c).outcome, number |-> n + 1]
        BY <1>4 DEF Report, OnRetry, Tells
    <2>2. ReportOf(c, n)' = [kind |-> "on_retry", endpoint |-> a.endpoint,
                             reason |-> Latest(c).outcome, number |-> n + 1]
        BY <1>1, <1>2, <1>4 DEF ReportOf
    <2> QED BY <2>1, <2>2
<1> QED BY <1>3, <1>4

\* The re-send reported as it is made is the one the wire shows.
LEMMA SendHears ==
    ASSUME IInv, NEW c \in Calls, RecordedOK(c), HeardOK(c),
           heard = [d \in Calls |-> heard[d]], Send(c)
    PROVE  HeardOK(c)'
<1> DEFINE a == attempt[c].of
<1>0. PICK n \in Nat : n = Len(sent[c])
    BY SendingEntries
<1>1. /\ n \in Nat /\ Len(sent'[c]) = n + 1
      /\ \A i \in 1 .. n : sent'[c][i] = sent[c][i]
      /\ sent'[c][n + 1].endpoint = a.endpoint
    BY <1>0, SendingEntries
<1>2. /\ pc'[c] = "inflight" /\ pc[c] = "send" /\ request' = request
      /\ heard'[c] = ToldCall(c, a)
    BY DEF IInv, TypeOK, Send, config
<1>3. SUFFICES ASSUME request[c].observer
               PROVE  heard'[c] = ReportsOf(c, n)'
    <2>1. Greatest(Len(sent'[c]) - 1, 0) = n
        BY <1>1 DEF Greatest
    <2>2. ASSUME heard'[c] = ReportsOf(c, n)'
          PROVE  heard'[c] = ReportsOf(c, Greatest(Len(sent[c]) - 1, 0))'
        BY <2>1, <2>2 DEF ReportsOf
    <2> QED BY <1>2, <2>2 DEF HeardOK
<1>4. heard[c] = ReportsOf(c, Greatest(n - 1, 0))
    BY <1>0, <1>2, <1>3 DEF HeardOK
<1>5. ASSUME NEW i \in 1 .. n - 1 PROVE ReportOf(c, i)' = ReportOf(c, i)
    <2>1. i \in 1 .. n /\ i + 1 \in 1 .. n
        BY <1>1
    <2>2. sent'[c][i] = sent[c][i] /\ sent'[c][i + 1] = sent[c][i + 1]
        BY <1>1, <2>1
    <2> QED BY <2>2 DEF ReportOf
<1>6. CASE sent[c] = << >>
    <2>1. n = 0 /\ a.resend = None
        BY <1>0, <1>2, <1>6 DEF RecordedOK
    <2>2. heard'[c] = heard[c]
        BY <1>2, <2>1 DEF ToldCall
    <2>3. heard[c] = << >>
        <3>1. Greatest(n - 1, 0) = 0
            BY <2>1 DEF Greatest
        <3> QED BY <1>4, <3>1 DEF ReportsOf
    <2>4. ReportsOf(c, n)' = << >>
        BY <2>1 DEF ReportsOf
    <2> QED BY <2>2, <2>3, <2>4
<1>7. CASE sent[c] # << >>
    <2>1. n \in Nat \ {0}
        BY <1>0, <1>7, EmptySeq DEF IInv, TypeOK
    <2>2. Tells(c, a.resend, a.endpoint) /\ a.number = n + 1
        BY <1>0, <1>2, <1>7 DEF RecordedOK
    <2> DEFINE r == Report(a)
               S == {ReportOf(c, i) : i \in 1 .. n - 1} \cup {r}
    <2>3. heard'[c] = Append(heard[c], r)
        BY <1>2, <1>3, <2>2 DEF ToldCall, Tells
    <2>4. ReportOf(c, n)' = r
        BY <1>0, <1>1, <2>1, <2>2, SendReports
    <2> HIDE DEF r
    <2>5. heard[c] = ReportsOf(c, n - 1)
        <3>1. Greatest(n - 1, 0) = n - 1
            BY <2>1 DEF Greatest
        <3> QED BY <1>4, <3>1
    <2>6. heard[c] \in Seq(S) /\ Len(heard[c]) = n - 1
        <3>1. heard[c] \in [1 .. n - 1 -> S]
            BY <2>5 DEF ReportsOf
        <3> HIDE DEF S
        <3> QED BY <2>1, <3>1, FunctionIsSeq
    <2>7. /\ Append(heard[c], r) \in Seq(S) /\ Len(Append(heard[c], r)) = n
          /\ \A i \in 1 .. n - 1 : Append(heard[c], r)[i] = heard[c][i]
          /\ Append(heard[c], r)[n] = r
        <3>1. r \in S
            OBVIOUS
        <3> HIDE DEF S
        <3> QED BY <2>1, <2>6, <3>1, AppendProperties
    <2>8. \A i \in 1 .. n - 1 : heard[c][i] = ReportOf(c, i)
        BY <2>5 DEF ReportsOf
    <2>9. \A i \in 1 .. n : Append(heard[c], r)[i] = ReportOf(c, i)'
        <3>1. \A i \in 1 .. n : i = n \/ i \in 1 .. n - 1
            BY <2>1
        <3> QED BY <1>5, <2>4, <2>7, <2>8, <3>1
    <2>10. Append(heard[c], r) = [i \in 1 .. n |-> Append(heard[c], r)[i]]
        <3> HIDE DEF S
        <3> QED BY <2>7, LenProperties
    <2>11. ReportsOf(c, n)' = [i \in 1 .. n |-> ReportOf(c, i)']
        BY DEF ReportsOf
    <2> QED BY <2>3, <2>9, <2>10, <2>11
<1> QED BY <1>6, <1>7

\* Any other step leaves what was heard alone, and with it the wire it tells.
LEMMA QuietHears ==
    ASSUME NEW c \in Calls, HeardOK(c), pc[c] # "idle", pc'[c] # "idle",
           heard'[c] = heard[c], request'[c] = request[c],
           ReportsOf(c, Greatest(Len(sent[c]) - 1, 0))'
               = ReportsOf(c, Greatest(Len(sent[c]) - 1, 0))
    PROVE  HeardOK(c)'
    BY DEF HeardOK

LEMMA SilentHears ==
    ASSUME NEW c \in Calls, HeardOK(c), pc[c] # "idle", pc'[c] # "idle",
           heard'[c] = heard[c], request'[c] = request[c], sent'[c] = sent[c]
    PROVE  HeardOK(c)'
<1>1. ReportsOf(c, Greatest(Len(sent[c]) - 1, 0))'
          = ReportsOf(c, Greatest(Len(sent[c]) - 1, 0))
    BY DEF ReportsOf, ReportOf
<1> QED BY <1>1, QuietHears

LEMMA EndedHears ==
    ASSUME IInv, NEW c \in Calls, HeardOK(c), pc[c] = "inflight", pc'[c] # "idle",
           heard'[c] = heard[c], request'[c] = request[c],
           NEW how, NEW retryAfter, sent' = Ended(c, how, retryAfter)
    PROVE  HeardOK(c)'
<1>1. sent \in [Calls -> Seq(Sends)] /\ sent[c] # << >>
    BY InFlightType
<1>2. /\ Len(sent[c]) \in Nat \ {0} /\ Len(sent'[c]) = Len(sent[c])
      /\ \A i \in 1 .. Len(sent[c]) : sent'[c][i].endpoint = sent[c][i].endpoint
      /\ \A i \in 1 .. Len(sent[c]) : i # Len(sent[c]) => sent'[c][i] = sent[c][i]
    <2>1. /\ Len(sent[c]) \in Nat \ {0} /\ Len(sent'[c]) = Len(sent[c])
          /\ sent'[c][Len(sent[c])].endpoint = sent[c][Len(sent[c])].endpoint
          /\ \A i \in 1 .. Len(sent[c]) : i # Len(sent[c]) => sent'[c][i] = sent[c][i]
        BY <1>1, EndedEntries
    <2> QED BY <2>1
<1>3. \A i \in 1 .. Len(sent[c]) - 1 : sent'[c][i].outcome = sent[c][i].outcome
    <2>1. \A i \in 1 .. Len(sent[c]) - 1 : i \in 1 .. Len(sent[c]) /\ i # Len(sent[c])
        BY <1>2
    <2> QED BY <1>2, <2>1
<1>4. ReportsOf(c, Greatest(Len(sent[c]) - 1, 0))'
          = ReportsOf(c, Greatest(Len(sent[c]) - 1, 0))
    BY <1>2, <1>3, SameReports
<1> QED BY <1>4, QuietHears

LEMMA StepHears ==
    ASSUME IInv, NEW c \in Calls, RecordedOK(c), HeardOK(c),
           heard = [d \in Calls |-> heard[d]], Step(c)
    PROVE  HeardOK(c)'
<1> USE DEF config, ghosts
<1>1. CASE Start(c)
    <2>1. /\ heard'[c] = << >> /\ pc'[c] = "begin" /\ sent'[c] = << >>
        BY <1>1 DEF Start, HeardOK, IInv, TypeOK, BudgetOK
    <2>2. ReportsOf(c, Greatest(Len(sent[c]) - 1, 0))' = << >>
        <3>1. Greatest(Len(sent'[c]) - 1, 0) = 0
            BY <2>1 DEF Greatest
        <3> QED BY <3>1 DEF ReportsOf
    <2> QED BY <2>1, <2>2 DEF HeardOK
<1>2. CASE Begin(c) \/ BeginTooLate(c) \/ BodyRead(c) \/ Wake(c) \/ Drop(c)
    <2>1. /\ pc[c] # "idle" /\ pc'[c] # "idle"
          /\ heard' = heard /\ request' = request /\ sent' = sent
        BY <1>2 DEF Begin, BeginTooLate, BodyRead, Wake, Drop, IInv, TypeOK
    <2> QED BY <2>1, SilentHears
<1>3. CASE Send(c)
    BY <1>3, SendHears
<1>4. CASE Succeed(c)
    <2>1. /\ pc[c] = "inflight" /\ pc'[c] # "idle"
          /\ heard' = heard /\ request' = request
          /\ \E status : sent' = Ended(c, status, None)
        BY <1>4 DEF Succeed, IInv, TypeOK
    <2> QED BY <2>1, EndedHears
<1>5. CASE Answer(c)
    <2>1. /\ pc[c] = "inflight" /\ pc'[c] # "idle"
          /\ heard' = heard /\ request' = request
          /\ \E status, retryAfter : sent' = Ended(c, status, retryAfter)
        BY <1>5 DEF Answer, IInv, TypeOK
    <2> QED BY <2>1, EndedHears
<1>6. ASSUME NEW connect, NEW timeout, Fail(c, connect, timeout)
      PROVE  HeardOK(c)'
    <2>1. /\ pc[c] = "inflight" /\ pc'[c] # "idle"
          /\ heard' = heard /\ request' = request
          /\ \E how : sent' = Ended(c, how, None)
        BY <1>6 DEF Fail, IInv, TypeOK
    <2> QED BY <2>1, EndedHears
<1>7. CASE Disconnect(c) \/ OwnTimeout(c) \/ Expire(c)
    BY <1>2, <1>6, <1>7 DEF Disconnect, OwnTimeout, Expire
<1>8. CASE RefuseRedirect(c)
    <2>1. /\ pc[c] = "inflight" /\ pc'[c] # "idle"
          /\ heard' = heard /\ request' = request
          /\ sent' = Ended(c, "redirect", None)
        BY <1>8 DEF RefuseRedirect, IInv, TypeOK
    <2> QED BY <2>1, EndedHears
<1>9. CASE Decide(c)
    <2>1. /\ pc[c] = "after" /\ pc'[c] # "idle"
          /\ heard' = heard /\ request' = request
          /\ sent' = sent \/ \E pause : sent' = [sent EXCEPT ![c][Len(sent[c])].pause = pause]
        BY <1>9 DEF Decide, IInv, TypeOK
    <2>2. sent \in [Calls -> Seq(Sends)] /\ sent[c] # << >>
        BY <2>1, InFlightType
    <2>3. ASSUME NEW pause, sent' = [sent EXCEPT ![c][Len(sent[c])].pause = pause]
          PROVE  HeardOK(c)'
        <3>1. /\ Len(sent[c]) \in Nat \ {0} /\ Len(sent'[c]) = Len(sent[c])
              /\ \A i \in 1 .. Len(sent[c]) : /\ sent'[c][i].endpoint = sent[c][i].endpoint
                                              /\ sent'[c][i].outcome = sent[c][i].outcome
            BY <2>2, <2>3, PausedEntries
        <3>2. \A i \in 1 .. Len(sent[c]) - 1 : sent'[c][i].outcome = sent[c][i].outcome
            <4>1. \A i \in 1 .. Len(sent[c]) - 1 : i \in 1 .. Len(sent[c])
                BY <3>1
            <4> QED BY <3>1, <4>1
        <3>3. \A i \in 1 .. Len(sent[c]) : sent'[c][i].endpoint = sent[c][i].endpoint
            BY <3>1
        <3>4. Len(sent[c]) \in Nat \ {0} /\ Len(sent'[c]) = Len(sent[c])
            BY <3>1
        <3>5. ReportsOf(c, Greatest(Len(sent[c]) - 1, 0))'
                  = ReportsOf(c, Greatest(Len(sent[c]) - 1, 0))
            BY <3>2, <3>3, <3>4, SameReports
        <3> QED BY <2>1, <3>5, QuietHears
    <2> QED BY <2>1, <2>3, SilentHears
<1> QED BY <1>1, <1>2, <1>3, <1>4, <1>5, <1>7, <1>8, <1>9 DEF Step, Run

\* A step of one call says nothing to the observer of another, and applies
\* nothing for it.
LEMMA OthersQuiet ==
    ASSUME IInv, NEW c \in Calls, heard = [d \in Calls |-> heard[d]], Step(c)
    PROVE  /\ heard' = [d \in Calls |-> heard'[d]]
           /\ \A d \in Calls : d # c => heard'[d] = heard[d] /\ applied'[d] = applied[d]
<1> USE DEF ghosts
<1>1. heard' = heard \/ \E s : heard' = [heard EXCEPT ![c] = s]
    BY DEF Step, Run, Start, Begin, BeginTooLate, Send, Succeed, Answer, BodyRead, Disconnect,
           Expire, OwnTimeout, Fail, RefuseRedirect, Decide, Wake, Drop
<1>2. applied' = applied \/ \E x : applied' = [applied EXCEPT ![c] = x]
    BY DEF Step, Run, Start, Begin, BeginTooLate, Send, Succeed, Answer, BodyRead, Disconnect,
           Expire, OwnTimeout, Fail, RefuseRedirect, Decide, Wake, Drop
<1>3. applied \in [Calls -> BOOLEAN]
    BY DEF IInv, TypeOK
<1>4. heard' = [d \in Calls |-> heard'[d]] /\ \A d \in Calls : d # c => heard'[d] = heard[d]
    BY <1>1
<1>5. \A d \in Calls : d # c => applied'[d] = applied[d]
    BY <1>2, <1>3
<1> QED BY <1>4, <1>5

LEMMA ENext == IInv /\ PInv /\ RInv /\ EInv /\ [Next]_vars => EInv'
<1> SUFFICES ASSUME IInv, PInv, RInv, EInv, [Next]_vars PROVE EInv'
    OBVIOUS
<1>1. CASE Tick \/ Terminated \/ UNCHANGED vars
    <2>1. heard' = heard /\ applied' = applied /\ sent' = sent /\ pc' = pc /\ request' = request
        BY <1>1 DEF Tick, Terminated, vars, config, loop, ghosts
    <2>2. ASSUME NEW d \in Calls PROVE AppliedOK(d)' /\ HeardOK(d)'
        BY <2>1 DEF EInv, AppliedOK, HeardOK, ReportsOf, ReportOf
    <2>3. heard' = [d \in Calls |-> heard'[d]]
        BY <2>1 DEF EInv
    <2> QED BY <2>2, <2>3 DEF EInv
<1>2. ASSUME NEW c \in Calls, Step(c) PROVE EInv'
    <2>1. /\ heard' = [d \in Calls |-> heard'[d]]
          /\ \A d \in Calls : d # c => heard'[d] = heard[d] /\ applied'[d] = applied[d]
        BY <1>2, OthersQuiet DEF EInv
    <2>2. AppliedOK(c)' /\ HeardOK(c)'
        BY <1>2, StepAdmits, StepHears DEF EInv, RInv
    <2>3. ASSUME NEW d \in Calls, d # c PROVE AppliedOK(d)' /\ HeardOK(d)'
        <3>1. /\ pc'[d] = pc[d] /\ sent'[d] = sent[d] /\ request'[d] = request[d]
              /\ heard'[d] = heard[d] /\ applied'[d] = applied[d]
            BY <1>2, <2>1, <2>3, OthersStand, OthersRest
        <3> QED BY <3>1 DEF EInv, AppliedOK, HeardOK, ReportsOf, ReportOf
    <2> QED BY <2>1, <2>2, <2>3 DEF EInv
<1> QED BY <1>1, <1>2 DEF Next

LEMMA EInductive == Spec => [](IInv /\ RInv /\ EInv)
<1>1. Init => EInv
    BY DEF Init, EInv, AppliedOK, HeardOK
<1> QED BY <1>1, ENext, PInductive, RInductive, PTL DEF Spec

-----------------------------------------------------------------------------
(* The theorems.                                                           *)

\* A request's observer hears of every attempt but the last, once, in order,
\* with the endpoint it went to and how it ended.
THEOREM ObserverHears == Spec => []ObserverHearsEveryResend
<1>1. IInv /\ EInv => ObserverHearsEveryResend
    <2> SUFFICES ASSUME IInv, EInv, NEW c \in Calls, pc[c] # "idle", request[c].observer
                 PROVE  /\ heard[c] = [i \in 1 .. Len(heard[c]) |-> ReportOf(c, i)]
                        /\ Len(heard[c]) = Greatest(Len(sent[c]) - 1, 0)
        BY DEF ObserverHearsEveryResend
    <2> DEFINE k == Greatest(Len(sent[c]) - 1, 0)
    <2>1. heard[c] = ReportsOf(c, k)
        BY DEF EInv, HeardOK
    <2>2. k \in Nat
        <3>1. Len(sent[c]) \in Nat
            BY LenProperties DEF IInv, TypeOK
        <3> QED BY <3>1 DEF Greatest
    <2> HIDE DEF k
    <2>3. ReportsOf(c, k) \in [1 .. k -> {ReportOf(c, i) : i \in 1 .. k}]
        BY DEF ReportsOf
    <2>4. Len(heard[c]) = k
        BY <2>1, <2>2, <2>3, FunctionIsSeq
    <2> QED BY <2>1, <2>4 DEF ReportsOf, k
<1> QED BY <1>1, EInductive, PTL

\* When every outcome a returned record lists proves that its endpoint did not
\* process the request, no endpoint did.
THEOREM NotProcessed == Spec => []NotProcessedIsSound
<1>1. IInv /\ RInv /\ EInv => NotProcessedIsSound
    <2> SUFFICES ASSUME IInv, RInv, EInv, NEW c \in Calls, pc[c] = "done",
                        ProofOfNotProcessed(c), applied[c]
                 PROVE  FALSE
        BY DEF NotProcessedIsSound
    <2>1. Concluded(c, result[c])
        BY DEF RInv, RecordedOK
    <2>2. PICK i \in 1 .. Len(sent[c]) : Admits(sent[c][i].outcome)
        BY DEF EInv, AppliedOK
    <2>3. TraceProvesNotProcessed(result[c].trace)
        BY DEF ProofOfNotProcessed
    <2>4. result[c].trace = TraceOf(c, Len(sent[c]))
        <3>1. CASE result[c].kind = "EndpointsExhausted"
            BY <2>1, <3>1 DEF Concluded
        <3>2. CASE result[c].kind = "Ok"
            <4> DEFINE t == result[c].trace
            <4>1. /\ t # << >> /\ t[Len(t)].outcome = result[c].outcome
                  /\ result[c].outcome \in request[c].retry_on
                BY <3>2 DEF ProofOfNotProcessed
            <4>2. result[c].outcome = Latest(c).outcome
                BY <2>1, <3>2 DEF Concluded
            <4>3. \E n \in 0 .. Len(sent[c]) : t = TraceOf(c, n)
                <5>1. Len(sent[c]) \in Nat \ {0}
                    BY <2>2, LenProperties DEF IInv, TypeOK
                <5>2. t = TraceOf(c, Len(sent[c])) \/ t = TraceOf(c, Len(sent[c]) - 1)
                    BY <2>1, <3>2 DEF Concluded
                <5> QED BY <5>1, <5>2
            <4>4. Len(t) \in DOMAIN t
                <5>1. t \in Seq(Rows)
                    BY <4>3, TraceType DEF IInv, TypeOK
                <5> QED BY <4>1, <5>1, EmptySeq, LenProperties
            <4>5. ProvesNotProcessed(result[c].outcome)
                BY <2>3, <4>1, <4>4 DEF TraceProvesNotProcessed
            <4>6. Asked(c) /\ ~IsSuccess(Latest(c).outcome)
                BY <4>1, <4>2, <4>5 DEF Asked, IsSuccess, ProvesNotProcessed
            <4> QED BY <2>1, <3>2, <4>6 DEF Concluded
        <3> QED BY <3>1, <3>2 DEF ProofOfNotProcessed
    <2>5. i \in DOMAIN TraceOf(c, Len(sent[c]))
          /\ TraceOf(c, Len(sent[c]))[i].outcome = sent[c][i].outcome
        BY DEF TraceOf
    <2> QED BY <2>2, <2>3, <2>4, <2>5 DEF TraceProvesNotProcessed, Admits
<1> QED BY <1>1, EInductive, PTL

\* The same of a request's own observer: when every reason it heard proves so,
\* and the call's result does, no endpoint processed the request.
THEOREM ObserverProof == Spec => []ObserverProofIsSound
<1>1. IInv /\ RInv /\ EInv => ObserverProofIsSound
    <2> SUFFICES ASSUME IInv, RInv, EInv, NEW c \in Calls, pc[c] = "done",
                        request[c].observer, result[c].kind # "DeadlineExceeded",
                        ProvesNotProcessed(result[c].outcome),
                        \A i \in DOMAIN heard[c] : ProvesNotProcessed(heard[c][i].reason),
                        applied[c]
                 PROVE  FALSE
        BY DEF ObserverProofIsSound
    <2>1. result[c].outcome = Latest(c).outcome
        BY DEF RInv, RecordedOK, Concluded
    <2>2. PICK i \in 1 .. Len(sent[c]) : Admits(sent[c][i].outcome)
        BY DEF EInv, AppliedOK
    <2>3. Len(sent[c]) \in Nat
        BY LenProperties DEF IInv, TypeOK
    <2>4. CASE i = Len(sent[c])
        BY <2>1, <2>2, <2>4 DEF Latest, Admits
    <2>5. CASE i # Len(sent[c])
        <3>1. heard[c] = ReportsOf(c, Greatest(Len(sent[c]) - 1, 0))
            BY DEF EInv, HeardOK
        <3>2. i \in 1 .. Greatest(Len(sent[c]) - 1, 0)
            BY <2>3, <2>5 DEF Greatest
        <3>3. i \in DOMAIN heard[c] /\ heard[c][i] = ReportOf(c, i)
            BY <3>1, <3>2 DEF ReportsOf
        <3>4. ReportOf(c, i).reason = sent[c][i].outcome
            BY DEF ReportOf
        <3> QED BY <2>2, <3>3, <3>4 DEF Admits
    <2> QED BY <2>4, <2>5
<1> QED BY <1>1, EInductive, PTL
================================================================================
