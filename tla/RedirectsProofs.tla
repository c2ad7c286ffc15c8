---------------------------- MODULE RedirectsProofs -----------------------------
(***************************************************************************)
(* Redirects implements ServiceClient, so that what is proved of the loop  *)
(* holds when servers redirect; and a client built over a set never leaves *)
(* it, for any set, calls and redirects.                                   *)
(*                                                                         *)
(* The second needs to know that a chain starts where its attempt was sent *)
(* to, which is what tells the HTTP client that follows.                   *)
(***************************************************************************)
EXTENDS Redirects, ServiceClientProofs

\* A chain on the wire is that of the attempt being made.
ChainOK(c) ==
    /\ hops[c] \in Seq(Origins)
    /\ pc[c] = "inflight" => hops[c] # << >> /\ hops[c][1] = attempt[c].of.endpoint

\* A chain that a built client of a set has followed stays in the set.
InSet(c) ==
    inner.len > 1 /\ hops[c] # << >> /\ inner.slots[hops[c][1]] # None =>
        \A i \in DOMAIN hops[c] : InTheSet(hops[c][i])

\* One that a built client has followed is counted.
Bounded(c) ==
    hops[c] # << >> /\ inner.slots[hops[c][1]] # None =>
        Len(hops[c]) <= IF inner.len > 1 THEN MaxRedirects ELSE MaxRedirects + 1

ChainInv ==
    /\ hops \in [Calls -> Seq(Origins)]
    /\ \A c \in Calls : ChainOK(c) /\ InSet(c) /\ Bounded(c)

-----------------------------------------------------------------------------
\* Each step of an attempt told as a chain is a step of the loop, or none.
LEMMA NextImplements == [RedirectsNext]_rvars => [Next]_vars
<1> SUFFICES ASSUME [RedirectsNext]_rvars PROVE [Next]_vars
    OBVIOUS
<1>1. CASE (Tick \/ Terminated) /\ UNCHANGED chain
    BY <1>1 DEF Next
<1>2. ASSUME NEW c \in Calls, SendFirst(c) PROVE Next
    BY <1>2 DEF SendFirst, Next, Step, Run
<1>3. ASSUME NEW c \in Calls, Follow(c) PROVE UNCHANGED vars
    BY <1>3 DEF Follow
<1>4. ASSUME NEW c \in Calls, Refuse(c) PROVE Next
    BY <1>4 DEF Refuse, Next, Step, Disconnect
<1>5. ASSUME NEW c \in Calls, EndOfChain(c) PROVE Next
    BY <1>5 DEF EndOfChain, Next, Step
<1>6. ASSUME NEW c \in Calls, OffTheWire(c) PROVE Next
    BY <1>6 DEF OffTheWire, Next, Step, Run
<1>7. CASE UNCHANGED rvars
    BY <1>7 DEF rvars
<1> QED BY <1>1, <1>2, <1>3, <1>4, <1>5, <1>6, <1>7 DEF RedirectsNext

\* To the loop, an attempt that is redirected is an attempt like any other: it
\* ends in one of the ways ServiceClient knows.
THEOREM RedirectsImplementCalls == RedirectsSpec => Spec
<1>1. RedirectsInit => Init
    BY DEF RedirectsInit
<1> QED BY <1>1, NextImplements, PTL DEF RedirectsSpec, Spec

-----------------------------------------------------------------------------
\* A step that sends nothing keeps every chain.
LEMMA QuietKeeps ==
    ASSUME ChainInv, hops' = hops, inner' = inner,
           \A c \in Calls : pc'[c] = "inflight" =>
               pc[c] = "inflight" /\ attempt'[c] = attempt[c]
    PROVE  ChainInv'
BY DEF ChainInv, ChainOK, InSet, Bounded, InTheSet, Origins, Endpoints

LEMMA SendFirstKeeps ==
    ASSUME IInv, ChainInv, NEW c \in Calls, SendFirst(c)
    PROVE  ChainInv'
<1> DEFINE e == attempt[c].of.endpoint
<1>1. e \in Endpoints /\ inner' = inner
    BY DEF IInv, CallOK, Attempts, SendFirst, Send, config
<1>2. hops' = [hops EXCEPT ![c] = <<e>>]
    BY DEF SendFirst
<1>3. /\ attempt' = attempt
      /\ pc' = [pc EXCEPT ![c] = "inflight"]
      /\ pc \in [Calls -> PcStates]
    BY DEF SendFirst, Send, IInv, TypeOK
<1>4. <<e>> \in Seq(Origins) /\ <<e>> # << >> /\ <<e>>[1] = e /\ DOMAIN <<e>> = {1}
    BY <1>1 DEF Origins
<1>5. Origins' = Origins /\ Endpoints' = Endpoints
    BY <1>1 DEF Origins, Endpoints
<1>6. hops' \in [Calls -> Seq(Origins)]
    BY <1>2, <1>4 DEF ChainInv
<1>7. ASSUME NEW d \in Calls PROVE ChainOK(d)' /\ InSet(d)' /\ Bounded(d)'
    <2>1. CASE d = c
        <3>1. hops'[d] = <<e>>
            BY <1>2, <2>1 DEF ChainInv
        <3>2. Len(hops'[d]) = 1 /\ 1 <= MaxRedirects /\ 1 <= MaxRedirects + 1
            BY <3>1, RedirectsAssumption
        <3> QED BY <1>1, <1>3, <1>4, <1>5, <2>1, <3>1, <3>2
                DEF ChainOK, InSet, Bounded, InTheSet
    <2>2. CASE d # c
        <3>1. hops'[d] = hops[d] /\ pc'[d] = pc[d]
            BY <1>2, <1>3, <2>2 DEF ChainInv
        <3> QED BY <1>1, <1>3, <1>5, <3>1 DEF ChainInv, ChainOK, InSet, Bounded, InTheSet
    <2> QED BY <2>1, <2>2
<1> QED BY <1>5, <1>6, <1>7 DEF ChainInv

LEMMA FollowKeeps ==
    ASSUME IInv, ChainInv, NEW c \in Calls, Follow(c)
    PROVE  ChainInv'
<1>1. PICK target \in Origins :
          MayFollow(c, target) /\ hops' = [hops EXCEPT ![c] = Extended(c, target)]
    BY DEF Follow
<1>2. inner' = inner /\ attempt' = attempt /\ pc' = pc /\ pc[c] = "inflight"
    BY DEF Follow, vars
<1>3. hops[c] \in Seq(Origins) /\ hops[c] # << >> /\ hops[c][1] = attempt[c].of.endpoint
    BY <1>2 DEF ChainInv, ChainOK
<1>4. /\ Extended(c, target) \in Seq(Origins)
      /\ Extended(c, target) # << >>
      /\ Extended(c, target)[1] = hops[c][1]
    BY <1>3, RedirectsAssumption DEF Extended
<1>5. Origins' = Origins /\ Endpoints' = Endpoints
    BY <1>2 DEF Origins, Endpoints
<1>6. hops' \in [Calls -> Seq(Origins)]
    BY <1>1, <1>4 DEF ChainInv
<1>7. ASSUME inner.len > 1, inner.slots[hops[c][1]] # None,
             NEW i \in DOMAIN Extended(c, target)
      PROVE  InTheSet(Extended(c, target)[i])
    <2>1. ~Supplied(c)
        BY <1>3, <1>7 DEF Supplied
    <2>2. InTheSet(target)
        BY <1>1, <1>7, <2>1 DEF MayFollow, FollowsInTheSet
    <2>3. Extended(c, target) = Append(hops[c], target)
        BY <2>1 DEF Extended
    <2>4. \A j \in DOMAIN hops[c] : InTheSet(hops[c][j])
        BY <1>3, <1>7 DEF ChainInv, InSet
    <2> QED BY <1>3, <1>7, <2>2, <2>3, <2>4
<1>8. ASSUME NEW d \in Calls PROVE ChainOK(d)' /\ InSet(d)' /\ Bounded(d)'
    <2>1. CASE d = c
        <3>1. hops'[d] = Extended(c, target)
            BY <1>1, <2>1 DEF ChainInv
        <3>2. ChainOK(d)'
            BY <1>2, <1>3, <1>4, <1>5, <2>1, <3>1 DEF ChainOK
        <3>3. InSet(d)'
            BY <1>2, <1>4, <1>5, <1>7, <2>1, <3>1 DEF InSet, InTheSet
        <3>4. Bounded(d)'
            <4> SUFFICES ASSUME inner.slots[hops[c][1]] # None
                         PROVE  Len(Extended(c, target)) <=
                                    IF inner.len > 1 THEN MaxRedirects ELSE MaxRedirects + 1
                BY <1>2, <1>4, <2>1, <3>1 DEF Bounded
            <4>1. ~Supplied(c)
                BY <1>3 DEF Supplied
            <4>2. \/ inner.len > 1 /\ Len(hops[c]) < MaxRedirects
                  \/ inner.len = 1 /\ Len(hops[c]) <= MaxRedirects
                BY <1>1, <4>1 DEF MayFollow, FollowsInTheSet, FollowsByDefault
            <4>3. Extended(c, target) = Append(hops[c], target)
                BY <4>1 DEF Extended
            <4> QED BY <1>3, <4>2, <4>3, RedirectsAssumption, AppendProperties
        <3> QED BY <3>2, <3>3, <3>4
    <2>2. CASE d # c
        <3>1. hops'[d] = hops[d]
            BY <1>1, <2>2 DEF ChainInv
        <3> QED BY <1>2, <1>5, <3>1 DEF ChainInv, ChainOK, InSet, Bounded, InTheSet
    <2> QED BY <2>1, <2>2
<1> QED BY <1>5, <1>6, <1>8 DEF ChainInv

\* The steps of the loop that send nothing put no call on the wire.
LEMMA QuietSteps ==
    ASSUME IInv, NEW c \in Calls,
           \/ Start(c) \/ Begin(c) \/ BeginTooLate(c) \/ BodyRead(c) \/ Decide(c) \/ Wake(c)
           \/ Drop(c) \/ Succeed(c) \/ Answer(c) \/ RefuseRedirect(c)
           \/ (\E connect, timeout \in BOOLEAN : Fail(c, connect, timeout))
    PROVE  /\ inner' = inner
           /\ \A d \in Calls : pc'[d] = "inflight" =>
                  pc[d] = "inflight" /\ attempt'[d] = attempt[d]
<1>1. pc \in [Calls -> PcStates] /\ attempt \in [Calls -> Option(Attempts)]
    BY DEF IInv, TypeOK
<1>2. CASE Start(c)
    BY <1>1, <1>2 DEF Start
<1>3. CASE Begin(c)
    BY <1>1, <1>3 DEF Begin, config
<1>4. CASE BeginTooLate(c) \/ BodyRead(c) \/ Wake(c) \/ Drop(c)
    BY <1>1, <1>4 DEF BeginTooLate, BodyRead, Wake, Drop, config
<1>5. CASE Decide(c)
    <2>1. inner' = inner /\ attempt' = attempt
        BY <1>5 DEF Decide, config
    <2>2. \E p \in {"done", "begin", "sleeping"} : pc' = [pc EXCEPT ![c] = p]
        BY <1>5 DEF Decide
    <2> QED BY <1>1, <2>1, <2>2
<1>6. CASE Succeed(c) \/ RefuseRedirect(c)
    BY <1>1, <1>6 DEF Succeed, RefuseRedirect, config
<1>7. CASE Answer(c)
    <2>1. inner' = inner /\ attempt' = attempt
        BY <1>7 DEF Answer, config
    <2>2. \E p \in {"after", "body"} : pc' = [pc EXCEPT ![c] = p]
        BY <1>7 DEF Answer
    <2> QED BY <1>1, <2>1, <2>2
<1>8. CASE \E connect, timeout \in BOOLEAN : Fail(c, connect, timeout)
    BY <1>1, <1>8 DEF Fail, config
<1> QED BY <1>2, <1>3, <1>4, <1>5, <1>6, <1>7, <1>8

LEMMA ChainKeeps == IInv /\ ChainInv /\ [RedirectsNext]_rvars => ChainInv'
<1> SUFFICES ASSUME IInv, ChainInv, [RedirectsNext]_rvars PROVE ChainInv'
    OBVIOUS
<1>1. CASE (Tick \/ Terminated) /\ UNCHANGED chain
    BY <1>1, QuietKeeps DEF Tick, Terminated, chain, config, loop, vars
<1>2. ASSUME NEW c \in Calls, SendFirst(c) PROVE ChainInv'
    BY <1>2, SendFirstKeeps
<1>3. ASSUME NEW c \in Calls, Follow(c) PROVE ChainInv'
    BY <1>3, FollowKeeps
<1>4. ASSUME NEW c \in Calls, Refuse(c) PROVE ChainInv'
    <2>1. Fail(c, FALSE, FALSE) /\ hops' = hops
        BY <1>4 DEF Refuse
    <2> QED BY <2>1, QuietSteps, QuietKeeps
<1>5. ASSUME NEW c \in Calls, EndOfChain(c) PROVE ChainInv'
    <2>1. hops' = hops
        BY <1>5 DEF EndOfChain
    <2>2. \/ Succeed(c) \/ Answer(c) \/ RefuseRedirect(c) \/ BodyRead(c)
          \/ \E connect, timeout \in BOOLEAN : Fail(c, connect, timeout)
        BY <1>5 DEF EndOfChain, Disconnect, OwnTimeout, Expire
    <2> QED BY <2>1, <2>2, QuietSteps, QuietKeeps
<1>6. ASSUME NEW c \in Calls, OffTheWire(c) PROVE ChainInv'
    BY <1>6, QuietSteps, QuietKeeps DEF OffTheWire, chain
<1>7. CASE UNCHANGED rvars
    BY <1>7, QuietKeeps DEF rvars, vars, chain
<1> QED BY <1>1, <1>2, <1>3, <1>4, <1>5, <1>6, <1>7 DEF RedirectsNext

LEMMA ChainInductive == RedirectsSpec => [](IInv /\ ChainInv)
<1>1. RedirectsInit => ChainInv
    BY EmptySeq DEF RedirectsInit, Init, ChainInv, ChainOK, InSet, Bounded
<1> QED BY <1>1, ChainKeeps, RedirectsImplementCalls, Inductive, PTL DEF RedirectsSpec

-----------------------------------------------------------------------------
(* Where a chain ends.                                                     *)

\* An attempt that ended with an answer ended in the set, and one that ended
\* outside ended the call.
EndOK(c) ==
    inner.len > 1 /\ hops[c] # << >> =>
        LET outcomeOf == sent[c][Len(sent[c])].outcome
            answered  == hops[c][Len(hops[c])]
        IN  /\ outcomeOf \in Statuses => InTheSet(answered)
            /\ outcomeOf = "redirect" =>
                  ~InTheSet(answered) /\ pc[c] = "done" /\ result[c].kind = "Config"

EndInv == \A c \in Calls : EndOK(c)

\* A call whose chain stands, whose latest attempt ended no other way, and
\* whose result, if it is over, is the same.
LEMMA EndStays ==
    ASSUME NEW d \in Calls, EndOK(d), inner' = inner, hops'[d] = hops[d],
           sent'[d][Len(sent'[d])].outcome = sent[d][Len(sent[d])].outcome,
           pc[d] = "done" => pc'[d] = "done" /\ result'[d] = result[d]
    PROVE  EndOK(d)'
    BY DEF EndOK, InTheSet, Endpoints

\* A call that a step of another leaves alone.
LEMMA OthersEnd ==
    ASSUME IInv, DInv, EndInv, NEW c \in Calls, Step(c), inner' = inner,
           NEW d \in Calls, d # c, hops'[d] = hops[d]
    PROVE  EndOK(d)'
<1>1. pc'[d] = pc[d] /\ sent'[d] = sent[d] /\ result'[d] = result[d]
    BY StepIsItsOwn
<1> QED BY <1>1, EndStays DEF EndInv

\* A call that is over takes no step.
LEMMA StepsAreOfTheLiving ==
    ASSUME NEW c \in Calls, Step(c)
    PROVE  pc[c] # "done"
    BY DEF Step, Run, Start, Begin, BeginTooLate, Send, Succeed, Answer, BodyRead, Disconnect,
           Expire, OwnTimeout, Fail, RefuseRedirect, Decide, Wake, Drop

\* An attempt that ends, as the loop sees it, at the end of its chain.
LEMMA AttemptEndsIt ==
    ASSUME IInv, DInv, EndInv, NEW c \in Calls, Step(c), inner' = inner, pc[c] = "inflight",
           hops' = hops, NEW how, NEW retryAfter, sent' = Ended(c, how, retryAfter),
           how \in Statuses => EndedInTheSet(c),
           how = "redirect" =>
               ~EndedInTheSet(c) /\ pc'[c] = "done" /\ result'[c].kind = "Config"
    PROVE  EndInv'
<1>1. sent'[c][Len(sent'[c])].outcome = how
    <2>1. sent \in [Calls -> Seq(Sends)] /\ sent[c] # << >>
        BY InFlightType
    <2> QED BY <2>1, EndedEntries
<1>2. EndOK(c)'
    BY <1>1 DEF EndOK, EndedInTheSet, InTheSet, Endpoints
<1>3. \A d \in Calls : d # c => EndOK(d)'
    BY OthersEnd
<1> QED BY <1>2, <1>3 DEF EndInv

\* Every other step of a call leaves its chain, and what it ended with.
LEMMA QuietEnds ==
    ASSUME IInv, DInv, EndInv, NEW c \in Calls, Step(c), inner' = inner, hops' = hops,
           sent'[c][Len(sent'[c])].outcome = sent[c][Len(sent[c])].outcome
    PROVE  EndInv'
<1>1. \A d \in Calls : d # c => EndOK(d)'
    BY OthersEnd
<1>2. EndOK(c)'
    BY EndStays, StepsAreOfTheLiving DEF EndInv
<1> QED BY <1>1, <1>2 DEF EndInv

LEMMA SendFirstEnds ==
    ASSUME IInv, DInv, EndInv, NEW c \in Calls, SendFirst(c)
    PROVE  EndInv'
<1>1. /\ Send(c) /\ Step(c) /\ inner' = inner
      /\ \A d \in Calls : d # c => hops'[d] = hops[d]
    BY DEF SendFirst, Send, Step, Run, config
<1>2. sent'[c][Len(sent'[c])].outcome = "pending"
    BY <1>1, SendingEntries
<1>3. EndOK(c)'
    BY <1>2, StatusAssumption DEF EndOK
<1>4. \A d \in Calls : d # c => EndOK(d)'
    BY <1>1, OthersEnd
<1> QED BY <1>3, <1>4 DEF EndInv

LEMMA FollowEnds ==
    ASSUME IInv, PInv, EndInv, NEW c \in Calls, Follow(c)
    PROVE  EndInv'
<1>1. PICK target \in Origins : hops' = [hops EXCEPT ![c] = Extended(c, target)]
    BY DEF Follow
<1>2. /\ inner' = inner /\ sent' = sent /\ pc' = pc /\ result' = result
      /\ pc[c] = "inflight"
    BY DEF Follow, vars
<1>3. sent[c][Len(sent[c])].outcome = "pending"
    BY <1>2 DEF PInv, Flying
<1>4. EndOK(c)'
    BY <1>2, <1>3, StatusAssumption DEF EndOK
<1>5. \A d \in Calls : d # c => EndOK(d)'
    <2>1. \A d \in Calls : d # c => hops'[d] = hops[d]
        BY <1>1
    <2> QED BY <1>2, <2>1, EndStays DEF EndInv
<1> QED BY <1>4, <1>5 DEF EndInv

LEMMA FailEnds ==
    ASSUME IInv, DInv, EndInv, NEW c \in Calls, NEW connect, NEW timeout,
           Fail(c, connect, timeout), Step(c), hops' = hops
    PROVE  EndInv'
<1> DEFINE how == IF connect THEN "connect" ELSE IF timeout THEN "timeout" ELSE "io"
<1>1. inner' = inner /\ pc[c] = "inflight" /\ sent' = Ended(c, how, None)
    BY DEF Fail, config
<1>2. how \notin Statuses /\ how # "redirect"
    BY StatusAssumption
<1> HIDE DEF how
<1> QED BY <1>1, <1>2, AttemptEndsIt

LEMMA EndOfChainEnds ==
    ASSUME IInv, DInv, EndInv, NEW c \in Calls, EndOfChain(c)
    PROVE  EndInv'
<1>1. hops' = hops /\ Step(c)
    BY DEF EndOfChain, Step
<1>2. CASE (Succeed(c) \/ Answer(c)) /\ EndedInTheSet(c)
    <2>1. inner' = inner /\ pc[c] = "inflight"
        BY <1>2 DEF Succeed, Answer, config
    <2>2. PICK status, retryAfter :
              status \in Statuses /\ sent' = Ended(c, status, retryAfter)
        BY <1>2 DEF Succeed, Answer
    <2>3. status # "redirect"
        BY <2>2, StatusAssumption
    <2> QED BY <1>1, <1>2, <2>1, <2>2, <2>3, AttemptEndsIt
<1>3. CASE RefuseRedirect(c) /\ ~EndedInTheSet(c)
    <2>1. /\ inner' = inner /\ pc[c] = "inflight" /\ sent' = Ended(c, "redirect", None)
          /\ pc'[c] = "done" /\ result'[c].kind = "Config"
        BY <1>3 DEF RefuseRedirect, config, IInv, TypeOK
    <2>2. "redirect" \notin Statuses
        BY StatusAssumption
    <2> QED BY <1>1, <1>3, <2>1, <2>2, AttemptEndsIt
<1>4. ASSUME NEW connect, NEW timeout, Fail(c, connect, timeout) PROVE EndInv'
    BY <1>1, <1>4, FailEnds
<1>5. CASE BodyRead(c)
    <2>1. inner' = inner /\ sent' = sent
        BY <1>5 DEF BodyRead, config, ghosts
    <2> QED BY <1>1, <2>1, QuietEnds
<1>6. \/ (Succeed(c) \/ Answer(c)) /\ EndedInTheSet(c)
      \/ RefuseRedirect(c) /\ ~EndedInTheSet(c)
      \/ BodyRead(c)
      \/ \E connect, timeout : Fail(c, connect, timeout)
    BY DEF EndOfChain, Disconnect, OwnTimeout, Expire
<1> QED BY <1>2, <1>3, <1>4, <1>5, <1>6

LEMMA OffTheWireEnds ==
    ASSUME IInv, DInv, EndInv, NEW c \in Calls, OffTheWire(c)
    PROVE  EndInv'
<1>1. Step(c) /\ inner' = inner /\ hops' = hops
    BY DEF OffTheWire, chain, Step, Run, Start, Begin, BeginTooLate, BodyRead, Decide, Wake,
           Drop, config
<1>2. sent'[c][Len(sent'[c])].outcome = sent[c][Len(sent[c])].outcome
    <2>1. CASE sent' = sent
        BY <2>1
    <2>2. CASE Decide(c) /\ sent' # sent
        <3>1. sent \in [Calls -> Seq(Sends)] /\ sent[c] # << >>
            BY <2>2, InFlightType DEF Decide
        <3>2. PICK pause : sent' = [sent EXCEPT ![c][Len(sent[c])].pause = pause]
            BY <2>2 DEF Decide
        <3> QED BY <3>1, <3>2, PausedEntries
    <2> QED BY <2>1, <2>2 DEF OffTheWire, Start, Begin, BeginTooLate, BodyRead, Wake, Drop, ghosts
<1> QED BY <1>1, <1>2, QuietEnds

LEMMA EndKeeps == IInv /\ PInv /\ DInv /\ EndInv /\ [RedirectsNext]_rvars => EndInv'
<1> SUFFICES ASSUME IInv, PInv, DInv, EndInv, [RedirectsNext]_rvars PROVE EndInv'
    OBVIOUS
<1>1. CASE ((Tick \/ Terminated) /\ UNCHANGED chain) \/ UNCHANGED rvars
    <2>1. inner' = inner /\ sent' = sent /\ hops' = hops /\ pc' = pc /\ result' = result
        BY <1>1 DEF Tick, Terminated, vars, rvars, chain, config, loop, ghosts
    <2> QED BY <2>1, EndStays DEF EndInv
<1>2. ASSUME NEW c \in Calls, SendFirst(c) PROVE EndInv'
    BY <1>2, SendFirstEnds
<1>3. ASSUME NEW c \in Calls, Follow(c) PROVE EndInv'
    BY <1>3, FollowEnds
<1>4. ASSUME NEW c \in Calls, Refuse(c) PROVE EndInv'
    <2>1. Fail(c, FALSE, FALSE) /\ hops' = hops /\ Step(c)
        BY <1>4 DEF Refuse, Step, Disconnect
    <2> QED BY <2>1, FailEnds
<1>5. ASSUME NEW c \in Calls, EndOfChain(c) PROVE EndInv'
    BY <1>5, EndOfChainEnds
<1>6. ASSUME NEW c \in Calls, OffTheWire(c) PROVE EndInv'
    BY <1>6, OffTheWireEnds
<1> QED BY <1>1, <1>2, <1>3, <1>4, <1>5, <1>6 DEF RedirectsNext

LEMMA EndInductive == RedirectsSpec => []EndInv
<1>1. RedirectsInit => EndInv
    BY EmptySeq DEF RedirectsInit, EndInv, EndOK
<1>2. RedirectsSpec => [](IInv /\ PInv /\ DInv)
    BY RedirectsImplementCalls, PInductive, DInductive, PTL
<1> QED BY <1>1, <1>2, EndKeeps, PTL DEF RedirectsSpec

-----------------------------------------------------------------------------
\* A request of a client built over a set goes nowhere else, however many
\* redirects are answered and however the call has failed over.
THEOREM NeverLeavesTheSet == RedirectsSpec => []StaysInTheSet
<1>1. ChainInv => StaysInTheSet
    BY DEF ChainInv, InSet, StaysInTheSet
<1> QED BY <1>1, ChainInductive, PTL

\* Although servers redirect in a circle, one attempt of a built client is at
\* most MAX_REDIRECTS requests on a set, and one more without.
THEOREM ChainsStayBounded == RedirectsSpec => []ChainsAreBounded
<1>1. ChainInv => ChainsAreBounded
    BY DEF ChainInv, Bounded, ChainsAreBounded
<1> QED BY <1>1, ChainInductive, PTL

\* An answer from outside the set is never taken for one of the set, whichever
\* HTTP client followed a redirect there: it ends the call, as misconfigured.
THEOREM OutsideNeverAnswers == RedirectsSpec => []OutsideNeverAnswersForTheSet
<1>1. EndInv => OutsideNeverAnswersForTheSet
    BY DEF EndInv, EndOK, OutsideNeverAnswersForTheSet
<1> QED BY <1>1, EndInductive, PTL
================================================================================
