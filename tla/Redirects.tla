------------------------------- MODULE Redirects --------------------------------
(***************************************************************************)
(* An attempt of ServiceClient, seen as the chain of requests it is: a     *)
(* server may answer with a redirect, which reqwest follows or not inside  *)
(* the one send the loop awaits, and the loop judges where the chain ended *)
(* from the URL of the response alone (src/client.rs 692-721,              *)
(* src/request.rs 541-549).                                                *)
(*                                                                         *)
(* Every action is one of ServiceClient and what it does to the chain, but *)
(* for Follow, which the loop does not see.                                *)
(***************************************************************************)
EXTENDS ServiceClient

CONSTANTS
    Outside,        \* an origin that is not in the set
    MaxRedirects,   \* MAX_REDIRECTS
    Kinds,          \* the redirects answered: "307", send the request there
                    \* instead, and "303", it is done and this shows the outcome
    ChainBound      \* how long a chain of a supplied client is remembered

ASSUME RedirectsAssumption ==
    /\ Outside \notin Nat
    /\ MaxRedirects \in Nat \ {0}
    /\ Kinds \subseteq {"303", "307"}
    /\ ChainBound \in Nat \ {0, 1}

VARIABLES
    hops,       \* the origins the latest attempt was sent to, in order
    effected    \* history: a server may have done what the call asked for

chain == <<hops, effected>>

-----------------------------------------------------------------------------
Origins == Endpoints \cup {Outside}

\* redirect_verdict: Ok for an origin of the set.
InTheSet(target) == target \in Endpoints

\* Mutant: a target is checked only once the chain has been redirected.
InTheSetLater(c, target) ==
    Len(hops[c]) < MaxRedirects /\ (Len(hops[c]) > 1 => InTheSet(target))

\* Mutant: the first URL of a chain is not counted.
InTheSetOnceMore(c, target) == Len(hops[c]) <= MaxRedirects /\ InTheSet(target)

\* in_set_redirects, for a client built over a set.  attempt.previous() holds
\* every URL requested so far, the first included.
FollowsInTheSet(c, target) == Len(hops[c]) < MaxRedirects /\ InTheSet(target)

\* reqwest's own policy, for a client built over one endpoint: as many
\* redirects, wherever they lead.
FollowsByDefault(c) == Len(hops[c]) <= MaxRedirects

\* Whether the HTTP client of an attempt may follow a redirect, and whether it
\* may refuse to.  A supplied client may do either.
MayFollow(c, target) ==
    \/ Supplied(c)
    \/ inner.len > 1 /\ FollowsInTheSet(c, target)
    \/ inner.len = 1 /\ FollowsByDefault(c)

MayRefuse(c, target) == Supplied(c) \/ ~MayFollow(c, target)

\* The chain with one request more; the last is replaced past the bound.
Extended(c, target) ==
    IF Supplied(c) /\ Len(hops[c]) = ChainBound
    THEN [hops[c] EXCEPT ![ChainBound] = target]
    ELSE Append(hops[c], target)

\* Mutant: the verdict is on the URL the attempt was sent to.
StartedInTheSet(c) == inner.len > 1 => InTheSet(hops[c][1])

\* The verdict on the URL of a response, when there is a set.
EndedInTheSet(c) == inner.len > 1 => InTheSet(hops[c][Len(hops[c])])

-----------------------------------------------------------------------------
RedirectsInit ==
    /\ Init
    /\ hops     = [c \in Calls |-> << >>]
    /\ effected = [c \in Calls |-> FALSE]

\* The attempt goes out, to its own endpoint first.
SendFirst(c) ==
    /\ Send(c)
    /\ hops'    = [hops EXCEPT ![c] = <<attempt[c].of.endpoint>>]
    /\ UNCHANGED effected

\* Mutant: each redirect followed starts the timeout anew.
FollowAnew(c) ==
    /\ pc[c] = "inflight"
    /\ \E kind \in Kinds, target \in Origins :
          /\ MayFollow(c, target)
          /\ hops'     = [hops EXCEPT ![c] = Extended(c, target)]
          /\ effected' = [effected EXCEPT ![c] = @ \/ kind = "303"]
    /\ timer' = [timer EXCEPT ![c] = attempt[c].remaining]
    /\ UNCHANGED <<config, preferred, loop, left, nap, ghosts>>

\* A redirect is followed, under the timeout of the whole attempt.
Follow(c) ==
    /\ pc[c] = "inflight"
    /\ \E kind \in Kinds, target \in Origins :
          /\ MayFollow(c, target)
          /\ hops'     = [hops EXCEPT ![c] = Extended(c, target)]
          /\ effected' = [effected EXCEPT ![c] = @ \/ kind = "303"]
    /\ UNCHANGED vars

\* A redirect is refused by the HTTP client: the attempt fails, and is
\* neither a failed connection nor a timeout.
Refuse(c) ==
    /\ pc[c] = "inflight"
    /\ \E target \in Origins : MayRefuse(c, target)
    /\ Fail(c, FALSE, FALSE)
    /\ effected' = [effected EXCEPT ![c] = @ \/ applied'[c]]
    /\ UNCHANGED hops

\* The attempt ends where the chain has come to.
EndOfChain(c) ==
    /\ \/ (Succeed(c) \/ Answer(c)) /\ EndedInTheSet(c)
       \/ RefuseRedirect(c) /\ ~EndedInTheSet(c)
       \/ Disconnect(c)
       \/ OwnTimeout(c)
       \/ Expire(c)
    /\ effected' = [effected EXCEPT ![c] = @ \/ applied'[c]]
    /\ UNCHANGED hops

\* Whatever does not touch the wire.
OffTheWire(c) ==
    /\ Start(c) \/ Begin(c) \/ BeginTooLate(c) \/ BodyRead(c) \/ Decide(c) \/ Wake(c) \/ Drop(c)
    /\ UNCHANGED chain

RedirectsNext ==
    \/ (Tick \/ Terminated) /\ UNCHANGED chain
    \/ \E c \in Calls : SendFirst(c) \/ Follow(c) \/ Refuse(c) \/ EndOfChain(c) \/ OffTheWire(c)

rvars == <<vars, chain>>

RedirectsSpec == RedirectsInit /\ [][RedirectsNext]_rvars

\* As in ServiceClient: timers run and woken tasks are polled.  Servers may
\* redirect for ever.
RedirectsFairness ==
    /\ WF_rvars(Tick /\ UNCHANGED chain)
    /\ \A c \in Calls :
          /\ WF_rvars(OffTheWire(c) /\ Run(c))
          /\ WF_rvars(SendFirst(c))
          /\ WF_rvars(EndOfChain(c) /\ Expire(c))

FairRedirectsSpec == RedirectsSpec /\ RedirectsFairness

-----------------------------------------------------------------------------
(* Properties.                                                             *)

\* failover_endpoint: "a client this builder constructs follows a redirect
\* only to an origin in the set", whatever the chain before and however the
\* call has failed over.
StaysInTheSet ==
    \A c \in Calls :
        inner.len > 1 /\ hops[c] # << >> /\ inner.slots[hops[c][1]] # None =>
            \A i \in DOMAIN hops[c] : InTheSet(hops[c][i])

\* What a server outside the set answers is never taken for an answer of the
\* set: an attempt with a status was answered by a server of the set, and one
\* answered from outside it ends the call at once, as misconfigured.  A chain
\* that ended in the set does not.
OutsideNeverAnswersForTheSet ==
    \A c \in Calls : inner.len > 1 /\ hops[c] # << >> =>
        LET outcomeOf == sent[c][Len(sent[c])].outcome
            answered  == hops[c][Len(hops[c])]
        IN  /\ outcomeOf \in Statuses => InTheSet(answered)
            /\ outcomeOf = "redirect" =>
                  ~InTheSet(answered) /\ pc[c] = "done" /\ result[c].kind = "Config"

\* FailoverTrace::proves_not_processed, and the same of an accepted response:
\* what they prove of a call whose attempts may have been redirected.
NotProcessedDespiteRedirects ==
    \A c \in Calls : pc[c] = "done" /\ ProofOfNotProcessed(c) => ~effected[c]

\* A chain of a client that was built is bounded although servers redirect in
\* a circle: one attempt is at most so many requests, and one fewer on a set,
\* whose client counts the first URL among those it has seen.
ChainsAreBounded ==
    \A c \in Calls :
        hops[c] # << >> /\ inner.slots[hops[c][1]] # None =>
            Len(hops[c]) <= IF inner.len > 1 THEN MaxRedirects ELSE MaxRedirects + 1

\* failover_endpoint: "a supplied client that follows one elsewhere fails the
\* call with ClientError::Config".
LeavingTheSetIsConfig ==
    \A c \in Calls :
        inner.len > 1 /\ pc[c] = "done" /\ Outside \in {hops[c][i] : i \in DOMAIN hops[c]} =>
            result[c].kind = "Config"
=============================================================================
