-------------------------------- MODULE SetWalk ---------------------------------
(***************************************************************************)
(* What the failover of a call promises, apart from when and why it goes   *)
(* on: the walk of one request round a set of endpoints in order.  Within  *)
(* a cycle it goes on at once, and only to an endpoint not asked since the *)
(* last pause; it pauses before it asks any endpoint again, and starts a   *)
(* new cycle only when it has asked the whole set (src/failover.rs,        *)
(* Failover::after and rotate).                                            *)
(***************************************************************************)
EXTENDS Naturals

CONSTANT None

VARIABLES
    len,        \* how many endpoints the set has; never changes
    budget,     \* how many requests may be sent, known from the first on
    at,         \* the endpoint asked last, None before the first
    asked,      \* the endpoints asked since the last pause
    rested,     \* a pause has been decided since
    sends       \* how many requests were sent

wvars == <<len, budget, at, asked, rested, sends>>

Ring == 0 .. len - 1

Onward(e) == (e + 1) % len

Init ==
    /\ len \in Nat \ {0}
    /\ budget = 0
    /\ at     = None
    /\ asked  = {}
    /\ rested = FALSE
    /\ sends  = 0

\* Requests are counted over all endpoints.
Ask(e) ==
    /\ sends < budget'
    /\ sends'  = sends + 1
    /\ at'     = e
    /\ rested' = FALSE
    /\ UNCHANGED len

First ==
    /\ at = None
    /\ budget' \in Nat
    /\ \E e \in Ring : Ask(e) /\ asked' = {e}

\* A rotation within a cycle.
GoOn ==
    /\ at # None
    /\ ~rested
    /\ Onward(at) \notin asked
    /\ Ask(Onward(at))
    /\ asked' = asked \cup {Onward(at)}
    /\ UNCHANGED budget

Rest ==
    /\ at # None
    /\ ~rested
    /\ rested' = TRUE
    /\ UNCHANGED <<len, budget, at, asked, sends>>

\* A retry of the same endpoint, with which a cycle starts anew.
Again ==
    /\ rested
    /\ Ask(at)
    /\ asked' = {at}
    /\ UNCHANGED budget

\* The first rotation of the next cycle.
NextCycle ==
    /\ rested
    /\ asked = Ring
    /\ Ask(Onward(at))
    /\ asked' = {Onward(at)}
    /\ UNCHANGED budget

Next == First \/ GoOn \/ Rest \/ Again \/ NextCycle

Spec == Init /\ [][Next]_wvars
=============================================================================
