------------------------------- MODULE WalkProofs ------------------------------
(***************************************************************************)
(* ServiceClient implements SetWalk and, with one endpoint, SingleEndpoint;*)
(* its pauses answer to the endpoints asked, and a client's observer hears *)
(* of every re-send of every call.                                         *)
(***************************************************************************)
EXTENDS SetWalkRefinement, SingleEndpointRefinement, ServiceClientProofs,
        FiniteSetTheorems

-----------------------------------------------------------------------------
(***************************************************************************)
(* How a call walks its set, for any calls, sets, policies and answers: no *)
(* endpoint is asked twice without a pause, each call is a behaviour of    *)
(* SetWalk, and a pause answers to the cycle before it.                    *)
(*                                                                         *)
(* Failover keeps three numbers where these properties speak of the wire:  *)
(* streak, cycle and pauses.  WalkOK, CycleOK and PausesOK say what the    *)
(* wire must look like for the numbers it keeps.                           *)
(***************************************************************************)

-----------------------------------------------------------------------------
(* The ring of m endpoints.                                                *)

\* The endpoint t places on from e.
Onto(m, e, t) == IF e + t < m THEN e + t ELSE e + t - m

LEMMA OntoNext ==
    ASSUME NEW m \in Nat \ {0}, NEW e \in 0 .. m - 1
    PROVE  (e + 1) % m = Onto(m, e, 1)
    BY DEF Onto

LEMMA OntoType ==
    ASSUME NEW m \in Nat \ {0}, NEW e \in 0 .. m - 1, NEW t \in 0 .. m - 1
    PROVE  /\ Onto(m, e, t) \in 0 .. m - 1
           /\ t + 1 < m => Onto(m, Onto(m, e, t), 1) = Onto(m, e, t + 1)
           /\ Onto(m, e, 0) = e
    BY DEF Onto

\* Short of a whole lap, the places are all different.
LEMMA OntoElsewhere ==
    ASSUME NEW m \in Nat \ {0}, NEW e \in 0 .. m - 1,
           NEW s \in Nat, NEW t \in Nat, s < t, t < m
    PROVE  Onto(m, e, s) # Onto(m, e, t)
    BY DEF Onto

\* A whole lap passes every endpoint.
LEMMA OntoAll ==
    ASSUME NEW m \in Nat \ {0}, NEW e \in 0 .. m - 1, NEW x \in 0 .. m - 1
    PROVE  \E t \in 0 .. m - 1 : Onto(m, e, t) = x
<1>1. CASE e <= x
    <2>1. Onto(m, e, x - e) = x /\ x - e \in 0 .. m - 1
        BY <1>1 DEF Onto
    <2> QED BY <2>1
<1>2. CASE e > x
    <2>1. Onto(m, e, x - e + m) = x /\ x - e + m \in 0 .. m - 1
        BY <1>2 DEF Onto
    <2> QED BY <2>1
<1> QED BY <1>1, <1>2

\* The place within a cycle, one rotation on.
LEMMA ModNext ==
    ASSUME NEW m \in Nat \ {0}, NEW x \in Nat
    PROVE  /\ x % m \in 0 .. m - 1
           /\ (x + 1) % m = IF (x % m) + 1 = m THEN 0 ELSE (x % m) + 1
<1> DEFINE q == x \div m
           r == x % m
<1>1. x = m * q + r /\ r \in 0 .. m - 1 /\ q \in Int
    OBVIOUS
<1>2. ASSUME NEW y \in Int, NEW p \in Int, NEW s \in 0 .. m - 1, y = m * p + s
      PROVE  y % m = s
    BY <1>2
<1> HIDE DEF q, r
<1>3. CASE r + 1 = m
    <2> DEFINE p == q + 1
    <2>1. x + 1 = m * p + 0 /\ p \in Int /\ x + 1 \in Int /\ 0 \in 0 .. m - 1
        BY <1>1, <1>3
    <2> HIDE DEF p
    <2>2. (x + 1) % m = 0
        BY <1>2, <2>1
    <2> QED BY <1>1, <1>3, <2>2 DEF r
<1>4. CASE r + 1 # m
    <2>1. x + 1 = m * q + (r + 1) /\ r + 1 \in 0 .. m - 1
        BY <1>1, <1>4
    <2> QED BY <1>1, <1>2, <1>4, <2>1 DEF r
<1> QED BY <1>3, <1>4

-----------------------------------------------------------------------------
(* What Failover counts.                                                   *)

\* A step that goes on after a pause, which is counted: the answer of the
\* endpoints, or else the policy's own.
Rests(step, f, policy, answer, draw, remaining) ==
    /\ step.failover.pauses = SaturatingInc(f.pauses)
    /\ step.pause # None
    /\ step.pause = IF answer # None THEN answer
                    ELSE Pause(policy, SaturatingInc(f.pauses), draw, remaining)

LEMMA TakePauseWalk ==
    ASSUME NEW f \in Failovers, NEW policy, NEW retryAfter, NEW draw, NEW remaining
    PROVE  LET step == TakePause(f, policy, retryAfter, draw, remaining)
           IN  /\ step.failover.streak = f.streak
               /\ step.failover.cycle = f.cycle
               /\ step.stop = None => Rests(step, f, policy, retryAfter, draw, remaining)
<1> DEFINE pause == IF retryAfter # None
                    THEN FitsBefore(retryAfter, remaining)
                    ELSE Pause(policy, SaturatingInc(f.pauses), draw, remaining)
           g == [f EXCEPT !.pauses = SaturatingInc(f.pauses)]
<1>1. g.streak = f.streak /\ g.cycle = f.cycle /\ g.pauses = SaturatingInc(f.pauses)
    BY DEF Failovers
<1>2. TakePause(f, policy, retryAfter, draw, remaining)
          = IF pause = None THEN Halt(f, Spent(f)) ELSE GoOn(g, pause)
    BY DEF TakePause
<1>3. pause # None =>
          pause = IF retryAfter # None THEN retryAfter
                  ELSE Pause(policy, SaturatingInc(f.pauses), draw, remaining)
    BY DEF FitsBefore
<1>4. Spent(f) # None
    BY StopAssumption DEF Spent
<1> HIDE DEF pause, g
<1>5. CASE pause = None
    <2>1. TakePause(f, policy, retryAfter, draw, remaining) = Halt(f, Spent(f))
        BY <1>2, <1>5
    <2> QED BY <1>4, <2>1 DEF Halt
<1>6. CASE pause # None
    <2>1. TakePause(f, policy, retryAfter, draw, remaining) = GoOn(g, pause)
        BY <1>2, <1>6
    <2> QED BY <1>1, <1>3, <1>6, <2>1 DEF GoOn, Rests
<1> QED BY <1>5, <1>6

\* What is re-sent, and where, leaves the counts and the pause alone.
LEMMA ResendingWalk ==
    ASSUME NEW step \in Steps, NEW resend
    PROVE  LET g == Resending(step, resend).failover
           IN  /\ g.streak = step.failover.streak /\ g.cycle = step.failover.cycle
               /\ g.pauses = step.failover.pauses /\ g.current = step.failover.current
               /\ Resending(step, resend).pause = step.pause
               /\ Resending(step, resend).stop = step.stop
<1> DEFINE f == step.failover
           g == [f EXCEPT !.pending = resend]
<1>1. f \in Failovers
    BY DEF Steps
<1>2. /\ Resending(step, resend) = [step EXCEPT !.failover = g]
      /\ DOMAIN step = {"failover", "stop", "pause"}
    BY DEF Resending, Steps
<1>3. g.streak = f.streak /\ g.cycle = f.cycle /\ g.pauses = f.pauses /\ g.current = f.current
    BY <1>1 DEF Failovers
<1> HIDE DEF f, g
<1> QED BY <1>2, <1>3 DEF f

LEMMA MovedWalk ==
    ASSUME NEW step \in Steps, NEW next \in Endpoints
    PROVE  LET moved == [step EXCEPT !.failover.current = next]
           IN  /\ moved \in Steps
               /\ moved.failover.streak = step.failover.streak
               /\ moved.failover.cycle = step.failover.cycle
               /\ moved.failover.pauses = step.failover.pauses
               /\ moved.failover.current = next
               /\ moved.pause = step.pause
               /\ moved.stop = step.stop
<1> DEFINE f == step.failover
           g == [f EXCEPT !.current = next]
<1>1. f \in Failovers
    BY DEF Steps
<1>2. /\ [step EXCEPT !.failover.current = next] = [step EXCEPT !.failover = g]
      /\ DOMAIN step = {"failover", "stop", "pause"}
    BY DEF Steps
<1>3. /\ g \in Failovers
      /\ g.streak = f.streak /\ g.cycle = f.cycle /\ g.pauses = f.pauses /\ g.current = next
    BY <1>1 DEF Failovers
<1> HIDE DEF f, g
<1>4. [step EXCEPT !.failover = g] \in Steps
    BY <1>3 DEF Steps
<1> QED BY <1>2, <1>3, <1>4 DEF f

\* A rotation counts, and goes one place on: at once within a cycle, after a
\* pause that answers the whole cycle at its end.
Rotated(step, f, policy, retryAfter, draw, remaining) ==
    LET g        == step.failover
        smallest == CycleRetryAfter(f, retryAfter)
    IN  /\ g.streak = f.streak + 1
        /\ g.current = (f.current + 1) % f.len
        /\ IF EndsCycle(f)
           THEN g.cycle = << >> /\ Rests(step, f, policy, smallest, draw, remaining)
           ELSE g.cycle = << smallest >> /\ g.pauses = f.pauses /\ step.pause = None

LEMMA RotateWalk ==
    ASSUME inner \in Clients,
           NEW f \in Failovers, NEW policy \in Policies, NEW reason \in Reasons,
           NEW retryAfter \in RetryAfters \cup {None}, NEW draw \in Draws,
           NEW remaining \in Option(Duration)
    PROVE  LET step == Rotate(f, policy, reason, retryAfter, draw, remaining)
           IN  step.stop = None => Rotated(step, f, policy, retryAfter, draw, remaining)
<1> DEFINE smallest == CycleRetryAfter(f, retryAfter)
           asked    == IF EndsCycle(f) THEN << >> ELSE << smallest >>
           counted  == [f EXCEPT !.streak = f.streak + 1, !.cycle = asked]
           step     == IF EndsCycle(f)
                       THEN TakePause(counted, policy, smallest, draw, remaining)
                       ELSE GoOn(counted, None)
           next     == (step.failover.current + 1) % f.len
           moved    == [step EXCEPT !.failover.current = next]
           resend   == [kind |-> "Rotation", from |-> f.current, reason |-> reason]
           answer   == Rotate(f, policy, reason, retryAfter, draw, remaining)
<1>1. smallest \in RetryAfters \cup {None}
    BY CycleRetryAfterType
<1>2. /\ counted \in Failovers
      /\ counted.streak = f.streak + 1 /\ counted.cycle = asked
      /\ counted.pauses = f.pauses /\ counted.current = f.current
    <2> HIDE DEF smallest
    <2>1. asked \in {<< >>} \cup {<<d>> : d \in RetryAfters \cup {None}}
        BY <1>1
    <2> HIDE DEF asked
    <2>2. f.streak + 1 \in Nat
        BY DEF Failovers
    <2> QED BY <2>1, <2>2 DEF Failovers
<1>3. answer = IF step.stop # None THEN step ELSE Resending(moved, resend)
    BY DEF Rotate
<1> HIDE DEF counted, answer
<1>4. /\ step \in Steps
      /\ step.failover.current = f.current
      /\ step.stop = None =>
            /\ step.failover.streak = f.streak + 1 /\ step.failover.cycle = asked
            /\ IF EndsCycle(f)
               THEN Rests(step, counted, policy, smallest, draw, remaining)
               ELSE step.failover.pauses = f.pauses /\ step.pause = None
    <2> HIDE DEF smallest, asked
    <2>1. CASE EndsCycle(f)
        BY <1>1, <1>2, <2>1, TakePauseType, TakePauseRecord, TakePauseWalk
    <2>2. CASE ~EndsCycle(f)
        <3>1. /\ GoOn(counted, None) \in Steps
              /\ GoOn(counted, None).failover = counted /\ GoOn(counted, None).pause = None
            BY <1>2 DEF GoOn, Steps, Option
        <3> QED BY <1>2, <2>2, <3>1
    <2> QED BY <2>1, <2>2
<1> HIDE DEF step
<1>5. next \in Endpoints /\ next = (f.current + 1) % f.len
    <2>1. f.len = inner.len /\ f.current \in Endpoints
        BY DEF Failovers
    <2> QED BY <1>4, <2>1, InnerType DEF Endpoints
<1> HIDE DEF next
<1>6. /\ moved \in Steps
      /\ moved.failover.streak = step.failover.streak
      /\ moved.failover.cycle = step.failover.cycle
      /\ moved.failover.pauses = step.failover.pauses
      /\ moved.failover.current = next
      /\ moved.pause = step.pause /\ moved.stop = step.stop
    BY <1>4, <1>5, MovedWalk
<1> HIDE DEF moved, resend
<1> SUFFICES ASSUME answer.stop = None
             PROVE  Rotated(answer, f, policy, retryAfter, draw, remaining)
    BY DEF answer
<1>7. step.stop = None /\ answer = Resending(moved, resend)
    BY <1>3
<1>8. /\ answer.failover.streak = step.failover.streak
      /\ answer.failover.cycle = step.failover.cycle
      /\ answer.failover.pauses = step.failover.pauses
      /\ answer.failover.current = next
      /\ answer.pause = step.pause
    BY <1>6, <1>7, ResendingWalk
<1> HIDE DEF asked, smallest
<1>9. EndsCycle(f) => Rests(answer, f, policy, smallest, draw, remaining)
    BY <1>2, <1>4, <1>7, <1>8 DEF Rests
<1> QED BY <1>4, <1>5, <1>7, <1>8, <1>9 DEF Rotated, asked, smallest

\* A retry in place starts a cycle anew, after a pause of its own.
Retried(step, f, policy, retryAfter, draw, remaining) ==
    /\ step.failover.streak = 0
    /\ step.failover.cycle = << >>
    /\ step.failover.current = f.current
    /\ Rests(step, f, policy, retryAfter, draw, remaining)

LEMMA RetryInPlaceWalk ==
    ASSUME NEW f \in Failovers, NEW policy \in Policies, NEW reason \in Reasons,
           NEW retryAfter \in RetryAfters \cup {None}, NEW draw \in Draws,
           NEW remaining \in Option(Duration)
    PROVE  LET step == RetryInPlace(f, policy, reason, retryAfter, draw, remaining)
           IN  step.stop = None => Retried(step, f, policy, retryAfter, draw, remaining)
<1> DEFINE reset  == [f EXCEPT !.streak = 0, !.cycle = << >>]
           step   == TakePause(reset, policy, retryAfter, draw, remaining)
           resend == [kind |-> "Retry", reason |-> reason]
           answer == RetryInPlace(f, policy, reason, retryAfter, draw, remaining)
<1>1. /\ reset \in Failovers /\ reset.streak = 0 /\ reset.cycle = << >>
      /\ reset.current = f.current /\ reset.pauses = f.pauses
    BY DEF Failovers
<1>2. answer = IF step.stop # None THEN step ELSE Resending(step, resend)
    BY DEF RetryInPlace
<1> HIDE DEF reset, answer
<1>3. /\ step \in Steps
      /\ step.failover.current = f.current
      /\ step.failover.streak = 0 /\ step.failover.cycle = << >>
      /\ step.stop = None => Rests(step, reset, policy, retryAfter, draw, remaining)
    BY <1>1, TakePauseType, TakePauseRecord, TakePauseWalk
<1> HIDE DEF step, resend
<1> SUFFICES ASSUME answer.stop = None
             PROVE  Retried(answer, f, policy, retryAfter, draw, remaining)
    BY DEF answer
<1>4. step.stop = None /\ answer = Resending(step, resend)
    BY <1>2
<1> QED BY <1>1, <1>3, <1>4, ResendingWalk DEF Retried, Rests

\* Failover::after, as far as it bears on the walk.
LEMMA AfterWalk ==
    ASSUME inner \in Clients,
           NEW f \in Failovers, NEW out \in Outcomes, NEW policy \in Option(Policies),
           NEW draw \in Draws, NEW remaining \in Option(Duration)
    PROVE  LET step == After(f, out, policy, draw, remaining)
           IN  step.stop = None =>
                  /\ out.kind # "Final"
                  /\ out.retry_after \in RetryAfters \cup {None}
                  /\ IF inner.len > 1 /\ IsRotation(out)
                     THEN Rotated(step, f, policy, out.retry_after, draw, remaining)
                     ELSE Retried(step, f, policy, out.retry_after, draw, remaining)
<1> DEFINE step == After(f, out, policy, draw, remaining)
           g    == Traced(f, out.reason)
<1> SUFFICES ASSUME step.stop = None
             PROVE  /\ out.kind # "Final"
                    /\ out.retry_after \in RetryAfters \cup {None}
                    /\ IF inner.len > 1 /\ IsRotation(out)
                       THEN Rotated(step, f, policy, out.retry_after, draw, remaining)
                       ELSE Retried(step, f, policy, out.retry_after, draw, remaining)
    OBVIOUS
<1>1. policy # None /\ ShouldRetry(policy, f.attempts)
    BY AfterType
<1>2. out.kind # "Final"
    BY StopAssumption DEF After, Halt
<1>3. out.reason \in Reasons /\ out.retry_after \in RetryAfters \cup {None}
    BY <1>2 DEF Outcomes, Final
<1>4. policy \in Policies
    BY <1>1 DEF Option
<1>5. /\ g \in Failovers /\ g.attempts = f.attempts
      /\ g.streak = f.streak /\ g.cycle = f.cycle /\ g.pauses = f.pauses
      /\ g.current = f.current /\ g.len = f.len /\ f.len = inner.len
    BY <1>3, TracedType DEF Traced, Failovers
<1> HIDE DEF g
<1>6. step = IF g.len > 1 /\ IsRotation(out)
             THEN Rotate(g, policy, out.reason, out.retry_after, draw, remaining)
             ELSE RetryInPlace(g, policy, out.reason, out.retry_after, draw, remaining)
    BY <1>1, <1>2, <1>5 DEF After, g
<1> HIDE DEF step
<1>7. CASE inner.len > 1 /\ IsRotation(out)
    <2>1. Rotated(step, g, policy, out.retry_after, draw, remaining)
        BY <1>3, <1>4, <1>5, <1>6, <1>7, RotateWalk
    <2> QED BY <1>2, <1>3, <1>5, <1>7, <2>1
            DEF Rotated, Rests, EndsCycle, CycleRetryAfter
<1>8. CASE ~(inner.len > 1 /\ IsRotation(out))
    <2>1. Retried(step, g, policy, out.retry_after, draw, remaining)
        BY <1>3, <1>4, <1>5, <1>6, <1>8, RetryInPlaceWalk
    <2> QED BY <1>2, <1>3, <1>5, <1>8, <2>1 DEF Retried, Rests
<1> QED BY <1>7, <1>8

\* Failover::begin leaves the walk where it is.
LEMMA BegunWalk ==
    ASSUME NEW f \in Failovers
    PROVE  /\ Begun(f).streak = f.streak /\ Begun(f).cycle = f.cycle
           /\ Begun(f).pauses = f.pauses /\ Begun(f).current = f.current
    BY DEF Begun, Failovers

-----------------------------------------------------------------------------
(* The walk on the wire.  s is what a call has sent over m endpoints, and  *)
(* place how many rotations it counts since its last pause.                *)

\* Attempts a to b went round the set without a pause between them, the first
\* of them after a pause or as the first of the call.
Lap(m, s, a, b) ==
    /\ a \in 1 .. b
    /\ b - a < m
    /\ a > 1 => s[a - 1].pause # None
    /\ \A k \in a .. b - 1 : s[k].pause = None
    /\ \A k \in a .. b : s[k].endpoint = Onto(m, s[a].endpoint, k - a)

\* An attempt is out, on a lap of place + 1.
Under(m, s, place) ==
    LET n == Len(s)
    IN  s # << >> /\ s[n].pause = None /\ Lap(m, s, n - place, n)

\* The next attempt goes to this endpoint: at once and one place on, while
\* the lap has places left; after a pause, to the same endpoint, or one place
\* on when the lap was a whole one.
Ahead(m, s, place, next) ==
    LET n == Len(s)
    IN  \/ s = << >> /\ place = 0
        \/ /\ s # << >> /\ s[n].pause = None /\ place > 0
           /\ Lap(m, s, n - place + 1, n)
           /\ next = Onto(m, s[n].endpoint, 1)
        \/ /\ s # << >> /\ s[n].pause # None /\ place = 0
           /\ \/ next = s[n].endpoint
              \/ /\ next = Onto(m, s[n].endpoint, 1)
                 /\ Lap(m, s, n - m + 1, n)

\* No endpoint was asked twice without a pause in between.
NoRepeat(s) ==
    \A i, j \in DOMAIN s :
        i < j /\ s[i].endpoint = s[j].endpoint => \E k \in i .. j - 1 : s[k].pause # None

\* What one more attempt makes of it.
LEMMA SendingWalks ==
    ASSUME NEW m \in Nat \ {0}, NEW n \in Nat, NEW place \in 0 .. m - 1,
           NEW s, DOMAIN s = 1 .. n, Len(s) = n,
           \A i \in 1 .. n : s[i].endpoint \in 0 .. m - 1,
           NEW t, DOMAIN t = 1 .. n + 1, Len(t) = n + 1, t # << >>,
           \A i \in 1 .. n : t[i] = s[i], t[n + 1].pause = None,
           t[n + 1].endpoint \in 0 .. m - 1,
           s = << >> <=> n = 0,
           Ahead(m, s, place, t[n + 1].endpoint), NoRepeat(s)
    PROVE  Under(m, t, place) /\ NoRepeat(t)
<1> DEFINE a == n + 1 - place
           e == t[a].endpoint
<1>1. CASE n > 0 /\ s[n].pause = None
    <2>1. place > 0 /\ Lap(m, s, a, n) /\ t[n + 1].endpoint = Onto(m, s[n].endpoint, 1)
        <3>1. n - place + 1 = a
            OBVIOUS
        <3> QED BY <1>1, <3>1 DEF Ahead
    <2>2. a \in 1 .. n /\ e \in 0 .. m - 1 /\ n + 1 - a = place
        BY <2>1 DEF Lap
    <2>3. \A k \in a .. n + 1 : t[k].endpoint = Onto(m, e, k - a)
        <3>1. \A k \in a .. n : t[k].endpoint = Onto(m, e, k - a)
            BY <2>1, <2>2 DEF Lap
        <3>2. t[n + 1].endpoint = Onto(m, e, n + 1 - a)
            <4>1. s[n].endpoint = Onto(m, e, n - a)
                BY <1>1, <2>2, <3>1
            <4>2. n - a \in 0 .. m - 1 /\ n - a + 1 < m /\ n - a + 1 = n + 1 - a
                BY <2>2
            <4> HIDE DEF a, e
            <4> QED BY <2>1, <2>2, <4>1, <4>2, OntoType
        <3>3. \A k \in a .. n + 1 : k = n + 1 \/ k \in a .. n
            BY <2>2
        <3> QED BY <3>1, <3>2, <3>3
    <2>4. Lap(m, t, a, n + 1)
        BY <1>1, <2>1, <2>2, <2>3 DEF Lap
    <2>5. Under(m, t, place)
        BY <2>4 DEF Under
    <2>6. ASSUME NEW i \in 1 .. n, t[i].endpoint = t[n + 1].endpoint
          PROVE  \E k \in i .. n : t[k].pause # None
        <3>1. CASE i < a
            <4>1. a - 1 \in i .. n /\ t[a - 1].pause # None
                BY <2>2, <2>4, <3>1 DEF Lap
            <4> QED BY <4>1
        <3>2. CASE i >= a
            <4>1. i - a \in Nat /\ place \in Nat /\ i - a < place /\ place < m
                BY <2>2, <3>2
            <4>2. /\ t[i].endpoint = Onto(m, e, i - a)
                  /\ t[n + 1].endpoint = Onto(m, e, place)
                BY <2>2, <2>3, <3>2
            <4> HIDE DEF a, e
            <4> QED BY <2>2, <2>6, <4>1, <4>2, OntoElsewhere
        <3> QED BY <2>2, <3>1, <3>2
    <2>7. NoRepeat(t)
        <3> SUFFICES ASSUME NEW i \in 1 .. n + 1, NEW j \in 1 .. n + 1, i < j,
                            t[i].endpoint = t[j].endpoint
                     PROVE  \E k \in i .. j - 1 : t[k].pause # None
            BY DEF NoRepeat
        <3>1. CASE j = n + 1
            BY <2>6, <3>1
        <3>2. CASE j # n + 1
            BY <3>2 DEF NoRepeat
        <3> QED BY <3>1, <3>2
    <2> QED BY <2>5, <2>7
<1>2. CASE n = 0 \/ s[n].pause # None
    <2>1. place = 0
        BY <1>2 DEF Ahead
    <2>2. Onto(m, t[n + 1].endpoint, 0) = t[n + 1].endpoint
        BY OntoType
    <2>3. Lap(m, t, n + 1, n + 1)
        BY <1>2, <2>2 DEF Lap
    <2>4. Under(m, t, place)
        BY <2>1, <2>3 DEF Under
    <2>5. NoRepeat(t)
        <3> SUFFICES ASSUME NEW i \in 1 .. n + 1, NEW j \in 1 .. n + 1, i < j,
                            t[i].endpoint = t[j].endpoint
                     PROVE  \E k \in i .. j - 1 : t[k].pause # None
            BY DEF NoRepeat
        <3>1. CASE j = n + 1
            <4>1. n \in i .. j - 1 /\ t[n].pause # None
                BY <1>2, <3>1
            <4> QED BY <4>1
        <3>2. CASE j # n + 1
            BY <3>2 DEF NoRepeat
        <3> QED BY <3>1, <3>2
    <2> QED BY <2>4, <2>5
<1> QED BY <1>1, <1>2

\* What the end of an attempt makes of it: nothing.
LEMMA EndingWalks ==
    ASSUME NEW m, NEW n \in Nat \ {0}, NEW place \in Nat,
           NEW s, DOMAIN s = 1 .. n, Len(s) = n,
           NEW t, DOMAIN t = 1 .. n, Len(t) = n, t # << >>,
           \A i \in 1 .. n : t[i].endpoint = s[i].endpoint /\ t[i].pause = s[i].pause
    PROVE  /\ Under(m, s, place) => Under(m, t, place)
           /\ NoRepeat(s) => NoRepeat(t)
<1>1. ASSUME Under(m, s, place) PROVE Under(m, t, place)
    <2> DEFINE a == n - place
    <2>1. s[n].pause = None /\ Lap(m, s, a, n)
        BY <1>1 DEF Under
    <2>2. a \in 1 .. n
        BY <2>1 DEF Lap
    <2>3. Lap(m, t, a, n)
        <3> HIDE DEF a
        <3>1. a > 1 => t[a - 1].pause # None
            BY <2>1, <2>2 DEF Lap
        <3>2. \A k \in a .. n : k \in 1 .. n
            BY <2>2
        <3>3. \A k \in a .. n : t[k].endpoint = Onto(m, t[a].endpoint, k - a)
            BY <2>1, <2>2, <3>2 DEF Lap
        <3>4. \A k \in a .. n - 1 : t[k].pause = None
            BY <2>1, <2>2, <3>2 DEF Lap
        <3> QED BY <2>1, <3>1, <3>3, <3>4 DEF Lap
    <2> QED BY <2>1, <2>3 DEF Under
<1>2. ASSUME NoRepeat(s) PROVE NoRepeat(t)
    <2> SUFFICES ASSUME NEW i \in 1 .. n, NEW j \in 1 .. n, i < j,
                        t[i].endpoint = t[j].endpoint
                 PROVE  \E k \in i .. j - 1 : t[k].pause # None
        BY DEF NoRepeat
    <2>1. PICK k \in i .. j - 1 : s[k].pause # None
        BY <1>2 DEF NoRepeat
    <2>2. k \in 1 .. n
        BY <2>1
    <2> QED BY <2>1, <2>2
<1> QED BY <1>1, <1>2

\* What the decision after an attempt makes of it: the lap goes on, or ends
\* with a pause.
LEMMA DecidingWalks ==
    ASSUME NEW m \in Nat \ {0}, NEW n \in Nat \ {0}, NEW place \in 0 .. m - 1,
           NEW s, DOMAIN s = 1 .. n, Len(s) = n,
           NEW t, DOMAIN t = 1 .. n, Len(t) = n, t # << >>,
           \A i \in 1 .. n : /\ t[i].endpoint = s[i].endpoint
                             /\ i # n => t[i].pause = s[i].pause,
           Under(m, s, place), NoRepeat(s)
    PROVE  /\ NoRepeat(t)
           /\ t[n].pause = None /\ place + 1 # m =>
                  Ahead(m, t, place + 1, Onto(m, t[n].endpoint, 1))
           /\ t[n].pause # None /\ place + 1 = m =>
                  Ahead(m, t, 0, Onto(m, t[n].endpoint, 1))
           /\ t[n].pause # None => Ahead(m, t, 0, t[n].endpoint)
<1> DEFINE a == n - place
<1>1. Lap(m, s, a, n)
    BY DEF Under
<1>2. a \in 1 .. n
    BY <1>1 DEF Lap
<1>3. Lap(m, t, a, n)
    <2> HIDE DEF a
    <2> QED BY <1>1, <1>2 DEF Lap
<1>4. NoRepeat(t)
    <2> SUFFICES ASSUME NEW i \in 1 .. n, NEW j \in 1 .. n, i < j,
                        t[i].endpoint = t[j].endpoint
                 PROVE  \E k \in i .. j - 1 : t[k].pause # None
        BY DEF NoRepeat
    <2>1. PICK k \in i .. j - 1 : s[k].pause # None
        BY DEF NoRepeat
    <2>2. k \in 1 .. n /\ k # n
        BY <2>1
    <2> QED BY <2>1, <2>2
<1>5. n - (place + 1) + 1 = a /\ (place + 1 = m => n - m + 1 = a) /\ place + 1 > 0
    OBVIOUS
<1> HIDE DEF a
<1> QED BY <1>3, <1>4, <1>5 DEF Ahead

-----------------------------------------------------------------------------
(* The invariant of the walk.                                              *)

Placed(c) == failover[c].streak % inner.len

WalkOK(c) ==
    /\ pc[c] \in {"begin", "send", "sleeping"} =>
          Ahead(inner.len, sent[c], Placed(c), failover[c].current)
    /\ pc[c] \in {"inflight", "body", "after"} =>
          Under(inner.len, sent[c], Placed(c))
    /\ NoRepeat(sent[c])

WInv == \A c \in Calls : WalkOK(c)

\* How a step of a call may end its attempt,
Ends(c) ==
    /\ pc[c] = "inflight"
    /\ pc'[c] \in {"body", "after", "done"}
    /\ UNCHANGED <<inner, request, failover, attempt>>
    /\ \E how, retryAfter : sent' = Ended(c, how, retryAfter)

\* and how it may neither begin, nor end, nor follow one.
Rolls(c) ==
    /\ UNCHANGED <<inner, request, sent>>
    /\ failover'[c] \in {failover[c], Begun(failover[c])}
    /\ \/ pc[c] # "idle" /\ pc'[c] \in {"done", "dropped"}
       \/ pc[c] \in {"begin", "sleeping"} /\ pc'[c] \in {"begin", "send"}
       \/ pc[c] = "body" /\ pc'[c] = "after" /\ failover'[c] = failover[c]

\* Every step of a call does one thing to the wire.
LEMMA OnTheWire ==
    ASSUME IInv, NEW c \in Calls, Step(c)
    PROVE  Start(c) \/ Send(c) \/ Ends(c) \/ Decide(c) \/ Rolls(c)
<1> USE DEF config, ghosts, IInv, TypeOK
<1>1. CASE Begin(c)
    BY <1>1 DEF Begin, Rolls
<1>2. CASE BeginTooLate(c)
    BY <1>2 DEF BeginTooLate, Rolls
<1>3. CASE BodyRead(c) \/ Wake(c) \/ Drop(c)
    BY <1>3 DEF BodyRead, Wake, Drop, Rolls
<1>4. CASE Succeed(c)
    BY <1>4 DEF Succeed, Ends
<1>5. CASE Answer(c)
    BY <1>5 DEF Answer, Ends
<1>6. ASSUME NEW connect, NEW timeout, Fail(c, connect, timeout)
      PROVE  Ends(c)
    BY <1>6 DEF Fail, Ends
<1>7. CASE Disconnect(c) \/ Expire(c) \/ OwnTimeout(c)
    BY <1>3, <1>6, <1>7 DEF Disconnect, Expire, OwnTimeout
<1>8. CASE RefuseRedirect(c)
    BY <1>8 DEF RefuseRedirect, Ends
<1> QED BY <1>1, <1>2, <1>3, <1>4, <1>5, <1>7, <1>8 DEF Step, Run

LEMMA PlacedType ==
    ASSUME inner \in Clients, NEW c \in Calls, failover[c] \in Failovers
    PROVE  Placed(c) \in 0 .. inner.len - 1
<1>1. inner.len \in Nat \ {0} /\ failover[c].streak \in Nat
    BY InnerType DEF Failovers
<1> QED BY <1>1, ModNext DEF Placed

LEMMA StartWalks ==
    ASSUME IInv, NEW c \in Calls, WalkOK(c), Start(c)
    PROVE  WalkOK(c)'
<1>1. inner \in Clients /\ inner.len \in Nat \ {0}
    BY InnerType DEF IInv, TypeOK
<1>2. /\ inner' = inner /\ sent' = sent /\ pc'[c] = "begin" /\ sent[c] = << >>
      /\ failover'[c].streak = 0
    BY DEF IInv, TypeOK, BudgetOK, Start, ghosts, New
<1>3. Placed(c)' = 0
    BY <1>1, <1>2 DEF Placed
<1> QED BY <1>2, <1>3 DEF WalkOK, Ahead

LEMMA SendWalks ==
    ASSUME IInv, RInv, NEW c \in Calls, WalkOK(c), Send(c)
    PROVE  WalkOK(c)'
<1> DEFINE n == Len(sent[c])
           s == sent[c]
           t == sent'[c]
<1>1. /\ inner \in Clients /\ inner.len \in Nat \ {0} /\ inner' = inner
      /\ failover' = failover /\ failover[c] \in Failovers
      /\ pc[c] = "send" /\ pc'[c] = "inflight"
    BY InnerType DEF IInv, TypeOK, CallOK, Send, config
<1>2. /\ n \in Nat /\ DOMAIN s = 1 .. n /\ Len(s) = n
      /\ DOMAIN t = 1 .. n + 1 /\ Len(t) = n + 1 /\ t # << >>
      /\ \A i \in 1 .. n : t[i] = s[i]
      /\ t[n + 1].endpoint = failover[c].current
      /\ t[n + 1].pause = None
    BY <1>1, SendingEntries DEF RInv, RecordedOK
<1>3. /\ \A i \in 1 .. n : s[i].endpoint \in 0 .. inner.len - 1
      /\ failover[c].current \in 0 .. inner.len - 1
    <2>1. s \in Seq(Sends)
        BY DEF IInv, TypeOK
    <2> QED BY <1>1, <2>1, WireType DEF Sends, Failovers, Endpoints
<1>4. Placed(c) \in 0 .. inner.len - 1 /\ Placed(c)' = Placed(c)
    BY <1>1, PlacedType DEF Placed
<1>5. Ahead(inner.len, s, Placed(c), t[n + 1].endpoint) /\ NoRepeat(s)
    BY <1>1, <1>2 DEF WalkOK
<1>6. s = << >> <=> n = 0
    BY <1>2
<1> HIDE DEF s, t, n
<1>7. Under(inner.len, t, Placed(c)) /\ NoRepeat(t)
    BY <1>1, <1>2, <1>3, <1>4, <1>5, <1>6, SendingWalks
<1> QED BY <1>1, <1>4, <1>7 DEF WalkOK, t

LEMMA EndsWalks ==
    ASSUME IInv, NEW c \in Calls, WalkOK(c), Ends(c)
    PROVE  WalkOK(c)'
<1> DEFINE n == Len(sent[c])
           s == sent[c]
           t == sent'[c]
<1>1. /\ inner' = inner /\ failover' = failover
      /\ pc[c] = "inflight" /\ pc'[c] \in {"body", "after", "done"}
      /\ failover[c] \in Failovers /\ inner \in Clients
      /\ Placed(c)' = Placed(c)
    BY InFlightType DEF Ends, Placed
<1>2. PICK how, retryAfter : sent' = Ended(c, how, retryAfter)
    BY DEF Ends
<1>3. /\ n \in Nat \ {0} /\ DOMAIN s = 1 .. n /\ Len(s) = n
      /\ DOMAIN t = 1 .. n /\ Len(t) = n /\ t # << >>
      /\ \A i \in 1 .. n : t[i].endpoint = s[i].endpoint /\ t[i].pause = s[i].pause
    BY <1>1, <1>2, InFlightType, EndedEntries
<1>4. Placed(c) \in Nat
    BY <1>1, PlacedType, InnerType
<1>5. Under(inner.len, s, Placed(c)) /\ NoRepeat(s)
    BY <1>1 DEF WalkOK
<1> HIDE DEF s, t, n
<1>6. Under(inner.len, t, Placed(c)) /\ NoRepeat(t)
    BY <1>3, <1>4, <1>5, EndingWalks
<1> QED BY <1>1, <1>6 DEF WalkOK, t

LEMMA RollsWalks ==
    ASSUME IInv, NEW c \in Calls, WalkOK(c), Rolls(c)
    PROVE  WalkOK(c)'
<1>1. failover'[c].streak = failover[c].streak /\ failover'[c].current = failover[c].current
    <2>1. failover[c] \in Failovers
        BY DEF IInv, CallOK, Rolls
    <2> QED BY <2>1, BegunWalk DEF Rolls
<1>2. inner' = inner /\ sent' = sent /\ Placed(c)' = Placed(c)
    BY <1>1 DEF Rolls, Placed
<1> QED BY <1>1, <1>2 DEF WalkOK, Rolls

\* What Decide writes: the record Failover leaves and, when the call goes on,
\* the pause it takes on its latest attempt.
LEMMA DecidedEntries ==
    ASSUME IInv, NEW c \in Calls, Decide(c), sent[c][Len(sent[c])].pause = None
    PROVE  \E draw \in Draws :
               LET n    == Len(sent[c])
                   step == After(failover[c], outcome[c], PolicyOf(c), draw, left[c])
               IN  /\ failover'[c] = step.failover
                   /\ n \in Nat \ {0} /\ DOMAIN sent[c] = 1 .. n
                   /\ DOMAIN sent'[c] = 1 .. n /\ Len(sent'[c]) = n
                   /\ \A i \in 1 .. n : /\ sent'[c][i].endpoint = sent[c][i].endpoint
                                        /\ sent'[c][i].outcome = sent[c][i].outcome
                                        /\ sent'[c][i].retry_after = sent[c][i].retry_after
                                        /\ i # n => sent'[c][i].pause = sent[c][i].pause
                   /\ \/ /\ step.stop # None
                         /\ pc'[c] = "done"
                         /\ sent' = sent
                      \/ /\ step.stop = None
                         /\ pc'[c] \in {"begin", "sleeping"}
                         /\ sent'[c][n].pause = step.pause
<1>1. PICK draw \in 0 .. DrawDen - 1 :
          LET step == After(failover[c], outcome[c], PolicyOf(c), draw, left[c])
              f    == step.failover
          IN  /\ failover' = [failover EXCEPT ![c] = f]
              /\ \/ /\ step.stop # None
                    /\ pc'     = [pc EXCEPT ![c] = "done"]
                    /\ sent' = sent
                 \/ /\ step.stop = None
                    /\ step.pause = None
                    /\ pc' = [pc EXCEPT ![c] = "begin"]
                    /\ sent' = sent
                 \/ /\ step.stop = None
                    /\ step.pause # None
                    /\ sent' = [sent EXCEPT ![c][Len(sent[c])].pause = step.pause]
                    /\ pc'   = [pc EXCEPT ![c] = "sleeping"]
    BY DEF Decide
<1> DEFINE n    == Len(sent[c])
           step == After(failover[c], outcome[c], PolicyOf(c), draw, left[c])
<1>2. /\ sent \in [Calls -> Seq(Sends)] /\ sent[c] # << >>
      /\ n \in Nat \ {0} /\ DOMAIN sent[c] = 1 .. n
      /\ pc \in [Calls -> PcStates] /\ failover \in [Calls -> Option(Failovers)]
    BY InFlightType, EmptySeq, LenProperties DEF IInv, TypeOK, Decide
<1> HIDE DEF step
<1> draw \in Draws
    BY DrawAssumption DEF Draws
<1> WITNESS draw \in Draws
<1>3. failover'[c] = step.failover
    BY <1>1, <1>2 DEF step
<1>4. CASE step.stop # None
    <2>1. pc'[c] = "done" /\ sent' = sent
        BY <1>1, <1>2, <1>4 DEF step
    <2> QED BY <1>2, <1>3, <1>4, <2>1 DEF step
<1>5. CASE step.stop = None /\ step.pause = None
    <2>1. pc'[c] = "begin" /\ sent' = sent
        BY <1>1, <1>2, <1>5 DEF step
    <2> QED BY <1>2, <1>3, <1>5, <2>1 DEF step
<1>6. CASE step.stop = None /\ step.pause # None
    <2>1. pc'[c] = "sleeping" /\ sent' = [sent EXCEPT ![c][Len(sent[c])].pause = step.pause]
        BY <1>1, <1>2, <1>6 DEF step
    <2>2. /\ DOMAIN sent'[c] = 1 .. n /\ Len(sent'[c]) = n
          /\ \A i \in 1 .. n : /\ sent'[c][i].endpoint = sent[c][i].endpoint
                               /\ sent'[c][i].outcome = sent[c][i].outcome
                               /\ sent'[c][i].retry_after = sent[c][i].retry_after
                               /\ i # n => sent'[c][i].pause = sent[c][i].pause
          /\ sent'[c][n].pause = step.pause
        BY <1>2, <2>1, PausedEntries
    <2> QED BY <1>2, <1>3, <1>6, <2>1, <2>2 DEF step
<1> QED BY <1>4, <1>5, <1>6

\* Failover's counts and the wire agree on whether the lap is whole.
LEMMA CycleEnds ==
    ASSUME inner \in Clients, NEW c \in Calls, failover[c] \in Failovers
    PROVE  /\ EndsCycle(failover[c]) <=> Placed(c) + 1 = inner.len
           /\ (failover[c].streak + 1) % inner.len
                  = IF EndsCycle(failover[c]) THEN 0 ELSE Placed(c) + 1
<1>1. /\ inner.len \in Nat \ {0} /\ failover[c].streak \in Nat
      /\ failover[c].len = inner.len
    BY InnerType DEF Failovers
<1>2. ASSUME NEW m \in Nat \ {0}, NEW x \in Nat
      PROVE  /\ (x + 1) % m = 0 <=> (x % m) + 1 = m
             /\ (x + 1) % m = IF (x + 1) % m = 0 THEN 0 ELSE (x % m) + 1
    <2>1. x % m \in 0 .. m - 1 /\ (x + 1) % m = IF (x % m) + 1 = m THEN 0 ELSE (x % m) + 1
        BY ModNext
    <2> DEFINE r == x % m
               q == (x + 1) % m
    <2>2. r \in 0 .. m - 1 /\ q = IF r + 1 = m THEN 0 ELSE r + 1
        BY <2>1
    <2> HIDE DEF r, q
    <2>3. (q = 0 <=> r + 1 = m) /\ q = IF q = 0 THEN 0 ELSE r + 1
        BY <2>2
    <2> QED BY <2>3 DEF r, q
<1> QED BY <1>1, <1>2 DEF Placed, EndsCycle

LEMMA DecideWalks ==
    ASSUME IInv, RInv, NEW c \in Calls, WalkOK(c), Decide(c)
    PROVE  WalkOK(c)'
<1> DEFINE n     == Len(sent[c])
           s     == sent[c]
           t     == sent'[c]
           f     == failover[c]
           m     == inner.len
           place == Placed(c)
<1>1. /\ inner \in Clients /\ m \in Nat \ {0} /\ inner' = inner
      /\ f \in Failovers /\ f.len = m /\ outcome[c] \in Outcomes
      /\ left[c] \in Option(Duration) /\ PolicyOf(c) \in Option(Policies)
      /\ place \in 0 .. m - 1
      /\ f.current = s[n].endpoint
    <2>1. inner \in Clients /\ f \in Failovers /\ outcome[c] \in Outcomes
        BY DEF IInv, TypeOK, CallOK, Decide
    <2> QED BY <2>1, InnerType, BudgetType, PlacedType
            DEF IInv, TypeOK, Decide, config, RInv, RecordedOK, Latest, Failovers
<1>2. Under(m, s, place) /\ NoRepeat(s) /\ s[n].pause = None
    BY DEF WalkOK, Decide, Under
<1>3. PICK draw \in Draws :
          LET step == After(f, outcome[c], PolicyOf(c), draw, left[c])
          IN  /\ failover'[c] = step.failover
              /\ n \in Nat \ {0} /\ DOMAIN s = 1 .. n
              /\ DOMAIN t = 1 .. n /\ Len(t) = n
              /\ \A i \in 1 .. n : /\ t[i].endpoint = s[i].endpoint
                                   /\ i # n => t[i].pause = s[i].pause
              /\ \/ /\ step.stop # None
                    /\ pc'[c] = "done"
                    /\ sent' = sent
                 \/ /\ step.stop = None
                    /\ pc'[c] \in {"begin", "sleeping"}
                    /\ t[n].pause = step.pause
    BY <1>2, DecidedEntries
<1> DEFINE step == After(f, outcome[c], PolicyOf(c), draw, left[c])
<1>4. /\ NoRepeat(t)
      /\ t[n].pause = None /\ place + 1 # m =>
             Ahead(m, t, place + 1, Onto(m, t[n].endpoint, 1))
      /\ t[n].pause # None /\ place + 1 = m =>
             Ahead(m, t, 0, Onto(m, t[n].endpoint, 1))
      /\ t[n].pause # None => Ahead(m, t, 0, t[n].endpoint)
    <2>1. Len(s) = n /\ t # << >>
        BY <1>3
    <2> HIDE DEF s, t, n, m, place
    <2> QED BY <1>1, <1>2, <1>3, <2>1, DecidingWalks
<1>5. t[n].endpoint = f.current /\ f.current \in 0 .. m - 1
    <2>1. n \in 1 .. n /\ \A i \in 1 .. n : t[i].endpoint = s[i].endpoint
        BY <1>3
    <2>2. t[n].endpoint = s[n].endpoint /\ s[n].endpoint = f.current
        BY <1>1, <2>1
    <2>3. f.current \in 0 .. m - 1
        BY <1>1 DEF Failovers, Endpoints
    <2> QED BY <2>2, <2>3
<1>6. step.stop = None =>
          IF m > 1 /\ IsRotation(outcome[c])
          THEN Rotated(step, f, PolicyOf(c), outcome[c].retry_after, draw, left[c])
          ELSE Retried(step, f, PolicyOf(c), outcome[c].retry_after, draw, left[c])
    <2> HIDE DEF f
    <2> QED BY <1>1, AfterWalk
<1> HIDE DEF step
<1>7. CASE step.stop # None
    <2>1. pc'[c] = "done"
        BY <1>3, <1>7 DEF step
    <2> QED BY <1>4, <2>1 DEF WalkOK
<1>8. CASE step.stop = None
    <2>1. /\ pc'[c] \in {"begin", "sleeping"}
          /\ failover'[c] = step.failover /\ t[n].pause = step.pause
        BY <1>3, <1>8 DEF step
    <2>2. Placed(c)' = step.failover.streak % m
        BY <1>1, <2>1 DEF Placed
    <2>3. CASE m > 1 /\ IsRotation(outcome[c])
        <3>1. /\ step.failover.streak = f.streak + 1
              /\ step.failover.current = Onto(m, t[n].endpoint, 1)
              /\ EndsCycle(f) <=> step.pause # None
            BY <1>1, <1>5, <1>6, <1>8, <2>3, OntoNext DEF Rotated, Rests
        <3>2. /\ EndsCycle(f) <=> place + 1 = m
              /\ (f.streak + 1) % m = IF EndsCycle(f) THEN 0 ELSE place + 1
            BY <1>1, CycleEnds
        <3>3. Ahead(m, t, Placed(c)', step.failover.current)
            <4> HIDE DEF s, t, n, m, place, f
            <4> QED BY <1>4, <2>1, <2>2, <3>1, <3>2
        <3> QED BY <1>1, <1>4, <2>1, <3>3 DEF WalkOK
    <2>4. CASE ~(m > 1 /\ IsRotation(outcome[c]))
        <3>1. /\ step.failover.streak = 0 /\ step.pause # None
              /\ step.failover.current = t[n].endpoint
            BY <1>5, <1>6, <1>8, <2>4 DEF Retried, Rests
        <3>2. Ahead(m, t, Placed(c)', step.failover.current)
            <4>1. 0 % m = 0
                BY <1>1
            <4> HIDE DEF s, t, n, m, place, f
            <4> QED BY <1>4, <2>1, <2>2, <3>1, <4>1
        <3> QED BY <1>1, <1>4, <2>1, <3>2 DEF WalkOK
    <2> QED BY <2>3, <2>4
<1> QED BY <1>7, <1>8

LEMMA StepWalks ==
    ASSUME IInv, RInv, NEW c \in Calls, WalkOK(c), Step(c)
    PROVE  WalkOK(c)'
    BY OnTheWire, StartWalks, SendWalks, EndsWalks, DecideWalks, RollsWalks

\* The client is never rebuilt.
LEMMA InnerStands ==
    ASSUME [Next]_vars
    PROVE  inner' = inner
<1> USE DEF config, vars
<1>1. ASSUME NEW c \in Calls, Step(c) PROVE inner' = inner
    BY <1>1 DEF Step, Run, Start, Begin, BeginTooLate, Send, Succeed, Answer, BodyRead,
                Disconnect, Expire, OwnTimeout, Fail, RefuseRedirect, Decide, Wake, Drop
<1> QED BY <1>1 DEF Next, Tick, Terminated

LEMMA OthersWalk ==
    ASSUME NEW d \in Calls, WalkOK(d), inner' = inner,
           <<pc[d], failover[d], sent[d]>>' = <<pc[d], failover[d], sent[d]>>
    PROVE  WalkOK(d)'
<1>1. Placed(d)' = Placed(d)
    BY DEF Placed
<1> QED BY <1>1 DEF WalkOK

LEMMA WNext == IInv /\ RInv /\ WInv /\ [Next]_vars => WInv'
<1> SUFFICES ASSUME IInv, RInv, WInv, [Next]_vars, NEW d \in Calls PROVE WalkOK(d)'
    BY DEF WInv
<1>1. WalkOK(d) /\ inner' = inner
    BY InnerStands DEF WInv
<1>2. CASE Tick \/ Terminated \/ UNCHANGED vars
    BY <1>1, <1>2, OthersWalk DEF Tick, Terminated, vars, loop, ghosts
<1>3. ASSUME NEW c \in Calls, Step(c) PROVE WalkOK(d)'
    <2>1. CASE d = c
        BY <1>1, <1>3, <2>1, StepWalks
    <2>2. CASE d # c
        BY <1>1, <1>3, <2>2, OthersStand, OthersRest, OthersWalk
    <2> QED BY <2>1, <2>2
<1> QED BY <1>2, <1>3 DEF Next

LEMMA WInductive == Spec => [](IInv /\ RInv /\ WInv)
<1>1. Init => WInv
    <2> SUFFICES ASSUME Init, NEW c \in Calls PROVE WalkOK(c)
        BY DEF WInv
    <2>1. pc[c] = "idle" /\ sent[c] = << >>
        BY DEF Init
    <2>2. DOMAIN sent[c] = {}
        BY <2>1
    <2> QED BY <2>1, <2>2 DEF WalkOK, NoRepeat
<1> QED BY <1>1, WNext, RInductive, PTL DEF Spec

\* Within a call no endpoint is tried twice without a pause in between: a
\* rotation goes on at once only while the lap has endpoints not yet tried.
THEOREM RetriesRest == Spec => []NoEndpointRetriedAtOnce
<1>1. WInv => NoEndpointRetriedAtOnce
    BY DEF WInv, WalkOK, NoRepeat, NoEndpointRetriedAtOnce
<1> QED BY <1>1, WInductive, PTL

-----------------------------------------------------------------------------
(* Every call is a behaviour of SetWalk.                                   *)

\* What SetWalk does not see.
LEMMA WalkStays ==
    ASSUME NEW c \in Calls, inner' = inner, sent[c] = << >> \/ request'[c] = request[c],
           DOMAIN sent'[c] = DOMAIN sent[c], Len(sent'[c]) = Len(sent[c]),
           Len(sent[c]) \in Nat, DOMAIN sent[c] = 1 .. Len(sent[c]),
           sent'[c] = << >> <=> sent[c] = << >>, sent[c] # << >> => Len(sent[c]) # 0,
           \A i \in DOMAIN sent[c] : /\ sent'[c][i].endpoint = sent[c][i].endpoint
                                     /\ sent'[c][i].pause = sent[c][i].pause
    PROVE  UNCHANGED Walk(c)!wvars
<1>1. sent[c] # << >> => Budget(c)' = Budget(c)
    BY SameBudget
<1>2. SincePause(c)' = SincePause(c)
    BY DEF SincePause
<1>3. {sent[c][i].endpoint : i \in SincePause(c)}'
          = {sent[c][i].endpoint : i \in SincePause(c)}
    <2>1. SincePause(c) \subseteq DOMAIN sent[c]
        BY DEF SincePause
    <2> QED BY <1>2, <2>1
<1>4. sent[c] # << >> =>
          /\ sent'[c][Len(sent'[c])].endpoint = sent[c][Len(sent[c])].endpoint
          /\ sent'[c][Len(sent'[c])].pause = sent[c][Len(sent[c])].pause
    OBVIOUS
<1> QED BY <1>1, <1>3, <1>4 DEF Walk!wvars

\* A lap that ends with the latest attempt is what was sent since the pause.
LEMMA LapIsSincePause ==
    ASSUME NEW c \in Calls, NEW m, NEW a, Len(sent[c]) \in Nat,
           Lap(m, sent[c], a, Len(sent[c]))
    PROVE  SincePause(c) = a .. Len(sent[c])
<1> DEFINE n == Len(sent[c])
<1>1. a \in 1 .. n
    BY DEF Lap
<1>2. ASSUME NEW i \in a .. n PROVE i \in SincePause(c)
    <2>1. i \in 1 .. n /\ \A k \in i .. n - 1 : k \in a .. n - 1
        BY <1>1
    <2> QED BY <2>1 DEF SincePause, Lap
<1>3. ASSUME NEW i \in SincePause(c) PROVE i \in a .. n
    <2>1. i \in 1 .. n /\ \A k \in i .. n - 1 : sent[c][k].pause = None
        BY DEF SincePause
    <2>2. i < a => a - 1 \in i .. n - 1 /\ a > 1
        BY <1>1, <2>1
    <2>3. a > 1 => sent[c][a - 1].pause # None
        BY DEF Lap
    <2> QED BY <1>1, <2>1, <2>2, <2>3
<1> QED BY <1>2, <1>3

\* One more attempt is one more place, or the first one after the pause.
LEMMA SendingSincePause ==
    ASSUME NEW c \in Calls, NEW n \in Nat, Len(sent[c]) = n, Len(sent'[c]) = n + 1,
           \A i \in 1 .. n : sent'[c][i] = sent[c][i]
    PROVE  /\ n = 0 \/ sent[c][n].pause # None => SincePause(c)' = {n + 1}
           /\ n > 0 /\ sent[c][n].pause = None => SincePause(c)' = SincePause(c) \cup {n + 1}
<1>1. SincePause(c)' = {i \in 1 .. n + 1 : \A k \in i .. n : sent[c][k].pause = None}
    <2>1. SincePause(c)'
              = {i \in 1 .. n + 1 : \A k \in i .. (n + 1) - 1 : sent'[c][k].pause = None}
        BY DEF SincePause
    <2>2. (n + 1) - 1 = n /\ \A i \in 1 .. n + 1 : \A k \in i .. n : k \in 1 .. n
        OBVIOUS
    <2> QED BY <2>1, <2>2
<1>2. SincePause(c) = {i \in 1 .. n : \A k \in i .. n - 1 : sent[c][k].pause = None}
    BY DEF SincePause
<1>3. \A i \in 1 .. n : n \in i .. n /\ \A k \in i .. n : k = n \/ k \in i .. n - 1
    OBVIOUS
<1> QED BY <1>1, <1>2, <1>3

\* A whole lap has asked every endpoint of the ring.
LEMMA LapAsksAll ==
    ASSUME NEW m \in Nat \ {0}, NEW n \in Nat, NEW s, Lap(m, s, n - m + 1, n),
           \A i \in 1 .. n : s[i].endpoint \in 0 .. m - 1
    PROVE  \A x : x \in 0 .. m - 1 <=> \E i \in n - m + 1 .. n : s[i].endpoint = x
<1> DEFINE a == n - m + 1
<1>1. a \in 1 .. n /\ \A k \in a .. n : s[k].endpoint = Onto(m, s[a].endpoint, k - a)
    BY DEF Lap
<1>2. ASSUME NEW x \in 0 .. m - 1 PROVE \E i \in a .. n : s[i].endpoint = x
    <2>1. PICK t \in 0 .. m - 1 : Onto(m, s[a].endpoint, t) = x
        BY <1>1, OntoAll
    <2>2. a + t \in a .. n /\ (a + t) - a = t
        BY <2>1
    <2> QED BY <1>1, <2>1, <2>2
<1>3. \A i \in a .. n : i \in 1 .. n
    BY <1>1
<1> QED BY <1>2, <1>3

LEMMA SendRefines ==
    ASSUME IInv, RInv, NEW c \in Calls, WalkOK(c), Send(c)
    PROVE  Walk(c)!Next
<1> DEFINE n == Len(sent[c])
           s == sent[c]
           t == sent'[c]
           m == inner.len
           e == t[n + 1].endpoint
<1>1. /\ inner \in Clients /\ m \in Nat \ {0} /\ inner' = inner /\ request' = request
      /\ s \in Seq(Sends) /\ pc[c] = "send"
    BY InnerType DEF IInv, TypeOK, Send, config
<1>2. /\ n \in Nat /\ Len(t) = n + 1 /\ DOMAIN t = 1 .. n + 1 /\ t # << >>
      /\ \A i \in 1 .. n : t[i] = s[i]
      /\ e = failover[c].current
      /\ t[n + 1].pause = None
      /\ s = << >> <=> n = 0
    <2>1. s = << >> <=> n = 0
        BY <1>1, EmptySeq
    <2>2. /\ n \in Nat /\ Len(t) = n + 1 /\ DOMAIN t = 1 .. n + 1
          /\ \A i \in 1 .. n : t[i] = s[i]
          /\ e = attempt[c].of.endpoint
          /\ t[n + 1].pause = None
        BY SendingEntries
    <2> QED BY <1>1, <2>1, <2>2 DEF RInv, RecordedOK
<1>3. /\ \A i \in 1 .. n : s[i].endpoint \in 0 .. m - 1
      /\ e \in 0 .. m - 1
    <2>1. failover[c] \in Failovers
        BY <1>1 DEF IInv, CallOK
    <2> QED BY <1>1, <1>2, <2>1, WireType DEF Sends, Failovers, Endpoints
<1>4. Budget(c)' = Budget(c) /\ Budget(c) \in Nat /\ n < Budget(c)
    <2>1. n + 1 = failover[c].attempts /\ failover[c].attempts <= Budget(c)
        BY <1>1 DEF IInv, BudgetOK
    <2> QED BY <1>1, <1>2, <2>1, SameBudget, BudgetType
<1>5. Ahead(m, s, Placed(c), e) /\ NoRepeat(t)
    BY <1>1, <1>2, SendWalks DEF WalkOK
<1>6. /\ n = 0 \/ s[n].pause # None => SincePause(c)' = {n + 1}
      /\ n > 0 /\ s[n].pause = None => SincePause(c)' = SincePause(c) \cup {n + 1}
    BY <1>2, SendingSincePause
<1>7. n > 0 => s[n].endpoint \in 0 .. m - 1 /\ s[n].endpoint # None
    BY <1>2, <1>3, NoneAssumption
<1>8. n + 1 \in 1 .. n + 1 /\ (n > 0 => n \in 1 .. n)
    BY <1>2
<1>9. SUFFICES \/ /\ n = 0
                  /\ SincePause(c)' = {n + 1}
               \/ /\ n > 0 /\ s[n].pause # None /\ e = s[n].endpoint
                  /\ SincePause(c)' = {n + 1}
               \/ /\ n > 0 /\ s[n].pause # None /\ e = (s[n].endpoint + 1) % m
                  /\ SincePause(c)' = {n + 1}
                  /\ {s[i].endpoint : i \in SincePause(c)} = 0 .. m - 1
               \/ /\ n > 0 /\ s[n].pause = None /\ e = (s[n].endpoint + 1) % m
                  /\ e \notin {s[i].endpoint : i \in SincePause(c)}
                  /\ {t[i].endpoint : i \in SincePause(c)'}
                         = {s[i].endpoint : i \in SincePause(c)} \cup {e}
    <2>1. ASSUME n = 0, SincePause(c)' = {n + 1} PROVE Walk(c)!First
        BY <1>1, <1>2, <1>3, <1>4, <2>1 DEF Walk!First, Walk!Ask, Walk!Ring
    <2>2. ASSUME n > 0, s[n].pause # None, e = s[n].endpoint, SincePause(c)' = {n + 1}
          PROVE  Walk(c)!Again
        BY <1>1, <1>2, <1>3, <1>4, <2>2 DEF Walk!Again, Walk!Ask
    <2>3. ASSUME n > 0, s[n].pause # None, e = (s[n].endpoint + 1) % m,
                 SincePause(c)' = {n + 1},
                 {s[i].endpoint : i \in SincePause(c)} = 0 .. m - 1
          PROVE  Walk(c)!NextCycle
        BY <1>1, <1>2, <1>3, <1>4, <2>3
           DEF Walk!NextCycle, Walk!Ask, Walk!Ring, Walk!Onward
    <2>4. ASSUME n > 0, s[n].pause = None, e = (s[n].endpoint + 1) % m,
                 e \notin {s[i].endpoint : i \in SincePause(c)},
                 {t[i].endpoint : i \in SincePause(c)'}
                     = {s[i].endpoint : i \in SincePause(c)} \cup {e}
          PROVE  Walk(c)!GoOn
        <3>1. Walk(c)!Ask(e) /\ Walk(c)!Onward(s[n].endpoint) = e
            BY <1>1, <1>2, <1>4, <2>4 DEF Walk!Ask, Walk!Onward
        <3>2. s # << >> /\ t # << >>
            BY <1>2, <2>4
        <3>3. UNCHANGED (IF sent[c] = << >> THEN 0 ELSE Budget(c))
            BY <1>4, <3>2
        <3> HIDE DEF e
        <3> QED BY <1>2, <1>7, <2>4, <3>1, <3>2, <3>3 DEF Walk!GoOn
    <2> QED BY <2>1, <2>2, <2>3, <2>4 DEF Walk!Next
<1>10. CASE n = 0
    BY <1>6, <1>10
<1>11. CASE n > 0 /\ s[n].pause # None
    <2>1. \/ e = s[n].endpoint
          \/ e = Onto(m, s[n].endpoint, 1) /\ Lap(m, s, n - m + 1, n)
        BY <1>2, <1>5, <1>11 DEF Ahead
    <2>2. ASSUME e = Onto(m, s[n].endpoint, 1), Lap(m, s, n - m + 1, n)
          PROVE  /\ e = (s[n].endpoint + 1) % m
                 /\ {s[i].endpoint : i \in SincePause(c)} = 0 .. m - 1
        <3>1. SincePause(c) = n - m + 1 .. n
            BY <1>2, <2>2, LapIsSincePause
        <3>2. \A x : x \in 0 .. m - 1 <=> \E i \in n - m + 1 .. n : s[i].endpoint = x
            <4>1. /\ m \in Nat \ {0} /\ n \in Nat /\ Lap(m, s, n - m + 1, n)
                  /\ \A i \in 1 .. n : s[i].endpoint \in 0 .. m - 1
                BY <1>1, <1>2, <1>3, <2>2
            <4> HIDE DEF s, m, n, e
            <4> QED BY <4>1, LapAsksAll
        <3>3. {s[i].endpoint : i \in SincePause(c)} = 0 .. m - 1
            BY <3>1, <3>2
        <3> QED BY <1>1, <1>7, <1>11, <2>2, <3>3, OntoNext
    <2> QED BY <1>6, <1>11, <2>1, <2>2
<1>12. CASE n > 0 /\ s[n].pause = None
    <2> DEFINE a == n - Placed(c) + 1
    <2>1. e = Onto(m, s[n].endpoint, 1) /\ Lap(m, s, a, n)
        BY <1>2, <1>5, <1>12 DEF Ahead
    <2>2. SincePause(c) = a .. n
        <3> HIDE DEF a
        <3> QED BY <1>2, <2>1, LapIsSincePause
    <2>3. /\ \A k \in a .. n : t[k] = s[k] /\ t[k].pause = None
          /\ a \in 1 .. n
        <3> HIDE DEF a
        <3>1. a \in 1 .. n /\ \A k \in a .. n - 1 : s[k].pause = None
            BY <2>1 DEF Lap
        <3> QED BY <1>2, <1>12, <3>1
    <2>4. e \notin {s[i].endpoint : i \in a .. n}
        <3> SUFFICES ASSUME NEW i \in a .. n, s[i].endpoint = e PROVE FALSE
            OBVIOUS
        <3>1. t[i].endpoint = t[n + 1].endpoint /\ i \in DOMAIN t /\ n + 1 \in DOMAIN t /\ i < n + 1
            BY <1>2, <2>3
        <3>2. PICK k \in i .. (n + 1) - 1 : t[k].pause # None
            BY <1>5, <3>1 DEF NoRepeat
        <3>3. k \in a .. n
            BY <2>3
        <3> QED BY <2>3, <3>2, <3>3
    <2>5. {t[i].endpoint : i \in a .. n} = {s[i].endpoint : i \in a .. n}
        BY <2>3
    <2>6. SincePause(c)' = (a .. n) \cup {n + 1}
        BY <1>6, <1>12, <2>2
    <2> HIDE DEF a
    <2>7. {t[i].endpoint : i \in SincePause(c)'} = {s[i].endpoint : i \in a .. n} \cup {e}
        BY <2>5, <2>6
    <2>8. e = (s[n].endpoint + 1) % m
        BY <1>1, <1>7, <1>12, <2>1, OntoNext
    <2> QED BY <1>12, <2>2, <2>4, <2>7, <2>8
<1>13. n = 0 \/ n > 0
    BY <1>2
<1> QED BY <1>10, <1>11, <1>12, <1>13, Zenon

LEMMA EndsRefines ==
    ASSUME IInv, NEW c \in Calls, Ends(c)
    PROVE  UNCHANGED Walk(c)!wvars
<1>1. /\ inner' = inner /\ request' = request
      /\ sent \in [Calls -> Seq(Sends)] /\ sent[c] # << >>
    BY InFlightType DEF Ends
<1>2. PICK how, retryAfter : sent' = Ended(c, how, retryAfter)
    BY DEF Ends
<1> DEFINE n == Len(sent[c])
<1>3. /\ n \in Nat \ {0} /\ DOMAIN sent[c] = 1 .. n
      /\ DOMAIN sent'[c] = 1 .. n /\ Len(sent'[c]) = n /\ sent'[c] # << >>
      /\ \A i \in 1 .. n : /\ sent'[c][i].endpoint = sent[c][i].endpoint
                           /\ sent'[c][i].pause = sent[c][i].pause
    BY <1>1, <1>2, EndedEntries
<1> QED BY <1>1, <1>3, WalkStays

LEMMA DecideRefines ==
    ASSUME IInv, NEW c \in Calls, WalkOK(c), Decide(c)
    PROVE  Walk(c)!Next \/ UNCHANGED Walk(c)!wvars
<1> DEFINE n == Len(sent[c])
           s == sent[c]
           t == sent'[c]
<1>1. /\ inner' = inner /\ request' = request /\ s # << >> /\ s[n].pause = None
      /\ s \in Seq(Sends)
    BY DEF IInv, TypeOK, Decide, config, WalkOK, Under
<1>2. /\ n \in Nat \ {0} /\ DOMAIN s = 1 .. n
      /\ DOMAIN t = 1 .. n /\ Len(t) = n /\ t # << >>
      /\ \A i \in 1 .. n : /\ t[i].endpoint = s[i].endpoint
                           /\ i # n => t[i].pause = s[i].pause
    BY <1>1, DecidedEntries
<1>3. CASE t[n].pause = None
    <2>1. \A i \in 1 .. n : t[i].endpoint = s[i].endpoint /\ t[i].pause = s[i].pause
        BY <1>1, <1>2, <1>3
    <2> QED BY <1>1, <1>2, <2>1, WalkStays
<1>4. CASE t[n].pause # None
    <2>1. s[n].endpoint # None /\ n \in 1 .. n
        <3>1. s[n] \in Sends
            <4>1. sent[c] \in Seq(Sends) /\ Len(sent[c]) \in 1 .. Len(sent[c])
                BY <1>1, <1>2
            <4> QED BY <4>1, WireType
        <3>2. s[n].endpoint \in Endpoints
            <4> HIDE DEF s, n
            <4> QED BY <3>1 DEF Sends
        <3>3. s[n].endpoint \in Int
            BY <3>2, InnerType DEF IInv, TypeOK, Endpoints
        <3> QED BY <1>2, <3>3, NoneAssumption
    <2>2. \A i \in 1 .. n : \A k \in i .. n - 1 : t[k].pause = s[k].pause
        BY <1>2
    <2>3. SincePause(c)' = SincePause(c) /\ SincePause(c) \subseteq 1 .. n
        BY <1>2, <2>2 DEF SincePause
    <2>4. {sent[c][i].endpoint : i \in SincePause(c)}'
              = {sent[c][i].endpoint : i \in SincePause(c)}
        BY <1>2, <2>3
    <2>5. Budget(c)' = Budget(c)
        BY <1>1, SameBudget
    <2>6. Walk(c)!Rest
        BY <1>1, <1>2, <1>4, <2>1, <2>4, <2>5 DEF Walk!Rest
    <2> QED BY <2>6 DEF Walk!Next
<1> QED BY <1>3, <1>4

LEMMA QuietRefines ==
    ASSUME IInv, NEW c \in Calls, inner' = inner, sent'[c] = sent[c],
           sent[c] = << >> \/ request'[c] = request[c]
    PROVE  UNCHANGED Walk(c)!wvars
<1>1. /\ Len(sent[c]) \in Nat /\ DOMAIN sent[c] = 1 .. Len(sent[c])
      /\ sent[c] # << >> => Len(sent[c]) # 0
    BY EmptySeq, LenProperties DEF IInv, TypeOK
<1> QED BY <1>1, WalkStays

LEMMA NextRefines ==
    ASSUME IInv, RInv, WInv, [Next]_vars, NEW d \in Calls
    PROVE  Walk(d)!Next \/ UNCHANGED Walk(d)!wvars
<1>1. inner' = inner /\ WalkOK(d)
    BY InnerStands DEF WInv
<1>2. CASE Tick \/ Terminated \/ UNCHANGED vars
    BY <1>1, <1>2, QuietRefines DEF Tick, Terminated, vars, config, ghosts
<1>3. ASSUME NEW c \in Calls, Step(c), c # d PROVE UNCHANGED Walk(d)!wvars
    BY <1>1, <1>3, OthersStand, OthersRest, QuietRefines
<1>4. ASSUME Step(d) PROVE Walk(d)!Next \/ UNCHANGED Walk(d)!wvars
    <2>1. CASE Start(d)
        <3>1. sent'[d] = sent[d] /\ sent[d] = << >>
            BY <2>1 DEF IInv, BudgetOK, Start, ghosts
        <3> QED BY <1>1, <3>1, QuietRefines
    <2>2. CASE Send(d)
        BY <1>1, <2>2, SendRefines
    <2>3. CASE Ends(d)
        BY <2>3, EndsRefines
    <2>4. CASE Decide(d)
        BY <1>1, <2>4, DecideRefines
    <2>5. CASE Rolls(d)
        BY <1>1, <2>5, QuietRefines DEF Rolls
    <2> QED BY <1>4, <2>1, <2>2, <2>3, <2>4, <2>5, OnTheWire
<1> QED BY <1>2, <1>3, <1>4 DEF Next

\* Failover: a call goes round its set in order, at once while endpoints are
\* left that it has not asked, and pauses before it asks any of them again.
THEOREM CallsWalkTheSet == Spec => WalksTheSet
<1>1. Init => \A c \in Calls : Walk(c)!Init
    <2> SUFFICES ASSUME Init, NEW c \in Calls PROVE Walk(c)!Init
        OBVIOUS
    <2>1. inner.len \in Nat \ {0} /\ sent[c] = << >>
        BY InnerType DEF Init
    <2>2. Len(sent[c]) = 0
        BY <2>1, EmptySeq
    <2>3. SincePause(c) = {}
        BY <2>2 DEF SincePause
    <2> QED BY <2>1, <2>2, <2>3 DEF Walk!Init
<1>2. IInv /\ RInv /\ WInv /\ [Next]_vars =>
          [\A c \in Calls : [Walk(c)!Next]_(Walk(c)!wvars)]_vars
    BY NextRefines
<1> QED BY <1>1, <1>2, WInductive, PTL DEF Spec, WalksTheSet

-----------------------------------------------------------------------------
(***************************************************************************)
(* What each pause answers to: the cycle before it, or the attempt.        *)
(***************************************************************************)

-----------------------------------------------------------------------------
(* What Failover keeps of a cycle, and the pauses it counts, told from the *)
(* wire.                                                                   *)

\* x is the smallest Retry-After of attempts a to b, None once one had none.
Smallest(x, s, a, b) ==
    /\ (\E k \in a .. b : s[k].retry_after = None) => x = None
    /\ (\A k \in a .. b : s[k].retry_after # None) =>
           /\ \E k \in a .. b : s[k].retry_after = x
           /\ \A k \in a .. b : x <= s[k].retry_after

\* cycle holds that of attempts a to b, or nothing when there are none.
Gathered(cycle, s, a, b) ==
    IF a > b THEN cycle = << >>
    ELSE \E x \in RetryAfters \cup {None} : cycle = << x >> /\ Smallest(x, s, a, b)

Paused(s, n) == {k \in 1 .. n : s[k].pause # None}

LEMMA GatheredStays ==
    ASSUME NEW cycle, NEW s, NEW t, NEW a, NEW b, Gathered(cycle, s, a, b),
           \A k \in a .. b : t[k].retry_after = s[k].retry_after
    PROVE  Gathered(cycle, t, a, b)
    BY DEF Gathered, Smallest

\* One more rotation.
LEMMA GatheredMore ==
    ASSUME NEW f \in Failovers, NEW s, NEW a \in Int, NEW n \in Int, a <= n,
           Gathered(f.cycle, s, a, n - 1),
           \A k \in a .. n : s[k].retry_after \in RetryAfters \cup {None}
    PROVE  Smallest(CycleRetryAfter(f, s[n].retry_after), s, a, n)
<1> DEFINE came == s[n].retry_after
<1>1. n \in a .. n /\ came \in RetryAfters \cup {None}
    OBVIOUS
<1>2. \A k \in a .. n : k = n \/ k \in a .. n - 1
    OBVIOUS
<1>3. \A k \in a .. n : s[k].retry_after # None => s[k].retry_after \in Nat
    BY RetryAfterAssumption DEF Option, Duration
<1>4. CASE a = n
    <2>1. CycleRetryAfter(f, came) = came
        BY <1>4 DEF Gathered, CycleRetryAfter
    <2>2. \A k \in a .. n : k = n
        BY <1>4
    <2> QED BY <1>1, <1>3, <2>1, <2>2 DEF Smallest
<1>5. CASE a < n
    <2>1. ~(a > n - 1)
        BY <1>5
    <2>2. PICK x \in RetryAfters \cup {None} : f.cycle = << x >> /\ Smallest(x, s, a, n - 1)
        BY <2>1 DEF Gathered
    <2>3. f.cycle # << >> /\ f.cycle[1] = x
        BY <2>2
    <2>4. CASE x = None
        <3>1. PICK k \in a .. n - 1 : s[k].retry_after = None
            BY <2>2, <2>4 DEF Smallest
        <3>2. k \in a .. n /\ CycleRetryAfter(f, came) = None
            BY <2>3, <2>4, <3>1 DEF CycleRetryAfter
        <3> QED BY <3>1, <3>2 DEF Smallest
    <2>5. CASE came = None
        <3>1. CycleRetryAfter(f, came) = None
            BY <2>3, <2>5 DEF CycleRetryAfter
        <3> QED BY <1>1, <2>5, <3>1 DEF Smallest
    <2>6. CASE x # None /\ came # None
        <3>1. \A k \in a .. n - 1 : s[k].retry_after # None
            BY <2>2, <2>6 DEF Smallest
        <3>2. PICK k \in a .. n - 1 : s[k].retry_after = x
            BY <2>2, <3>1 DEF Smallest
        <3>3. \A j \in a .. n - 1 : x <= s[j].retry_after
            BY <2>2, <3>1 DEF Smallest
        <3>4. CycleRetryAfter(f, came) = Least(x, came)
            BY <2>3, <2>6 DEF CycleRetryAfter
        <3>5. k \in a .. n /\ x \in Nat /\ came \in Nat
            BY <1>1, <1>3, <2>6, <3>2
        <3>6. \A j \in a .. n : s[j].retry_after # None /\ s[j].retry_after \in Nat
            BY <1>2, <1>3, <2>6, <3>1
        <3> DEFINE y == Least(x, came)
        <3>7. y <= x /\ y <= came /\ (y = x \/ y = came) /\ y \in Nat
            BY <3>5 DEF Least
        <3> HIDE DEF y
        <3>8. \A j \in a .. n : y <= s[j].retry_after
            BY <1>2, <3>3, <3>5, <3>6, <3>7
        <3>9. \E j \in a .. n : s[j].retry_after = y
            BY <1>1, <3>2, <3>5, <3>7
        <3> QED BY <3>4, <3>6, <3>8, <3>9 DEF Smallest, y
    <2> QED BY <2>4, <2>5, <2>6
<1> QED BY <1>4, <1>5

LEMMA PausedCount ==
    ASSUME NEW s, NEW n \in Nat
    PROVE  /\ IsFiniteSet(Paused(s, n))
           /\ Cardinality(Paused(s, n)) \in Nat
           /\ Cardinality(Paused(s, n)) <= n
<1>1. IsFiniteSet(1 .. n) /\ Cardinality(1 .. n) = n
    BY FS_Interval
<1>2. Paused(s, n) \in SUBSET (1 .. n)
    BY DEF Paused
<1> QED BY <1>1, <1>2, FS_Subset, FS_CardinalityType

\* The latest attempt is followed by a pause, or is not.
LEMMA PausedMore ==
    ASSUME NEW n \in Nat \ {0}, NEW s, s[n].pause = None,
           NEW t, \A i \in 1 .. n : i # n => t[i].pause = s[i].pause
    PROVE  /\ Cardinality(Paused(s, n)) \in Nat
           /\ Cardinality(Paused(s, n)) < n
           /\ Cardinality(Paused(t, n)) = IF t[n].pause = None THEN Cardinality(Paused(s, n))
                                          ELSE Cardinality(Paused(s, n)) + 1
<1>1. Paused(s, n) = Paused(s, n - 1)
    BY DEF Paused
<1>2. Paused(t, n) = IF t[n].pause = None THEN Paused(s, n) ELSE Paused(s, n) \cup {n}
    BY DEF Paused
<1>3. /\ IsFiniteSet(Paused(s, n)) /\ Cardinality(Paused(s, n)) \in Nat
      /\ Cardinality(Paused(s, n)) <= n - 1
    BY <1>1, PausedCount
<1>4. n \notin Paused(s, n)
    BY DEF Paused
<1>5. Cardinality(Paused(s, n) \cup {n}) = Cardinality(Paused(s, n)) + 1
    BY <1>3, <1>4, FS_AddElement
<1> QED BY <1>2, <1>3, <1>5

-----------------------------------------------------------------------------
(* What a pause answers to, apart from the state.                          *)

AnswersTo(policy, asked, number, pause) ==
    LET ceiling == BackoffDelay(policy, number)
        floor   == FromMillis(DurationMs(policy.base_delay))
    IN  IF None \in asked
        THEN /\ pause <= ceiling
             /\ pause >= Least(floor, ceiling)
             /\ policy.jitter = "None" => pause = ceiling
        ELSE pause \in asked /\ \A d \in asked : pause <= d

\* What Rests says of a pause is what it answers to.
LEMMA RestsAnswers ==
    ASSUME NEW policy \in Policies, NEW number \in Nat, NEW draw \in Draws,
           NEW remaining \in Option(Duration), NEW asked, NEW x, NEW pause,
           None \in asked => x = None,
           None \notin asked => x \in asked /\ \A d \in asked : x <= d,
           pause # None,
           pause = IF x # None THEN x ELSE Pause(policy, number, draw, remaining)
    PROVE  AnswersTo(policy, asked, number, pause)
<1>1. CASE None \in asked
    <2> DEFINE base    == DurationMs(policy.base_delay)
               ceiling == CeilingMs(policy, number)
    <2>1. pause = Pause(policy, number, draw, remaining)
        BY <1>1
    <2>2. /\ pause \in Nat /\ FromMillis(Least(base, ceiling)) <= pause
          /\ pause <= BackoffDelay(policy, number)
          /\ policy.jitter = "None" => pause = BackoffDelay(policy, number)
        BY <2>1, PauseWithinBounds DEF Duration
    <2>3. base \in Nat /\ ceiling \in Nat
        BY CeilingType, DurationMsType DEF Policies
    <2>4. BackoffDelay(policy, number) = FromMillis(ceiling)
        BY DEF BackoffDelay
    <2> HIDE DEF base, ceiling
    <2>5. Least(base, ceiling) \in {base, ceiling}
        BY DEF Least
    <2>6. FromMillis(base) \in Nat /\ FromMillis(ceiling) \in Nat
        BY <2>3, TicksAssumption DEF FromMillis
    <2>7. Least(FromMillis(base), FromMillis(ceiling)) <= pause
        BY <2>2, <2>5, <2>6 DEF Least
    <2> QED BY <1>1, <2>2, <2>4, <2>6, <2>7 DEF AnswersTo, base, Least
<1>2. CASE None \notin asked
    BY <1>2 DEF AnswersTo
<1> QED BY <1>1, <1>2

-----------------------------------------------------------------------------
(* The invariant of the pauses.                                            *)

\* Failover's count of pauses and its cycle are what the wire says.
CountOK(c) ==
    LET n == Len(sent[c])
    IN  /\ pc[c] \in {"begin", "send", "inflight", "body", "after", "sleeping"} =>
               failover[c].pauses = Cardinality(Paused(sent[c], n))
        /\ pc[c] \in {"begin", "send", "sleeping"} =>
               Gathered(failover[c].cycle, sent[c], n - Placed(c) + 1, n)
        /\ pc[c] \in {"inflight", "body", "after"} =>
               Gathered(failover[c].cycle, sent[c], n - Placed(c), n - 1)

\* What Failover is told of the latest attempt is what the wire says of it.
ToldOK(c) ==
    pc[c] \in {"body", "after"} /\ outcome[c].kind # "Final" =>
        LET latest == sent[c][Len(sent[c])]
        IN  /\ outcome[c].retry_after = latest.retry_after
            /\ IsRotation(outcome[c]) <=>
                   latest.outcome \in request[c].retry_on \cup {"connect", "timeout"}

\* Every pause answers to its cycle, all of which was sent.
PastOK(c) ==
    \A i \in DOMAIN sent[c] :
        sent[c][i].pause # None => Cycle(c, i) \subseteq 1 .. i /\ PauseAnswers(c, i)

PauseOK(c) == CountOK(c) /\ ToldOK(c) /\ PastOK(c)

LInv == \A c \in Calls : PauseOK(c)

\* A pause that was taken answers to what was sent up to it.
LEMMA PastStands ==
    ASSUME NEW c \in Calls, inner' = inner, request'[c] = request[c],
           NEW i \in Nat \ {0}, Cycle(c, i) \subseteq 1 .. i, PauseAnswers(c, i),
           \A k \in 1 .. i : /\ sent'[c][k].outcome = sent[c][k].outcome
                             /\ sent'[c][k].retry_after = sent[c][k].retry_after
                             /\ sent'[c][k].pause = sent[c][k].pause
    PROVE  Cycle(c, i)' \subseteq 1 .. i /\ PauseAnswers(c, i)'
<1>1. i \in 1 .. i
    OBVIOUS
<1>2. Cycle(c, i)' = Cycle(c, i)
    BY <1>1 DEF Cycle
<1>3. {sent[c][k].retry_after : k \in Cycle(c, i)}' = {sent[c][k].retry_after : k \in Cycle(c, i)}
    BY <1>2
<1>4. {k \in 1 .. i : sent[c][k].pause # None}' = {k \in 1 .. i : sent[c][k].pause # None}
    OBVIOUS
<1>5. sent'[c][i].pause = sent[c][i].pause
    BY <1>1
<1> QED BY <1>2, <1>3, <1>4, <1>5 DEF PauseAnswers

LEMMA StartPauses ==
    ASSUME IInv, NEW c \in Calls, Start(c)
    PROVE  PauseOK(c)'
<1>1. inner \in Clients /\ inner.len \in Nat \ {0}
    BY InnerType DEF IInv, TypeOK
<1>2. /\ inner' = inner /\ sent' = sent /\ pc'[c] = "begin" /\ sent[c] = << >>
      /\ failover'[c].streak = 0 /\ failover'[c].pauses = 0 /\ failover'[c].cycle = << >>
    BY DEF IInv, TypeOK, BudgetOK, Start, ghosts, New
<1>3. Placed(c)' = 0
    BY <1>1, <1>2 DEF Placed
<1>4. /\ sent'[c] = << >> /\ Len(sent'[c]) = 0 /\ DOMAIN sent'[c] = {}
      /\ Paused(sent'[c], 0) = {} /\ Cardinality(Paused(sent'[c], 0)) = 0
    BY <1>2, EmptySeq, FS_EmptySet DEF Paused
<1>5. Gathered(<< >>, sent'[c], 1, 0)
    BY DEF Gathered
<1> QED BY <1>2, <1>3, <1>4, <1>5 DEF PauseOK, CountOK, ToldOK, PastOK

LEMMA SendPauses ==
    ASSUME IInv, RInv, NEW c \in Calls, WalkOK(c), PauseOK(c), Send(c)
    PROVE  PauseOK(c)'
<1> DEFINE n == Len(sent[c])
           s == sent[c]
           t == sent'[c]
<1>1. /\ inner \in Clients /\ inner.len \in Nat \ {0} /\ inner' = inner
      /\ request' = request /\ failover' = failover /\ failover[c] \in Failovers
      /\ pc[c] = "send" /\ pc'[c] = "inflight"
    BY InnerType DEF IInv, TypeOK, CallOK, Send, config
<1>2. /\ n \in Nat /\ DOMAIN s = 1 .. n
      /\ DOMAIN t = 1 .. n + 1 /\ Len(t) = n + 1
      /\ \A i \in 1 .. n : t[i] = s[i]
      /\ t[n + 1].pause = None
    BY SendingEntries
<1>3. Placed(c) \in 0 .. inner.len - 1 /\ Placed(c)' = Placed(c)
    BY <1>1, PlacedType DEF Placed
<1>4. CountOK(c)'
    <2>1. Gathered(failover[c].cycle, t, n - Placed(c) + 1, n)
        <3>1. Gathered(failover[c].cycle, s, n - Placed(c) + 1, n)
            BY <1>1 DEF PauseOK, CountOK
        <3>2. \A k \in n - Placed(c) + 1 .. n : k \in 1 .. n
            <4>1. Placed(c) = 0 \/ Lap(inner.len, s, n - Placed(c) + 1, n)
                BY <1>1 DEF WalkOK, Ahead
            <4>2. Placed(c) = 0 \/ n - Placed(c) + 1 >= 1
                BY <4>1 DEF Lap
            <4> QED BY <1>2, <1>3, <4>2
        <3>3. \A k \in n - Placed(c) + 1 .. n : t[k].retry_after = s[k].retry_after
            BY <1>2, <3>2
        <3> QED BY <3>1, <3>3, GatheredStays
    <2>2. Cardinality(Paused(t, n + 1)) = Cardinality(Paused(s, n))
        <3>1. Paused(t, n + 1) = Paused(s, n)
            BY <1>2 DEF Paused
        <3> QED BY <3>1
    <2>3. (n + 1) - Placed(c) = n - Placed(c) + 1 /\ (n + 1) - 1 = n
        BY <1>2, <1>3
    <2>4. failover[c].pauses = Cardinality(Paused(s, n))
        BY <1>1 DEF PauseOK, CountOK
    <2> HIDE DEF n
    <2> QED BY <1>1, <1>2, <1>3, <2>1, <2>2, <2>3, <2>4 DEF CountOK
<1>5. ToldOK(c)'
    BY <1>1 DEF ToldOK
<1>6. PastOK(c)'
    <2> SUFFICES ASSUME NEW i \in 1 .. n + 1, t[i].pause # None
                 PROVE  Cycle(c, i)' \subseteq 1 .. i /\ PauseAnswers(c, i)'
        BY <1>2 DEF PastOK
    <2>1. i \in 1 .. n /\ s[i].pause # None /\ i \in Nat \ {0}
        BY <1>2
    <2>2. Cycle(c, i) \subseteq 1 .. i /\ PauseAnswers(c, i)
        BY <1>2, <2>1 DEF PauseOK, PastOK
    <2>3. \A k \in 1 .. i : t[k] = s[k]
        BY <1>2, <2>1
    <2> QED BY <1>1, <2>1, <2>2, <2>3, PastStands
<1> QED BY <1>4, <1>5, <1>6 DEF PauseOK

\* An attempt ends with an answer that Failover is told of, or with the call.
LEMMA EndsTold ==
    ASSUME IInv, NEW c \in Calls, Step(c), Ends(c)
    PROVE  ToldOK(c)'
<1> USE DEF config
<1>1. /\ sent \in [Calls -> Seq(Sends)] /\ sent[c] # << >>
      /\ outcome \in [Calls -> Option(Outcomes)] /\ pc \in [Calls -> PcStates]
    BY InFlightType DEF IInv, TypeOK, Ends
<1>2. ASSUME NEW how, NEW retryAfter, sent' = Ended(c, how, retryAfter)
      PROVE  LET latest == sent'[c][Len(sent'[c])]
             IN  latest.outcome = how /\ latest.retry_after = retryAfter
    BY <1>1, <1>2, EndedEntries
<1>3. CASE Answer(c)
    <2>1. PICK status \in Statuses, retryAfter \in RetryAfters :
              LET how == OfStatus(status, retryAfter, status \in request[c].accept,
                                  request[c].retry_on)
              IN  outcome'[c] = how /\ sent' = Ended(c, status, retryAfter)
        BY <1>1, <1>3 DEF Answer
    <2>2. status \notin {"connect", "timeout"}
        BY StatusAssumption
    <2>3. request' = request
        BY <1>3 DEF Answer
    <2> QED BY <1>2, <2>1, <2>2, <2>3
            DEF ToldOK, OfStatus, Rotation, InPlace, Final, IsRotation
<1>4. ASSUME NEW connect, NEW timeout, Fail(c, connect, timeout)
      PROVE  ToldOK(c)'
    <2> DEFINE how == IF connect THEN "connect" ELSE IF timeout THEN "timeout" ELSE "io"
    <2>1. outcome'[c] = OfTransport(connect, timeout) /\ sent' = Ended(c, how, None)
        BY <1>1, <1>4 DEF Fail
    <2>2. LET latest == sent'[c][Len(sent'[c])]
          IN  latest.outcome = how /\ latest.retry_after = None
        <3> HIDE DEF how
        <3> QED BY <1>2, <2>1
    <2> QED BY <2>1, <2>2 DEF ToldOK, OfTransport, Rotation, Final, IsRotation
<1>5. CASE pc'[c] = "done"
    BY <1>5 DEF ToldOK
<1>6. pc[c] = "inflight"
    BY DEF Ends
<1>7. CASE Succeed(c) \/ RefuseRedirect(c)
    BY <1>1, <1>5, <1>7 DEF Succeed, RefuseRedirect
<1> QED BY <1>3, <1>4, <1>6, <1>7
        DEF Step, Run, Start, Begin, BeginTooLate, Send, Decide, Wake, Drop, BodyRead,
            Disconnect, Expire, OwnTimeout, Ends, IInv, TypeOK

LEMMA EndsPauses ==
    ASSUME IInv, NEW c \in Calls, WalkOK(c), PauseOK(c), Step(c), Ends(c)
    PROVE  PauseOK(c)'
<1> DEFINE n == Len(sent[c])
           s == sent[c]
           t == sent'[c]
<1>1. /\ inner' = inner /\ request' = request /\ failover' = failover
      /\ pc[c] = "inflight" /\ pc'[c] \in {"body", "after", "done"}
      /\ failover[c] \in Failovers /\ inner \in Clients
      /\ Placed(c)' = Placed(c)
    BY InFlightType DEF Ends, Placed
<1>2. PICK how, retryAfter : sent' = Ended(c, how, retryAfter)
    BY DEF Ends
<1>3. /\ n \in Nat \ {0} /\ DOMAIN s = 1 .. n
      /\ DOMAIN t = 1 .. n /\ Len(t) = n
      /\ \A i \in 1 .. n : /\ i # n => t[i] = s[i]
                           /\ t[i].pause = s[i].pause
    BY <1>1, <1>2, InFlightType, EndedEntries
<1>4. Placed(c) \in Nat
    BY <1>1, PlacedType, InnerType
<1>5. Lap(inner.len, s, n - Placed(c), n) /\ s[n].pause = None
    BY <1>1 DEF WalkOK, Under
<1>6. CountOK(c)'
    <2>1. Gathered(failover[c].cycle, t, n - Placed(c), n - 1)
        <3>1. Gathered(failover[c].cycle, s, n - Placed(c), n - 1)
            BY <1>1 DEF PauseOK, CountOK
        <3>2. n - Placed(c) \in 1 .. n
            BY <1>5 DEF Lap
        <3>3. \A k \in n - Placed(c) .. n - 1 : k \in 1 .. n /\ k # n
            BY <1>3, <1>4, <3>2
        <3>4. \A k \in n - Placed(c) .. n - 1 : t[k].retry_after = s[k].retry_after
            BY <1>3, <3>3
        <3> QED BY <3>1, <3>4, GatheredStays
    <2>2. Paused(t, n) = Paused(s, n)
        BY <1>3 DEF Paused
    <2>3. failover[c].pauses = Cardinality(Paused(s, n))
        BY <1>1 DEF PauseOK, CountOK
    <2> HIDE DEF n
    <2> QED BY <1>1, <1>3, <2>1, <2>2, <2>3 DEF CountOK
<1>7. ToldOK(c)'
    BY EndsTold
<1>8. PastOK(c)'
    <2> SUFFICES ASSUME NEW i \in 1 .. n, t[i].pause # None
                 PROVE  Cycle(c, i)' \subseteq 1 .. i /\ PauseAnswers(c, i)'
        BY <1>3 DEF PastOK
    <2>1. i # n /\ s[i].pause # None /\ i \in Nat \ {0}
        BY <1>3, <1>5
    <2>2. Cycle(c, i) \subseteq 1 .. i /\ PauseAnswers(c, i)
        BY <1>3, <2>1 DEF PauseOK, PastOK
    <2>3. \A k \in 1 .. i : k \in 1 .. n /\ k # n
        BY <1>3, <2>1
    <2>4. \A k \in 1 .. i : t[k] = s[k]
        BY <1>3, <2>3
    <2> QED BY <1>1, <2>1, <2>2, <2>4, PastStands
<1> QED BY <1>6, <1>7, <1>8 DEF PauseOK

LEMMA RollsPauses ==
    ASSUME IInv, NEW c \in Calls, PauseOK(c), Step(c), Rolls(c)
    PROVE  PauseOK(c)'
<1> USE DEF config
<1>1. /\ failover'[c].streak = failover[c].streak /\ failover'[c].cycle = failover[c].cycle
      /\ failover'[c].pauses = failover[c].pauses
    <2>1. failover[c] \in Failovers
        BY DEF IInv, CallOK, Rolls
    <2> QED BY <2>1, BegunWalk DEF Rolls
<1>2. inner' = inner /\ request' = request /\ sent' = sent /\ Placed(c)' = Placed(c)
    BY <1>1 DEF Rolls, Placed
<1>3. CountOK(c)'
    BY <1>1, <1>2 DEF PauseOK, CountOK, Rolls
<1>4. ToldOK(c)'
    <2>1. CASE pc'[c] \in {"body", "after"}
        <3>1. pc[c] = "body" /\ pc'[c] = "after"
            BY <2>1 DEF Rolls
        <3>2. outcome' = outcome
            BY <3>1 DEF Step, Run, Start, Begin, BeginTooLate, Send, Succeed, Answer, BodyRead,
                        Disconnect, Expire, OwnTimeout, Fail, RefuseRedirect, Decide, Wake, Drop
        <3> QED BY <1>2, <3>1, <3>2 DEF PauseOK, ToldOK
    <2>2. CASE pc'[c] \notin {"body", "after"}
        BY <2>2 DEF ToldOK
    <2> QED BY <2>1, <2>2
<1>5. PastOK(c)'
    <2> SUFFICES ASSUME NEW i \in DOMAIN sent[c], sent[c][i].pause # None
                 PROVE  Cycle(c, i)' \subseteq 1 .. i /\ PauseAnswers(c, i)'
        BY <1>2 DEF PastOK
    <2>1. i \in Nat \ {0}
        BY LenProperties DEF IInv, TypeOK
    <2>2. Cycle(c, i) \subseteq 1 .. i /\ PauseAnswers(c, i)
        BY DEF PauseOK, PastOK
    <2> QED BY <1>2, <2>1, <2>2, PastStands
<1> QED BY <1>3, <1>4, <1>5 DEF PauseOK

\* The decision after an attempt: a pause that it takes answers to the lap
\* that the attempt ends, or to the attempt alone.
LEMMA DecidePauses ==
    ASSUME IInv, RInv, NEW c \in Calls, WalkOK(c), PauseOK(c), Decide(c)
    PROVE  PauseOK(c)'
<1> DEFINE n     == Len(sent[c])
           s     == sent[c]
           t     == sent'[c]
           f     == failover[c]
           m     == inner.len
           place == Placed(c)
           came  == s[n].retry_after
           count == Cardinality(Paused(s, n))
<1>1. /\ inner \in Clients /\ m \in Nat \ {0} /\ inner' = inner /\ request' = request
      /\ f \in Failovers /\ outcome[c] \in Outcomes
      /\ left[c] \in Option(Duration) /\ PolicyOf(c) \in Option(Policies)
      /\ place \in 0 .. m - 1 /\ pc[c] = "after" /\ s \in Seq(Sends)
    <2>1. inner \in Clients /\ f \in Failovers /\ outcome[c] \in Outcomes
        BY DEF IInv, TypeOK, CallOK, Decide
    <2> QED BY <2>1, InnerType, BudgetType, PlacedType DEF IInv, TypeOK, Decide, config
<1>2. Lap(m, s, n - place, n) /\ s[n].pause = None /\ n - place \in 1 .. n
    BY <1>1 DEF WalkOK, Under, Lap
<1>3. PICK draw \in Draws :
          LET step == After(f, outcome[c], PolicyOf(c), draw, left[c])
          IN  /\ failover'[c] = step.failover
              /\ n \in Nat \ {0} /\ DOMAIN s = 1 .. n
              /\ DOMAIN t = 1 .. n /\ Len(t) = n
              /\ \A i \in 1 .. n : /\ t[i].endpoint = s[i].endpoint
                                   /\ t[i].outcome = s[i].outcome
                                   /\ t[i].retry_after = s[i].retry_after
                                   /\ i # n => t[i].pause = s[i].pause
              /\ \/ /\ step.stop # None
                    /\ pc'[c] = "done"
                    /\ sent' = sent
                 \/ /\ step.stop = None
                    /\ pc'[c] \in {"begin", "sleeping"}
                    /\ t[n].pause = step.pause
    BY <1>2, DecidedEntries
<1> DEFINE step == After(f, outcome[c], PolicyOf(c), draw, left[c])
<1>4. \A k \in 1 .. n : s[k].retry_after \in RetryAfters \cup {None}
    <2>1. \A k \in 1 .. n : s[k] \in Sends
        BY <1>1, WireType
    <2> QED BY <2>1 DEF Sends
<1>5. /\ count \in Nat /\ count < n /\ f.pauses = count
      /\ Cardinality(Paused(t, n)) = IF t[n].pause = None THEN count ELSE count + 1
    <2>1. f.pauses = count
        BY <1>1 DEF PauseOK, CountOK
    <2>2. \A i \in 1 .. n : i # n => t[i].pause = s[i].pause
        BY <1>3
    <2>3. n \in Nat \ {0}
        BY <1>3
    <2> HIDE DEF s, t, n
    <2> QED BY <1>2, <2>1, <2>2, <2>3, PausedMore
<1>6. ToldOK(c)'
    BY <1>3 DEF ToldOK
<1>7. ASSUME NEW i \in 1 .. n, i # n, t[i].pause # None
      PROVE  Cycle(c, i)' \subseteq 1 .. i /\ PauseAnswers(c, i)'
    <2>1. s[i].pause # None /\ i \in Nat \ {0}
        BY <1>3, <1>7
    <2>2. Cycle(c, i) \subseteq 1 .. i /\ PauseAnswers(c, i)
        BY <1>3, <2>1 DEF PauseOK, PastOK
    <2>3. \A k \in 1 .. i : k \in 1 .. n /\ k # n
        BY <1>3, <1>7
    <2>4. \A k \in 1 .. i : /\ t[k].outcome = s[k].outcome
                            /\ t[k].retry_after = s[k].retry_after
                            /\ t[k].pause = s[k].pause
        BY <1>3, <2>3
    <2> QED BY <1>1, <2>1, <2>2, <2>4, PastStands
<1>8. CASE step.stop # None
    <2>1. pc'[c] = "done" /\ t = s
        BY <1>3, <1>8 DEF step
    <2>2. t[n].pause = None
        BY <1>2, <2>1
    <2>3. PastOK(c)'
        BY <1>3, <1>7, <2>2 DEF PastOK
    <2> QED BY <1>6, <2>1, <2>3 DEF PauseOK, CountOK
<1>9. CASE step.stop = None
    <2> DEFINE smallest == CycleRetryAfter(f, came)
    <2>1. /\ pc'[c] \in {"begin", "sleeping"}
          /\ failover'[c] = step.failover /\ t[n].pause = step.pause
        BY <1>3, <1>9 DEF step
    <2>2. /\ outcome[c].kind # "Final"
          /\ IF m > 1 /\ IsRotation(outcome[c])
             THEN Rotated(step, f, PolicyOf(c), outcome[c].retry_after, draw, left[c])
             ELSE Retried(step, f, PolicyOf(c), outcome[c].retry_after, draw, left[c])
          /\ PolicyOf(c) # None /\ ShouldRetry(PolicyOf(c), f.attempts)
        <3> HIDE DEF f
        <3> QED BY <1>1, <1>9, AfterWalk, AfterType
    <2> HIDE DEF step
    <2>3. /\ outcome[c].retry_after = came
          /\ IsRotation(outcome[c]) <=>
                 s[n].outcome \in request[c].retry_on \cup {"connect", "timeout"}
        BY <1>1, <2>2 DEF PauseOK, ToldOK
    <2>4. PolicyOf(c) = inner.retry /\ inner.retry # None /\ inner.retry \in Policies
        BY <1>1, <2>2 DEF PolicyOf, Option
    <2>5. SaturatingInc(f.pauses) = count + 1 /\ count + 1 \in Nat
        <3>1. n = f.attempts /\ f.attempts \in Nat
            BY <1>1 DEF IInv, BudgetOK, Failovers
        <3>2. inner.retry.max_attempts \in Nat /\ inner.retry.max_attempts <= MaxCount
            BY <1>1, <2>4, InnerType DEF Policies
        <3>3. n < Greatest(inner.retry.max_attempts, 1)
            BY <2>2, <2>4, <3>1 DEF ShouldRetry
        <3>4. count < MaxCount
            <4> HIDE DEF n, count
            <4> QED BY <1>3, <1>5, <3>2, <3>3, MaxCountAssumption DEF Greatest, n
        <3> HIDE DEF count
        <3> QED BY <1>5, <3>4, SaturatingIncType
    <2>6. Cycle(c, n)' = IF m > 1 /\ IsRotation(outcome[c]) THEN n - m + 1 .. n ELSE {n}
        BY <1>1, <1>3, <2>3 DEF Cycle
    <2>7. ASSUME NEW x, NEW a \in 1 .. n, Cycle(c, n)' = a .. n, Smallest(x, s, a, n),
                 Rests(step, f, inner.retry, x, draw, left[c])
          PROVE  Cycle(c, n)' \subseteq 1 .. n /\ PauseAnswers(c, n)'
        <3> DEFINE asked == {t[k].retry_after : k \in a .. n}
        <3>1. \A k \in a .. n : k \in 1 .. n /\ t[k].retry_after = s[k].retry_after
            BY <1>3
        <3>2. None \in asked => x = None
            BY <2>7, <3>1 DEF Smallest
        <3>3. None \notin asked => x \in asked /\ \A d \in asked : x <= d
            BY <2>7, <3>1 DEF Smallest
        <3>4. /\ t[n].pause # None
              /\ t[n].pause = IF x # None THEN x
                              ELSE Pause(inner.retry, count + 1, draw, left[c])
            <4> HIDE DEF count
            <4> QED BY <2>1, <2>5, <2>7 DEF Rests
        <3>5. AnswersTo(inner.retry, asked, count + 1, t[n].pause)
            <4> HIDE DEF asked, count, t
            <4> QED BY <1>1, <2>4, <2>5, <3>2, <3>3, <3>4, RestsAnswers
        <3>6. Cardinality({k \in 1 .. n : t[k].pause # None}) = count + 1
            BY <1>5, <3>4 DEF Paused
        <3>7. {sent'[c][k].retry_after : k \in Cycle(c, n)'} = asked
            BY <2>7
        <3>8. PauseAnswers(c, n)'
            <4>1. n' = n
                BY <1>3
            <4> HIDE DEF asked, count, n
            <4> QED BY <1>1, <3>5, <3>6, <3>7, <4>1 DEF PauseAnswers, AnswersTo
        <3>9. a .. n \subseteq 1 .. n
            BY <3>1
        <3> QED BY <2>7, <3>8, <3>9
    <2>8. CASE m > 1 /\ IsRotation(outcome[c])
        <3>1. Smallest(smallest, s, n - place, n)
            <4>1. Gathered(f.cycle, s, n - place, n - 1)
                BY <1>1 DEF PauseOK, CountOK
            <4>2. \A k \in n - place .. n : s[k].retry_after \in RetryAfters \cup {None}
                BY <1>2, <1>3, <1>4
            <4>3. n \in Int /\ n - place \in Int /\ n - place <= n
                BY <1>1, <1>3
            <4> HIDE DEF f, s, n, place
            <4> QED BY <1>1, <4>1, <4>2, <4>3, GatheredMore
        <3>2. smallest \in RetryAfters \cup {None}
            BY <1>1, <1>3, <1>4, CycleRetryAfterType
        <3>3. /\ EndsCycle(f) <=> place + 1 = m
              /\ (f.streak + 1) % m = IF EndsCycle(f) THEN 0 ELSE place + 1
            BY <1>1, CycleEnds
        <3>4. /\ step.failover.streak = f.streak + 1
              /\ IF EndsCycle(f)
                 THEN step.failover.cycle = << >>
                      /\ Rests(step, f, inner.retry, smallest, draw, left[c])
                 ELSE /\ step.failover.cycle = << smallest >>
                      /\ step.failover.pauses = f.pauses /\ step.pause = None
            BY <2>2, <2>3, <2>4, <2>8 DEF Rotated
        <3>5. Placed(c)' = IF EndsCycle(f) THEN 0 ELSE place + 1
            BY <1>1, <2>1, <3>3, <3>4 DEF Placed
        <3> HIDE DEF smallest
        <3>6. CASE EndsCycle(f)
            <4>1. n - place = n - m + 1
                BY <1>1, <1>3, <3>3, <3>6
            <4>2. Cycle(c, n)' \subseteq 1 .. n /\ PauseAnswers(c, n)'
                <5>1. Cycle(c, n)' = n - place .. n
                    BY <2>6, <2>8, <4>1
                <5> HIDE DEF n, s, place, f
                <5> QED BY <1>2, <2>7, <3>1, <3>4, <3>6, <5>1
            <4>3. t[n].pause # None /\ step.failover.pauses = count + 1
                BY <2>1, <2>5, <3>4, <3>6 DEF Rests
            <4>4. Gathered(<< >>, t, n + 1, n)
                BY <1>3 DEF Gathered
            <4>5. n - Placed(c)' + 1 = n + 1
                BY <1>3, <3>5, <3>6
            <4>6. CountOK(c)'
                <5> HIDE DEF n, count
                <5> QED BY <1>3, <1>5, <2>1, <3>4, <3>6, <4>3, <4>4, <4>5 DEF CountOK
            <4>7. PastOK(c)'
                BY <1>3, <1>7, <4>2 DEF PastOK
            <4> QED BY <1>6, <4>6, <4>7 DEF PauseOK
        <3>7. CASE ~EndsCycle(f)
            <4>1. t[n].pause = None /\ step.failover.pauses = count
                BY <1>5, <2>1, <3>4, <3>7
            <4>2. n - Placed(c)' + 1 = n - place /\ ~(n - place > n)
                BY <1>1, <1>3, <3>5, <3>7
            <4>3. Gathered(<< smallest >>, s, n - place, n)
                <5> HIDE DEF n, s, place
                <5> QED BY <3>1, <3>2, <4>2 DEF Gathered
            <4>4. Gathered(<< smallest >>, t, n - place, n)
                <5>1. \A k \in n - place .. n : t[k].retry_after = s[k].retry_after
                    BY <1>2, <1>3
                <5> QED BY <4>3, <5>1, GatheredStays
            <4>5. CountOK(c)'
                <5> HIDE DEF n, count, place
                <5> QED BY <1>3, <1>5, <2>1, <3>4, <3>7, <4>1, <4>2, <4>4 DEF CountOK
            <4>6. PastOK(c)'
                BY <1>3, <1>7, <4>1 DEF PastOK
            <4> QED BY <1>6, <4>5, <4>6 DEF PauseOK
        <3> QED BY <3>6, <3>7
    <2>9. CASE ~(m > 1 /\ IsRotation(outcome[c]))
        <3>1. /\ step.failover.streak = 0 /\ step.failover.cycle = << >>
              /\ Rests(step, f, inner.retry, came, draw, left[c])
            BY <2>2, <2>3, <2>4, <2>9 DEF Retried
        <3>2. Smallest(came, s, n, n)
            <4>1. n \in n .. n /\ \A k \in n .. n : s[k].retry_after = came
                BY <1>3
            <4>2. came \in RetryAfters \cup {None}
                BY <1>3, <1>4
            <4> HIDE DEF n, s, came
            <4>3. came # None => came <= came
                BY <4>2, RetryAfterAssumption DEF Option, Duration
            <4> QED BY <4>1, <4>3 DEF Smallest
        <3>3. Cycle(c, n)' \subseteq 1 .. n /\ PauseAnswers(c, n)'
            <4>1. Cycle(c, n)' = n .. n /\ n \in 1 .. n
                BY <1>3, <2>6, <2>9
            <4> HIDE DEF n, s, f
            <4> QED BY <2>7, <3>1, <3>2, <4>1
        <3>4. t[n].pause # None /\ step.failover.pauses = count + 1
            BY <2>1, <2>5, <3>1 DEF Rests
        <3>5. Placed(c)' = 0
            <4>1. 0 % m = 0
                BY <1>1
            <4> QED BY <1>1, <2>1, <3>1, <4>1 DEF Placed
        <3>6. Gathered(<< >>, t, n + 1, n) /\ n - 0 + 1 = n + 1
            BY <1>3 DEF Gathered
        <3>7. CountOK(c)'
            <4> HIDE DEF n, count
            <4> QED BY <1>3, <1>5, <2>1, <3>1, <3>4, <3>5, <3>6 DEF CountOK
        <3>8. PastOK(c)'
            BY <1>3, <1>7, <3>3 DEF PastOK
        <3> QED BY <1>6, <3>7, <3>8 DEF PauseOK
    <2> QED BY <2>8, <2>9
<1> QED BY <1>8, <1>9

LEMMA StepPauses ==
    ASSUME IInv, RInv, NEW c \in Calls, WalkOK(c), PauseOK(c), Step(c)
    PROVE  PauseOK(c)'
    BY OnTheWire, StartPauses, SendPauses, EndsPauses, DecidePauses, RollsPauses

LEMMA OthersPause ==
    ASSUME IInv, NEW d \in Calls, PauseOK(d), inner' = inner,
           <<pc[d], request[d], failover[d], outcome[d], sent[d]>>'
               = <<pc[d], request[d], failover[d], outcome[d], sent[d]>>
    PROVE  PauseOK(d)'
<1>1. Placed(d)' = Placed(d)
    BY DEF Placed
<1>2. CountOK(d)' /\ ToldOK(d)'
    BY <1>1 DEF PauseOK, CountOK, ToldOK
<1>3. PastOK(d)'
    <2> SUFFICES ASSUME NEW i \in DOMAIN sent[d], sent[d][i].pause # None
                 PROVE  Cycle(d, i)' \subseteq 1 .. i /\ PauseAnswers(d, i)'
        BY DEF PastOK
    <2>1. i \in Nat \ {0}
        BY LenProperties DEF IInv, TypeOK
    <2>2. Cycle(d, i) \subseteq 1 .. i /\ PauseAnswers(d, i)
        BY DEF PauseOK, PastOK
    <2> QED BY <2>1, <2>2, PastStands
<1> QED BY <1>2, <1>3 DEF PauseOK

LEMMA LNext == IInv /\ RInv /\ WInv /\ LInv /\ [Next]_vars => LInv'
<1> SUFFICES ASSUME IInv, RInv, WInv, LInv, [Next]_vars, NEW d \in Calls PROVE PauseOK(d)'
    BY DEF LInv
<1>1. WalkOK(d) /\ PauseOK(d) /\ inner' = inner
    BY InnerStands DEF WInv, LInv
<1>2. CASE Tick \/ Terminated \/ UNCHANGED vars
    BY <1>1, <1>2, OthersPause DEF Tick, Terminated, vars, config, loop, ghosts
<1>3. ASSUME NEW c \in Calls, Step(c) PROVE PauseOK(d)'
    <2>1. CASE d = c
        BY <1>1, <1>3, <2>1, StepPauses
    <2>2. CASE d # c
        BY <1>1, <1>3, <2>2, OthersStand, OthersRest, OthersPause
    <2> QED BY <2>1, <2>2
<1> QED BY <1>2, <1>3 DEF Next

\* The pause after attempt i of a call is the smallest Retry-After of its cycle
\* when every attempt of it came with one, and else the backoff, which counts
\* pauses, not attempts, and has the whole milliseconds of base_delay for its
\* floor: Failover::rotate and Failover::retry_in_place, over Failover::pause.
THEOREM PausesAnswer == Spec => []PauseAnswersItsCycle
<1>1. Init => LInv
    <2> SUFFICES ASSUME Init, NEW c \in Calls PROVE PauseOK(c)
        BY DEF LInv
    <2>1. pc[c] = "idle" /\ sent[c] = << >>
        BY DEF Init
    <2>2. DOMAIN sent[c] = {}
        BY <2>1
    <2> QED BY <2>1, <2>2 DEF PauseOK, CountOK, ToldOK, PastOK
<1>2. LInv => PauseAnswersItsCycle
    BY DEF LInv, PauseOK, PastOK, PauseAnswersItsCycle
<1> QED BY <1>1, <1>2, LNext, WInductive, PTL DEF Spec

-----------------------------------------------------------------------------
(***************************************************************************)
(* What the observer of a client hears, from all of its calls at once.     *)
(***************************************************************************)

-----------------------------------------------------------------------------
(* The client's observer.                                                  *)

\* How often each report is made, over the re-sends X that R reports.
Counted(X, R) == [r \in {R[x] : x \in X} |-> Cardinality({x \in X : R[x] = r})]

\* One more re-send counts once.
LEMMA CountedMore ==
    ASSUME NEW X, IsFiniteSet(X), NEW y, y \notin X, NEW R, NEW S,
           \A x \in X : S[x] = R[x]
    PROVE  Counted(X \cup {y}, S) = Counted(X, R) (+) SetToBag({S[y]})
<1> DEFINE B    == Counted(X, R)
           came == S[y]
           Of(r) == {x \in X : R[x] = r}
<1>1. DOMAIN B = {R[x] : x \in X} /\ \A r \in DOMAIN B : B[r] = Cardinality(Of(r))
    BY DEF Counted
<1>2. \A r : IsFiniteSet(Of(r)) /\ Cardinality(Of(r)) \in Nat
    BY FS_Subset, FS_CardinalityType
<1>3. \A r : {x \in X \cup {y} : S[x] = r} = IF r = came THEN Of(r) \cup {y} ELSE Of(r)
    OBVIOUS
<1>4. \A r : Cardinality({x \in X \cup {y} : S[x] = r})
                 = Cardinality(Of(r)) + (IF r = came THEN 1 ELSE 0)
    <2> SUFFICES ASSUME NEW r
                 PROVE  Cardinality({x \in X \cup {y} : S[x] = r})
                            = Cardinality(Of(r)) + (IF r = came THEN 1 ELSE 0)
        OBVIOUS
    <2> DEFINE T == Of(r)
               U == {x \in X \cup {y} : S[x] = r}
    <2>1. y \notin T /\ IsFiniteSet(T) /\ Cardinality(T) \in Nat
        BY <1>2
    <2>2. U = IF r = came THEN T \cup {y} ELSE T
        BY <1>3
    <2> HIDE DEF T, U, came
    <2>3. Cardinality(T \cup {y}) = Cardinality(T) + 1
        BY <2>1, FS_AddElement
    <2>4. Cardinality(U) = Cardinality(T) + (IF r = came THEN 1 ELSE 0)
        BY <2>1, <2>2, <2>3
    <2> QED BY <2>4 DEF T, U
<1>5. {S[x] : x \in X \cup {y}} = DOMAIN B \cup {came}
    BY <1>1
<1>6. \A r : r \notin DOMAIN B => Cardinality(Of(r)) = 0
    <2> SUFFICES ASSUME NEW r, r \notin DOMAIN B PROVE Cardinality(Of(r)) = 0
        OBVIOUS
    <2>1. Of(r) = {}
        BY <1>1
    <2> QED BY <2>1, FS_EmptySet
<1>7. Counted(X \cup {y}, S)
          = [r \in DOMAIN B \cup {came} |->
                 Cardinality(Of(r)) + (IF r = came THEN 1 ELSE 0)]
    BY <1>4, <1>5 DEF Counted
<1>8. B (+) SetToBag({came})
          = [r \in DOMAIN B \cup {came} |->
                 (IF r \in DOMAIN B THEN B[r] ELSE 0) + (IF r = came THEN 1 ELSE 0)]
    BY DEF (+), SetToBag
<1> HIDE DEF B, came, Of
<1>9. \A r : (IF r \in DOMAIN B THEN B[r] ELSE 0) = Cardinality(Of(r))
    BY <1>1, <1>6
<1> QED BY <1>7, <1>8, <1>9 DEF B, came

\* The re-sends made, and what they report.
Reported == [x \in ResendsMade |-> ReportOf(x[1], x[2])]

LEMMA UnionIsCounted ==
    ClientObserverHearsTheUnion <=> (inner.observer => told = Counted(ResendsMade, Reported))
<1>1. \A x \in ResendsMade : Reported[x] = ReportOf(x[1], x[2])
    BY DEF Reported
<1>2. {ReportOf(x[1], x[2]) : x \in ResendsMade} = {Reported[x] : x \in ResendsMade}
    BY <1>1
<1>3. \A r : {x \in ResendsMade : ReportOf(x[1], x[2]) = r} = {x \in ResendsMade : Reported[x] = r}
    BY <1>1
<1>4. [r \in {ReportOf(x[1], x[2]) : x \in ResendsMade} |->
           Cardinality({x \in ResendsMade : ReportOf(x[1], x[2]) = r})]
          = Counted(ResendsMade, Reported)
    BY <1>2, <1>3 DEF Counted
<1> QED BY <1>4 DEF ClientObserverHearsTheUnion

LEMMA UnionIsCountedNext ==
    ClientObserverHearsTheUnion' <=>
        (inner'.observer => told' = Counted(ResendsMade, Reported)')
<1>1. (ClientObserverHearsTheUnion <=>
           (inner.observer => told = Counted(ResendsMade, Reported)))'
    BY UnionIsCounted, PTL
<1> QED BY <1>1

LEMMA ResendsMadeAre ==
    \A x : x \in ResendsMade <=>
               \E d \in Calls : \E i \in 1 .. Len(sent[d]) - 1 : x = <<d, i>>
    BY DEF ResendsMade

UInv == IsFiniteSet(ResendsMade) /\ ClientObserverHearsTheUnion

\* A step that re-sends nothing.
LEMMA UnionStays ==
    ASSUME UInv, inner' = inner, told' = told,
           \A d \in Calls : 1 .. Len(sent'[d]) - 1 = 1 .. Len(sent[d]) - 1,
           \A d \in Calls : \A i \in 1 .. Len(sent[d]) - 1 : ReportOf(d, i)' = ReportOf(d, i)
    PROVE  UInv'
<1>1. ResendsMade' = ResendsMade
    BY DEF ResendsMade
<1>2. \A x \in ResendsMade : ReportOf(x[1], x[2])' = ReportOf(x[1], x[2])
    BY ResendsMadeAre
<1>3. Reported' = Reported
    BY <1>1, <1>2 DEF Reported
<1>4. Counted(ResendsMade, Reported)' = Counted(ResendsMade, Reported)
    BY <1>1, <1>3 DEF Counted
<1> QED BY <1>1, <1>4, UnionIsCounted, UnionIsCountedNext DEF UInv

\* A step of call c that re-sends nothing and changes no more than the end of
\* its latest attempt.
LEMMA CallStays ==
    ASSUME IInv, UInv, NEW c \in Calls, Step(c), inner' = inner, told' = told,
           NEW n \in Nat, n = Len(sent[c]), Len(sent'[c]) = n,
           \A i \in 1 .. n : /\ sent'[c][i].endpoint = sent[c][i].endpoint
                             /\ i # n => sent'[c][i].outcome = sent[c][i].outcome
    PROVE  UInv'
<1>1. \A d \in Calls : d # c => sent'[d] = sent[d]
    BY OthersStand
<1>2. \A d \in Calls : 1 .. Len(sent'[d]) - 1 = 1 .. Len(sent[d]) - 1
    BY <1>1
<1>3. ASSUME NEW d \in Calls, NEW i \in 1 .. Len(sent[d]) - 1
      PROVE  ReportOf(d, i)' = ReportOf(d, i)
    <2>1. CASE d # c
        BY <1>1, <2>1 DEF ReportOf
    <2>2. CASE d = c
        <3>1. i \in 1 .. n /\ i # n /\ i + 1 \in 1 .. n
            BY <2>2
        <3>2. /\ sent'[c][i].endpoint = sent[c][i].endpoint
              /\ sent'[c][i].outcome = sent[c][i].outcome
              /\ sent'[c][i + 1].endpoint = sent[c][i + 1].endpoint
            BY <3>1
        <3> QED BY <2>2, <3>2 DEF ReportOf
    <2> QED BY <2>1, <2>2
<1> QED BY <1>2, <1>3, UnionStays

\* A re-send is reported as it is made.
LEMMA SendTells ==
    ASSUME IInv, NEW c \in Calls, RecordedOK(c), UInv, Send(c), Step(c)
    PROVE  UInv'
<1> DEFINE a == attempt[c].of
<1>0. PICK n \in Nat : n = Len(sent[c])
    BY SendingEntries
<1>1. /\ Len(sent'[c]) = n + 1 /\ DOMAIN sent[c] = 1 .. n
      /\ \A i \in 1 .. n : sent'[c][i] = sent[c][i]
      /\ sent'[c][n + 1].endpoint = a.endpoint
      /\ \A d \in Calls : d # c => sent'[d] = sent[d]
    BY <1>0, SendingEntries
<1>2. inner' = inner /\ told' = ToldClient(a) /\ pc[c] = "send"
    BY DEF Send, config
<1>3. ASSUME NEW d \in Calls, NEW i \in 1 .. Len(sent[d]) - 1
      PROVE  ReportOf(d, i)' = ReportOf(d, i)
    <2>1. CASE d # c
        BY <1>1, <2>1 DEF ReportOf
    <2>2. CASE d = c
        <3>1. i \in 1 .. n /\ i + 1 \in 1 .. n
            BY <1>0, <2>2
        <3>2. sent'[c][i] = sent[c][i] /\ sent'[c][i + 1] = sent[c][i + 1]
            BY <1>1, <3>1
        <3> QED BY <2>2, <3>2 DEF ReportOf
    <2> QED BY <2>1, <2>2
<1>4. CASE sent[c] = << >>
    <2>1. n = 0 /\ a.resend = None
        BY <1>0, <1>2, <1>4, EmptySeq DEF RecordedOK
    <2>2. told' = told
        BY <1>2, <2>1 DEF ToldClient
    <2>3. \A d \in Calls : 1 .. Len(sent'[d]) - 1 = 1 .. Len(sent[d]) - 1
        <3>1. 1 .. Len(sent'[c]) - 1 = 1 .. Len(sent[c]) - 1
            BY <1>0, <1>1, <2>1
        <3> QED BY <1>1, <3>1
    <2> QED BY <1>2, <1>3, <2>2, <2>3, UnionStays
<1>5. CASE sent[c] # << >>
    <2> DEFINE y == <<c, n>>
    <2>1. n \in Nat \ {0}
        BY <1>0, <1>5, EmptySeq DEF IInv, TypeOK
    <2>2. Tells(c, a.resend, a.endpoint) /\ a.number = n + 1
        BY <1>0, <1>2, <1>5 DEF RecordedOK
    <2>3. ReportOf(c, n)' = Report(a)
        BY <1>0, <1>1, <2>1, <2>2, SendReports
    <2>4. y \notin ResendsMade
        BY <1>0, ResendsMadeAre
    <2>5. ResendsMade' = ResendsMade \cup {y}
        <3>1. \A x : x \in ResendsMade' <=>
                         \E d \in Calls : \E i \in 1 .. Len(sent'[d]) - 1 : x = <<d, i>>
            BY DEF ResendsMade
        <3>2. \A i : i \in 1 .. Len(sent'[c]) - 1 <=> i \in 1 .. Len(sent[c]) - 1 \/ i = n
            BY <1>0, <1>1, <2>1
        <3>3. ASSUME NEW x PROVE x \in ResendsMade' <=> x \in ResendsMade \/ x = y
            <4>1. ASSUME x \in ResendsMade' PROVE x \in ResendsMade \/ x = y
                <5>1. PICK d \in Calls : \E i \in 1 .. Len(sent'[d]) - 1 : x = <<d, i>>
                    BY <3>1, <4>1
                <5>2. CASE d = c
                    BY <3>2, <5>1, <5>2, ResendsMadeAre
                <5>3. CASE d # c
                    BY <1>1, <5>1, <5>3, ResendsMadeAre
                <5> QED BY <5>2, <5>3
            <4>2. ASSUME x \in ResendsMade PROVE x \in ResendsMade'
                <5>1. PICK d \in Calls : \E i \in 1 .. Len(sent[d]) - 1 : x = <<d, i>>
                    BY <4>2, ResendsMadeAre
                <5>2. \A i \in 1 .. Len(sent[d]) - 1 : i \in 1 .. Len(sent'[d]) - 1
                    BY <1>1, <3>2
                <5> QED BY <3>1, <5>1, <5>2
            <4>3. ASSUME x = y PROVE x \in ResendsMade'
                BY <3>1, <3>2, <4>3
            <4> QED BY <4>1, <4>2, <4>3
        <3> QED BY <3>3
    <2>6. /\ \A x \in ResendsMade : Reported'[x] = Reported[x]
          /\ Reported'[y] = Report(a)
        <3>1. \A x \in ResendsMade' : Reported'[x] = ReportOf(x[1], x[2])'
            BY DEF Reported
        <3>2. \A x \in ResendsMade : Reported[x] = ReportOf(x[1], x[2])
            BY DEF Reported
        <3>3. \A x \in ResendsMade : ReportOf(x[1], x[2])' = ReportOf(x[1], x[2])
            BY <1>3, ResendsMadeAre
        <3>4. y \in ResendsMade' /\ y[1] = c /\ y[2] = n
            BY <2>5
        <3>5. Reported'[y] = ReportOf(c, n)'
            BY <3>1, <3>4
        <3> QED BY <2>3, <2>5, <3>1, <3>2, <3>3, <3>5
    <2>7. IsFiniteSet(ResendsMade) /\ IsFiniteSet(ResendsMade')
        BY <2>5, FS_AddElement DEF UInv
    <2>8. CASE ~inner.observer
        BY <1>2, <2>7, <2>8 DEF UInv, ClientObserverHearsTheUnion
    <2>9. CASE inner.observer
        <3>1. told' = told (+) SetToBag({Report(a)})
            BY <1>2, <2>2, <2>9 DEF ToldClient, Tells
        <3>2. told = Counted(ResendsMade, Reported)
            BY <2>9, UnionIsCounted DEF UInv
        <3>3. Counted(ResendsMade', Reported') = Counted(ResendsMade, Reported) (+) SetToBag({Reported'[y]})
            <4> HIDE DEF y
            <4> QED BY <2>4, <2>5, <2>6, <2>7, CountedMore
        <3>4. Counted(ResendsMade, Reported)' = Counted(ResendsMade', Reported')
            BY DEF Counted
        <3>5. told' = Counted(ResendsMade, Reported)'
            BY <2>6, <3>1, <3>2, <3>3, <3>4
        <3> QED BY <2>7, <3>5, UnionIsCountedNext DEF UInv
    <2> QED BY <2>8, <2>9
<1> QED BY <1>4, <1>5

LEMMA StepTells ==
    ASSUME IInv, NEW c \in Calls, RecordedOK(c), WalkOK(c), UInv, inner' = inner, Step(c)
    PROVE  UInv'
<1>1. sent \in [Calls -> Seq(Sends)]
    BY DEF IInv, TypeOK
<1>2. CASE Send(c)
    BY <1>2, SendTells
<1>3. ~Send(c) => told' = told
    BY DEF Step, Run, Start, Begin, BeginTooLate, Send, Succeed, Answer, BodyRead, Disconnect,
           Expire, OwnTimeout, Fail, RefuseRedirect, Decide, Wake, Drop, ghosts
<1>4. PICK n \in Nat : n = Len(sent[c])
    BY <1>1, LenProperties
<1>5. CASE ~Send(c) /\ sent' = sent
    BY <1>3, <1>4, <1>5, CallStays
<1>6. CASE ~Send(c) /\ Ends(c)
    <2>1. sent[c] # << >> /\ \E how, retryAfter : sent' = Ended(c, how, retryAfter)
        BY <1>6, InFlightType DEF Ends
    <2>2. /\ Len(sent'[c]) = n
          /\ \A i \in 1 .. n : /\ sent'[c][i].endpoint = sent[c][i].endpoint
                               /\ i # n => sent'[c][i].outcome = sent[c][i].outcome
        BY <1>1, <1>4, <2>1, EndedEntries
    <2> QED BY <1>3, <1>4, <1>6, <2>2, CallStays
<1>7. CASE ~Send(c) /\ Decide(c)
    <2>1. sent[c][Len(sent[c])].pause = None
        BY <1>7 DEF WalkOK, Under, Decide
    <2>2. /\ Len(sent'[c]) = n
          /\ \A i \in 1 .. n : /\ sent'[c][i].endpoint = sent[c][i].endpoint
                               /\ sent'[c][i].outcome = sent[c][i].outcome
        BY <1>4, <1>7, <2>1, DecidedEntries
    <2> QED BY <1>3, <1>4, <1>7, <2>2, CallStays
<1> QED BY <1>2, <1>5, <1>6, <1>7, OnTheWire DEF Start, Rolls, ghosts

\* The client's observer hears of every re-send of every call, as often as it
\* is made: RetryObserver, "so its counts add up across calls".
THEOREM ClientObserverIsHeard == Spec => []ClientObserverHearsTheUnion
<1>1. Init => UInv
    <2> SUFFICES ASSUME Init PROVE UInv
        OBVIOUS
    <2>1. \A d \in Calls : 1 .. Len(sent[d]) - 1 = {}
        <3>1. \A d \in Calls : Len(sent[d]) = 0
            BY EmptySeq DEF Init
        <3> QED BY <3>1
    <2>2. ResendsMade = {}
        BY <2>1, ResendsMadeAre
    <2>3. told = << >> /\ DOMAIN told = {}
        BY DEF Init, EmptyBag, SetToBag
    <2>4. Counted(ResendsMade, Reported) = told
        BY <2>2 DEF Counted, Init, EmptyBag, SetToBag
    <2> QED BY <2>2, <2>4, UnionIsCounted, FS_EmptySet DEF UInv
<1>2. IInv /\ RInv /\ WInv /\ UInv /\ [Next]_vars => UInv'
    <2> SUFFICES ASSUME IInv, RInv, WInv, UInv, [Next]_vars PROVE UInv'
        OBVIOUS
    <2>1. inner' = inner
        BY InnerStands
    <2>2. CASE Tick \/ Terminated \/ UNCHANGED vars
        <3>1. told' = told /\ sent' = sent
            BY <2>2 DEF Tick, Terminated, vars, ghosts
        <3>2. \A d \in Calls : \A i \in 1 .. Len(sent[d]) - 1 : ReportOf(d, i)' = ReportOf(d, i)
            BY <3>1 DEF ReportOf
        <3> QED BY <2>1, <3>1, <3>2, UnionStays
    <2>3. ASSUME NEW c \in Calls, Step(c) PROVE UInv'
        BY <2>1, <2>3, StepTells DEF RInv, WInv
    <2> QED BY <2>2, <2>3 DEF Next
<1>3. UInv => ClientObserverHearsTheUnion
    BY DEF UInv
<1> QED BY <1>1, <1>2, <1>3, WInductive, PTL DEF Spec

-----------------------------------------------------------------------------
(***************************************************************************)
(* A call on a client with one endpoint implements SingleEndpoint.         *)
(***************************************************************************)

\* The loop a caller writes counts attempts where Failover counts pauses: with
\* one endpoint there is a pause for every attempt that another follows.  And
\* an outcome that is not final is one that wants_retry asks to try again.
AsksAgain(c) ==
    IF last[c].kind = "Transport" THEN last[c].outcome \in {"connect", "timeout"}
    ELSE WantsRetry(last[c].outcome, outcome[c].retry_after,
                    last[c].outcome \in request[c].accept, request[c].retry_on)

LoopOK(c) ==
    /\ pc[c] \in {"begin", "sleeping"} => failover[c].pauses = failover[c].attempts
    /\ pc[c] \in {"send", "inflight", "body", "after"} =>
          failover[c].pauses + 1 = failover[c].attempts
    /\ pc[c] \in {"body", "after"} =>
          /\ last[c] # None
          /\ outcome[c].kind # "Final" <=> AsksAgain(c)

LoopInv == \A c \in Calls : LoopOK(c)

-----------------------------------------------------------------------------
(* Failover::after with one endpoint is next_pause.                        *)

PauseAfter(f, out, policy, draw, remaining) ==
    IF policy # None /\ out.kind # "Final"
    THEN NextPause(policy, f.attempts, draw, out.retry_after, remaining)
    ELSE None

LEMMA TakePauseDecides ==
    ASSUME NEW f \in Failovers, NEW policy, NEW retryAfter, NEW draw, NEW remaining
    PROVE  LET step  == TakePause(f, policy, retryAfter, draw, remaining)
               pause == IF retryAfter # None THEN FitsBefore(retryAfter, remaining)
                        ELSE Pause(policy, SaturatingInc(f.pauses), draw, remaining)
           IN  /\ step.pause = pause
               /\ step.stop = None <=> pause # None
<1> DEFINE pause == IF retryAfter # None
                    THEN FitsBefore(retryAfter, remaining)
                    ELSE Pause(policy, SaturatingInc(f.pauses), draw, remaining)
           g == [f EXCEPT !.pauses = SaturatingInc(f.pauses)]
<1>1. TakePause(f, policy, retryAfter, draw, remaining)
          = IF pause = None THEN Halt(f, Spent(f)) ELSE GoOn(g, pause)
    BY DEF TakePause
<1>2. Spent(f) # None
    BY StopAssumption DEF Spent
<1> HIDE DEF pause, g
<1>3. /\ Halt(f, Spent(f)).pause = None /\ Halt(f, Spent(f)).stop = Spent(f)
      /\ GoOn(g, pause).pause = pause /\ GoOn(g, pause).stop = None
    BY DEF Halt, GoOn
<1>4. /\ TakePause(f, policy, retryAfter, draw, remaining).pause = pause
      /\ TakePause(f, policy, retryAfter, draw, remaining).stop = None <=> pause # None
    BY <1>1, <1>2, <1>3
<1> QED BY <1>4 DEF pause

LEMMA AfterDecides ==
    ASSUME inner \in Clients, inner.len = 1,
           NEW f \in Failovers, f.pauses + 1 = f.attempts, f.attempts <= MaxCount,
           NEW out \in Outcomes, NEW policy \in Option(Policies),
           NEW draw \in Draws, NEW remaining \in Option(Duration)
    PROVE  LET step == After(f, out, policy, draw, remaining)
           IN  /\ step.pause = PauseAfter(f, out, policy, draw, remaining)
               /\ step.stop = None <=> step.pause # None
               /\ step.stop = None => step.failover.pauses = f.attempts
<1> DEFINE step == After(f, out, policy, draw, remaining)
           g    == Traced(f, out.reason)
<1>1. /\ f.len = 1 /\ f.pauses \in Nat /\ f.attempts \in Nat
      /\ SaturatingInc(f.pauses) = f.attempts
    BY SaturatingIncType, MaxCountAssumption DEF Failovers
<1>2. ASSUME NEW h, NEW why \in {"Raw", "Exhausted"}
      PROVE  Halt(h, why).pause = None /\ Halt(h, why).stop # None
    BY <1>2, StopAssumption DEF Halt
<1>3. CASE out.kind = "Final" \/ policy = None
    <2>1. step \in {Halt(f, "Raw"), Halt(g, "Raw")}
        BY <1>3 DEF After
    <2>2. step.pause = None /\ step.stop # None
        BY <1>2, <2>1
    <2> QED BY <1>3, <2>2 DEF PauseAfter
<1>4. CASE out.kind # "Final" /\ policy # None
    <2>1. out.reason \in Reasons /\ out.retry_after \in RetryAfters \cup {None}
        BY <1>4 DEF Outcomes, Final
    <2>2. policy \in Policies
        BY <1>4 DEF Option
    <2>3. /\ g \in Failovers /\ g.attempts = f.attempts
          /\ g.pauses = f.pauses /\ g.len = 1
        BY <1>1, <2>1, TracedType DEF Traced, Failovers
    <2> HIDE DEF g
    <2>4. CASE ~ShouldRetry(policy, f.attempts)
        <3>1. step = Halt(g, Spent(g))
            BY <1>4, <2>3, <2>4 DEF After, g
        <3>2. step.pause = None /\ step.stop # None
            BY <1>2, <3>1, SpentType
        <3> QED BY <1>4, <2>4, <3>2 DEF PauseAfter, NextPause
    <2>5. CASE ShouldRetry(policy, f.attempts)
        <3> DEFINE reset  == [g EXCEPT !.streak = 0, !.cycle = << >>]
                   rest   == TakePause(reset, policy, out.retry_after, draw, remaining)
                   resend == [kind |-> "Retry", reason |-> out.reason]
        <3>1. step = RetryInPlace(g, policy, out.reason, out.retry_after, draw, remaining)
            BY <1>4, <2>3, <2>5 DEF After, g
        <3>2. step = IF rest.stop # None THEN rest ELSE Resending(rest, resend)
            BY <3>1 DEF RetryInPlace
        <3>3. reset \in Failovers /\ reset.pauses = f.pauses
            BY <2>3 DEF Failovers
        <3> HIDE DEF reset, step
        <3>4. /\ rest.pause = PauseAfter(f, out, policy, draw, remaining)
              /\ rest.stop = None <=> rest.pause # None
              /\ rest.stop = None => rest.failover.pauses = f.attempts
              /\ rest \in Steps
            <4>1. rest \in Steps
                BY <2>1, <2>2, <3>3, TakePauseType
            <4>2. /\ rest.pause = IF out.retry_after # None THEN FitsBefore(out.retry_after, remaining)
                                  ELSE Pause(policy, f.attempts, draw, remaining)
                  /\ rest.stop = None <=> rest.pause # None
                BY <1>1, <3>3, TakePauseDecides
            <4>3. rest.stop = None => rest.failover.pauses = f.attempts
                BY <1>1, <3>3, TakePauseWalk DEF Rests
            <4> QED BY <1>4, <2>5, <4>1, <4>2, <4>3 DEF PauseAfter, NextPause
        <3> HIDE DEF rest, resend
        <3> QED BY <3>2, <3>4, ResendingWalk DEF step
    <2> QED BY <2>4, <2>5
<1> QED BY <1>3, <1>4

-----------------------------------------------------------------------------
(* The invariant.                                                          *)

LEMMA OutcomeAsks ==
    ASSUME NEW status, NEW retryAfter, NEW accepted, NEW retryOn
    PROVE  LET out == OfStatus(status, retryAfter, accepted, retryOn)
           IN  /\ out.kind # "Final" <=> WantsRetry(status, retryAfter, accepted, retryOn)
               /\ out.kind # "Final" <=> WantsRetry(status, out.retry_after, accepted, retryOn)
    BY DEF OfStatus, WantsRetry, Rotation, InPlace, Final, StatusIsRetriable

LEMMA AnswerLoops ==
    ASSUME IInv, NEW c \in Calls, LoopOK(c), Answer(c)
    PROVE  LoopOK(c)'
<1>1. PICK status \in Statuses, retryAfter \in RetryAfters :
          LET accepted == status \in request[c].accept
          IN  /\ outcome' = [outcome EXCEPT ![c] =
                                OfStatus(status, retryAfter, accepted, request[c].retry_on)]
              /\ last' = [last EXCEPT ![c] =
                              [kind    |-> IF accepted THEN "Ok" ELSE "Api",
                               outcome |-> status]]
              /\ pc' = [pc EXCEPT ![c] = IF accepted THEN "after" ELSE "body"]
    BY DEF Answer
<1>2. request' = request /\ failover' = failover /\ pc[c] = "inflight"
    BY DEF Answer, config
<1>3. /\ outcome'[c] = OfStatus(status, retryAfter, status \in request[c].accept,
                                request[c].retry_on)
      /\ last'[c] = [kind    |-> IF status \in request[c].accept THEN "Ok" ELSE "Api",
                     outcome |-> status]
      /\ pc'[c] \in {"body", "after"}
    BY <1>1 DEF IInv, TypeOK
<1>4. last'[c] \in Own
    BY <1>3 DEF Own, Endings, Reasons
<1>5. outcome'[c].kind # "Final" <=> AsksAgain(c)'
    BY <1>2, <1>3, OutcomeAsks DEF AsksAgain
<1> QED BY <1>2, <1>3, <1>4, <1>5, LastAssumption DEF LoopOK

LEMMA FailLoops ==
    ASSUME IInv, NEW c \in Calls, LoopOK(c), NEW connect, NEW timeout,
           Fail(c, connect, timeout)
    PROVE  LoopOK(c)'
<1> DEFINE how == IF connect THEN "connect" ELSE IF timeout THEN "timeout" ELSE "io"
<1>1. /\ outcome'[c] = OfTransport(connect, timeout)
      /\ last'[c] = [kind |-> "Transport", outcome |-> how]
      /\ pc'[c] = "after" /\ failover' = failover /\ pc[c] = "inflight"
    BY DEF Fail, IInv, TypeOK
<1>2. last'[c] \in Own
    BY <1>1 DEF Own, Endings, Reasons
<1>3. outcome'[c].kind # "Final" <=> AsksAgain(c)'
    BY <1>1 DEF AsksAgain, OfTransport, Rotation, Final
<1> QED BY <1>1, <1>2, <1>3, LastAssumption DEF LoopOK

LEMMA DecideLoops ==
    ASSUME IInv, inner.len = 1, NEW c \in Calls, LoopOK(c), Decide(c)
    PROVE  LoopOK(c)'
<1>1. PICK draw \in 0 .. DrawDen - 1 :
          LET step == After(failover[c], outcome[c], PolicyOf(c), draw, left[c])
          IN  /\ failover' = [failover EXCEPT ![c] = step.failover]
              /\ \/ pc' = [pc EXCEPT ![c] = "done"]
                 \/ step.stop = None /\ pc' = [pc EXCEPT ![c] = "begin"]
                 \/ step.stop = None /\ pc' = [pc EXCEPT ![c] = "sleeping"]
    BY DEF Decide
<1> DEFINE step == After(failover[c], outcome[c], PolicyOf(c), draw, left[c])
<1>2. /\ inner \in Clients /\ failover[c] \in Failovers /\ outcome[c] \in Outcomes
      /\ left[c] \in Option(Duration) /\ pc[c] = "after"
      /\ failover[c].pauses + 1 = failover[c].attempts
    BY DEF IInv, TypeOK, CallOK, Decide, LoopOK
<1>3. PolicyOf(c) \in Option(Policies) /\ failover[c].attempts <= MaxCount
    <2>1. failover[c].attempts <= Budget(c) /\ failover[c].attempts \in Nat
        BY <1>2 DEF IInv, BudgetOK, Failovers
    <2> QED BY <1>2, <2>1, BudgetType, MaxCountAssumption
<1>4. draw \in Draws
    BY DrawAssumption DEF Draws
<1>5. step.stop = None => /\ step.failover.pauses = failover[c].attempts
                          /\ step.failover.attempts = failover[c].attempts
    BY <1>2, <1>3, <1>4, AfterDecides, AfterType
<1>6. failover'[c] = step.failover
    BY <1>1 DEF IInv, TypeOK
<1>7. \/ pc'[c] = "done"
      \/ step.stop = None /\ pc'[c] \in {"begin", "sleeping"}
    BY <1>1 DEF IInv, TypeOK
<1> HIDE DEF step
<1> QED BY <1>5, <1>6, <1>7 DEF LoopOK

LEMMA BeginLoops ==
    ASSUME IInv, NEW c \in Calls, LoopOK(c), Begin(c)
    PROVE  LoopOK(c)'
<1>1. /\ failover[c] \in Failovers /\ inner \in Clients /\ pc[c] = "begin"
      /\ failover'[c] = Begun(failover[c]) /\ pc'[c] = "send"
    BY DEF IInv, TypeOK, CallOK, Begin
<1>2. failover[c].attempts \in Nat /\ failover[c].attempts < Budget(c)
    BY <1>1 DEF IInv, BudgetOK, Failovers
<1>3. Begun(failover[c]).attempts = failover[c].attempts + 1
    BY <1>1, <1>2, BegunType, BudgetType, SaturatingIncType, MaxCountAssumption
<1>4. Begun(failover[c]).pauses = failover[c].pauses
    BY <1>1, BegunWalk
<1> QED BY <1>1, <1>3, <1>4 DEF LoopOK

LEMMA StepLoops ==
    ASSUME IInv, inner.len = 1, NEW c \in Calls, LoopOK(c), Step(c)
    PROVE  LoopOK(c)'
<1> USE DEF config, timers, ghosts
<1>1. CASE Start(c)
    <2>1. pc'[c] = "begin" /\ failover'[c] = New(inner.len, preferred % inner.len)
        BY <1>1 DEF IInv, TypeOK, Start
    <2> QED BY <2>1 DEF LoopOK, New
<1>2. CASE Begin(c)
    BY <1>2, BeginLoops
<1>3. CASE BeginTooLate(c) \/ Succeed(c) \/ RefuseRedirect(c) \/ Drop(c)
    <2>1. pc'[c] \in {"done", "dropped"}
        BY <1>3 DEF IInv, TypeOK, BeginTooLate, Succeed, RefuseRedirect, Drop
    <2> QED BY <2>1 DEF LoopOK
<1>4. CASE Send(c) \/ BodyRead(c) \/ Wake(c)
    <2>1. failover' = failover /\ outcome' = outcome /\ last' = last /\ request' = request
        BY <1>4 DEF Send, BodyRead, Wake
    <2>2. \/ pc[c] = "send" /\ pc'[c] = "inflight"
          \/ pc[c] = "body" /\ pc'[c] = "after"
          \/ pc[c] = "sleeping" /\ pc'[c] = "begin"
        BY <1>4 DEF IInv, TypeOK, Send, BodyRead, Wake
    <2> QED BY <2>1, <2>2 DEF LoopOK, AsksAgain
<1>5. CASE Answer(c)
    BY <1>5, AnswerLoops
<1>6. CASE Disconnect(c) \/ Expire(c) \/ OwnTimeout(c)
    BY <1>4, <1>6, FailLoops DEF Disconnect, Expire, OwnTimeout
<1>7. CASE Decide(c)
    BY <1>7, DecideLoops
<1> QED BY <1>1, <1>2, <1>3, <1>4, <1>5, <1>6, <1>7 DEF Step, Run

LEMMA LoopNext == IInv /\ inner.len = 1 /\ LoopInv /\ [Next]_vars => LoopInv'
<1> SUFFICES ASSUME IInv, inner.len = 1, LoopInv, [Next]_vars, NEW d \in Calls PROVE LoopOK(d)'
    BY DEF LoopInv
<1>1. LoopOK(d)
    BY DEF LoopInv
<1>2. CASE Tick \/ Terminated \/ UNCHANGED vars
    BY <1>1, <1>2 DEF Tick, Terminated, vars, loop, ghosts, config, LoopOK, AsksAgain
<1>3. ASSUME NEW c \in Calls, Step(c) PROVE LoopOK(d)'
    <2>1. CASE d = c
        BY <1>1, <1>3, <2>1, StepLoops
    <2>2. CASE d # c
        BY <1>1, <1>3, <2>2, OthersStand, OthersRest DEF LoopOK, AsksAgain
    <2> QED BY <2>1, <2>2
<1> QED BY <1>2, <1>3 DEF Next

-----------------------------------------------------------------------------
(* The refinement.                                                         *)

LEMMA Phases ==
    ASSUME NEW c
    PROVE  /\ pc[c] \in {"idle", "done", "dropped"} => PhaseOf(c) = pc[c]
           /\ pc[c] = "begin" => PhaseOf(c) = "ready"
           /\ pc[c] \in {"send", "inflight"} => PhaseOf(c) = "sending"
           /\ pc[c] \in {"body", "after"} => PhaseOf(c) = "answered"
           /\ pc[c] = "sleeping" => PhaseOf(c) = "waiting"
    BY DEF PhaseOf

\* A step that the loop of SingleEndpoint does not see.
LEMMA LoopStands ==
    ASSUME inner' = inner, PhaseOf(Watched)' = PhaseOf(Watched),
           pc'[Watched] = "idle" <=> pc[Watched] = "idle",
           pc'[Watched] = "done" <=> pc[Watched] = "done",
           pc[Watched] # "idle" =>
               /\ request'[Watched] = request[Watched]
               /\ failover'[Watched].attempts = failover[Watched].attempts,
           left'[Watched] = left[Watched], nap'[Watched] = nap[Watched],
           last'[Watched] = last[Watched], outcome'[Watched] = outcome[Watched],
           result'[Watched] = result[Watched]
    PROVE  UNCHANGED OneEndpoint!vars
    BY DEF OneEndpoint!vars, PlainResult, ChoiceOf

LEMMA StartRefines ==
    ASSUME IInv, RInv, NEW w \in Calls, w = Watched, Start(w)
    PROVE  OneEndpoint!Start
<1>1. PICK r \in Requests : request'[w] = r /\ left'[w] = DeadlineOf(r)
    BY DEF Start, IInv, TypeOK
<1>2. /\ pc[w] = "idle" /\ pc'[w] = "begin" /\ inner' = inner /\ nap' = nap /\ last' = last
      /\ outcome' = outcome /\ result' = result /\ inner \in Clients
      /\ failover'[w].attempts = 0
    BY DEF Start, IInv, TypeOK, New
<1>3. last[w] = None
    BY <1>2 DEF RInv, RecordedOK
<1>4. PhaseOf(w) = "idle" /\ PhaseOf(w)' = "ready"
    BY <1>2 DEF PhaseOf
<1> DEFINE ch == ChoiceOf(inner, r)
<1>5. ch \in {ChoiceOf(cl, q) : cl \in Clients, q \in Requests} /\ ch.deadline = DeadlineOf(r)
    BY <1>2 DEF ChoiceOf, DeadlineOf
<1>6. ChoiceOf(inner, request[w])' = ch
    BY <1>1, <1>2 DEF ChoiceOf
<1> HIDE DEF ch
<1> QED BY <1>1, <1>2, <1>3, <1>4, <1>5, <1>6 DEF OneEndpoint!Start, PlainResult

LEMMA BeginRefines ==
    ASSUME IInv, NEW w \in Calls, w = Watched, Begin(w)
    PROVE  OneEndpoint!Send
<1>1. /\ pc[w] = "begin" /\ pc'[w] = "send" /\ inner' = inner /\ request' = request
      /\ left[w] # 0 /\ left' = left /\ nap' = nap /\ last' = last /\ outcome' = outcome
      /\ result' = result /\ failover'[w] = Begun(failover[w])
      /\ failover[w] \in Failovers /\ inner \in Clients
    BY DEF Begin, IInv, TypeOK, CallOK, config, timers
<1>2. failover'[w].attempts = failover[w].attempts + 1
    <2>1. failover[w].attempts \in Nat /\ failover[w].attempts < Budget(w)
        BY <1>1 DEF IInv, BudgetOK, Failovers
    <2> QED BY <1>1, <2>1, BegunType, BudgetType, SaturatingIncType, MaxCountAssumption
<1>3. PhaseOf(w) = "ready" /\ PhaseOf(w)' = "sending"
    BY <1>1 DEF PhaseOf
<1>4. ChoiceOf(inner, request[w])' = ChoiceOf(inner, request[w])
    BY <1>1
<1> QED BY <1>1, <1>2, <1>3, <1>4 DEF OneEndpoint!Send, PlainResult

\* With one endpoint no attempt is marked as rotated, so no error is exhausted.
LEMMA NeverSpent ==
    ASSUME inner \in Clients, inner.len = 1, NEW c \in Calls, sent[c] \in Seq(Sends),
           NEW f, f.trace = TraceOf(c, Len(sent[c]))
    PROVE  Spent(f) = "Raw"
<1> DEFINE n == Len(sent[c])
<1>1. n \in Nat /\ \A i \in 1 .. n : sent[c][i].endpoint = 0
    <2>1. n \in Nat
        BY LenProperties
    <2>2. ASSUME NEW i \in 1 .. n PROVE sent[c][i].endpoint = 0
        <3>1. sent[c][i].endpoint \in Endpoints
            BY WireType DEF Sends
        <3> QED BY <3>1 DEF Endpoints
    <2> QED BY <2>1, <2>2
<1>2. DOMAIN f.trace = 1 .. n
    BY DEF TraceOf
<1>3. ASSUME NEW i \in 1 .. n, f.trace[i].rotated PROVE FALSE
    <2>1. n \in Nat \ {0} /\ 1 \in 1 .. n
        BY <1>1
    <2>2. PICK j \in 1 .. n : sent[c][j].endpoint # sent[c][1].endpoint
        BY <1>3, <2>1, MarkMeansMoved
    <2> QED BY <1>1, <2>1, <2>2
<1> QED BY <1>2, <1>3 DEF Spent

LEMMA TooLateRefines ==
    ASSUME IInv, RInv, inner.len = 1, NEW w \in Calls, w = Watched, BeginTooLate(w)
    PROVE  OneEndpoint!SendTooLate
<1>1. /\ pc[w] = "begin" /\ pc'[w] = "done" /\ inner' = inner /\ request' = request
      /\ left[w] = 0 /\ left' = left /\ nap' = nap /\ last' = last /\ outcome' = outcome
      /\ failover' = failover
      /\ result'[w] = ResultOf(BeginStop(failover[w]), failover[w], last[w])
      /\ failover[w] \in Failovers /\ inner \in Clients /\ sent[w] \in Seq(Sends)
    BY DEF BeginTooLate, IInv, TypeOK, CallOK, config, timers
<1>2. /\ failover[w].attempts = 0 => last[w] = None
      /\ failover[w].attempts # 0 => last[w] \in Own /\ last[w] # None
    <2>1. Len(sent[w]) = failover[w].attempts /\ (sent[w] = << >> <=> Len(sent[w]) = 0)
        BY <1>1, EmptySeq DEF IInv, BudgetOK
    <2> QED BY <1>1, <2>1, LastAssumption DEF RInv, RecordedOK, Held
<1>3. BeginStop(failover[w]) # "Exhausted"
    <2>1. failover[w].trace = TraceOf(w, Len(sent[w]))
        BY <1>1 DEF RInv, RecordedOK
    <2> QED BY <1>1, <2>1, NeverSpent DEF BeginStop
<1>4. PlainResult(w)' = IF failover[w].attempts = 0 THEN [kind |-> "DeadlineExceeded"]
                        ELSE last[w]
    <2>1. CASE failover[w].attempts = 0
        BY <1>1, <1>2, <2>1 DEF PlainResult, ResultOf
    <2>2. CASE failover[w].attempts # 0
        BY <1>1, <1>2, <1>3, <2>2 DEF PlainResult, ResultOf, Own
    <2> QED BY <2>1, <2>2
<1>5. PhaseOf(w) = "ready" /\ PhaseOf(w)' = "done"
    BY <1>1 DEF PhaseOf
<1>6. ChoiceOf(inner, request[w])' = ChoiceOf(inner, request[w])
    BY <1>1
<1> QED BY <1>1, <1>4, <1>5, <1>6 DEF OneEndpoint!SendTooLate

LEMMA SucceedRefines ==
    ASSUME IInv, NEW w \in Calls, w = Watched, Succeed(w)
    PROVE  OneEndpoint!Succeed
<1>1. PICK status \in Statuses :
          /\ IsSuccess(status)
          /\ result'[w] = [kind |-> "Ok", outcome |-> status, trace |-> failover[w].trace]
    BY DEF Succeed, IInv, TypeOK
<1>2. /\ pc[w] = "inflight" /\ pc'[w] = "done" /\ inner' = inner /\ request' = request
      /\ left' = left /\ nap' = nap /\ last' = last /\ outcome' = outcome
      /\ failover' = failover
    BY DEF Succeed, IInv, TypeOK, config, timers
<1>3. PlainResult(w)' = [kind |-> "Ok", outcome |-> status]
    BY <1>1, <1>2 DEF PlainResult
<1>4. PhaseOf(w) = "sending" /\ PhaseOf(w)' = "done"
    BY <1>2 DEF PhaseOf
<1>5. ChoiceOf(inner, request[w])' = ChoiceOf(inner, request[w])
    BY <1>2
<1> QED BY <1>1, <1>2, <1>3, <1>4, <1>5 DEF OneEndpoint!Succeed

LEMMA AnswerRefines ==
    ASSUME IInv, NEW w \in Calls, w = Watched, Answer(w), LoopOK(w)', None \in RetryAfters
    PROVE  OneEndpoint!Respond
<1>1. PICK status \in Statuses, retryAfter \in RetryAfters :
          LET accepted == status \in request[w].accept
              how      == OfStatus(status, retryAfter, accepted, request[w].retry_on)
          IN  /\ ~IsSuccess(status)
              /\ outcome' = [outcome EXCEPT ![w] = how]
              /\ last' = [last EXCEPT ![w] =
                              [kind    |-> IF accepted THEN "Ok" ELSE "Api",
                               outcome |-> status]]
              /\ pc' = [pc EXCEPT ![w] = IF accepted THEN "after" ELSE "body"]
    BY DEF Answer
<1>2. /\ pc[w] = "inflight" /\ inner' = inner /\ request' = request
      /\ left' = left /\ nap' = nap /\ result' = result /\ failover' = failover
    BY DEF Answer, config, timers
<1>3. /\ outcome'[w] = OfStatus(status, retryAfter, status \in request[w].accept,
                                request[w].retry_on)
      /\ last'[w] = [kind    |-> IF status \in request[w].accept THEN "Ok" ELSE "Api",
                     outcome |-> status]
      /\ pc'[w] \in {"body", "after"} /\ last'[w] # None
    BY <1>1 DEF IInv, TypeOK, LoopOK
<1>4. outcome'[w].retry_after \in RetryAfters
    BY <1>3 DEF OfStatus, Rotation, InPlace, Final
<1>5. PhaseOf(w) = "sending" /\ PhaseOf(w)' = "answered"
    BY <1>2, <1>3, Phases DEF PhaseOf
<1>6. ChoiceOf(inner, request[w])' = ChoiceOf(inner, request[w])
      /\ ChoiceOf(inner, request[w]).accept = request[w].accept
    BY <1>2 DEF ChoiceOf
<1>7. PlainResult(w)' = PlainResult(w)
    BY <1>2, <1>3 DEF PlainResult
<1> QED BY <1>1, <1>2, <1>3, <1>4, <1>5, <1>6, <1>7 DEF OneEndpoint!Respond

LEMMA FailRefines ==
    ASSUME IInv, NEW w \in Calls, w = Watched, NEW connect, NEW timeout,
           Fail(w, connect, timeout), LoopOK(w)'
    PROVE  OneEndpoint!Break
<1> DEFINE how == IF connect THEN "connect" ELSE IF timeout THEN "timeout" ELSE "io"
<1>1. /\ outcome'[w] = OfTransport(connect, timeout)
      /\ last'[w] = [kind |-> "Transport", outcome |-> how]
      /\ pc'[w] = "after" /\ last'[w] # None
    BY DEF Fail, IInv, TypeOK, LoopOK
<1>2. /\ pc[w] = "inflight" /\ inner' = inner /\ request' = request
      /\ left' = left /\ nap' = nap /\ result' = result /\ failover' = failover
    BY DEF Fail, config, timers
<1>3. outcome'[w].retry_after = None
    BY <1>1 DEF OfTransport, Rotation, Final
<1>4. how \in {"connect", "timeout", "io"}
    OBVIOUS
<1>5. PhaseOf(w) = "sending" /\ PhaseOf(w)' = "answered"
    BY <1>1, <1>2 DEF PhaseOf
<1>6. ChoiceOf(inner, request[w])' = ChoiceOf(inner, request[w])
    BY <1>2
<1>7. PlainResult(w)' = PlainResult(w)
    BY <1>1, <1>2 DEF PlainResult
<1> HIDE DEF how
<1> QED BY <1>1, <1>2, <1>3, <1>4, <1>5, <1>6, <1>7 DEF OneEndpoint!Break

\* SingleEndpoint reads the rules of RetryPolicy as ServiceClient does.
LEMMA SameRules ==
    /\ \A status, retryAfter, accepted, retryOn :
          OneEndpoint!WantsRetry(status, retryAfter, accepted, retryOn)
              <=> WantsRetry(status, retryAfter, accepted, retryOn)
    /\ \A policy, attempts, draw, retryAfter, remaining :
          OneEndpoint!NextPause(policy, attempts, draw, retryAfter, remaining)
              = NextPause(policy, attempts, draw, retryAfter, remaining)
<1>1. \A status, retryAfter, accepted, retryOn :
          OneEndpoint!WantsRetry(status, retryAfter, accepted, retryOn)
              <=> WantsRetry(status, retryAfter, accepted, retryOn)
    BY DEF OneEndpoint!WantsRetry, WantsRetry, OneEndpoint!StatusIsRetriable, StatusIsRetriable
<1>2. OneEndpoint!Pow2 = Pow2
    BY DEF OneEndpoint!Pow2, Pow2
<1>3. \A a, b : OneEndpoint!Least(a, b) = Least(a, b)
                /\ OneEndpoint!Greatest(a, b) = Greatest(a, b)
    BY DEF OneEndpoint!Least, Least, OneEndpoint!Greatest, Greatest
<1>4. /\ \A d : OneEndpoint!DurationMs(d) = DurationMs(d)
      /\ \A ms : OneEndpoint!FromMillis(ms) = FromMillis(ms)
      /\ \A a, b : OneEndpoint!SaturatingMul(a, b) = SaturatingMul(a, b)
    BY <1>2, <1>3
       DEF OneEndpoint!DurationMs, DurationMs, OneEndpoint!FromMillis, FromMillis,
           OneEndpoint!MaxInt, MaxInt, OneEndpoint!SaturatingMul, SaturatingMul
<1>5. \A policy, tries : OneEndpoint!CeilingMs(policy, tries) = CeilingMs(policy, tries)
    BY <1>2, <1>3, <1>4 DEF OneEndpoint!CeilingMs, CeilingMs
<1>6. \A span, draw : OneEndpoint!Spread(span, draw) = Spread(span, draw)
    BY <1>3 DEF OneEndpoint!Spread, Spread, OneEndpoint!Clamped, Clamped
<1>7. \A pause, remaining : OneEndpoint!FitsBefore(pause, remaining) = FitsBefore(pause, remaining)
    BY DEF OneEndpoint!FitsBefore, FitsBefore
<1>8. \A policy, tries, draw, remaining :
          OneEndpoint!Pause(policy, tries, draw, remaining)
              = Pause(policy, tries, draw, remaining)
    BY <1>3, <1>4, <1>5, <1>6, <1>7 DEF OneEndpoint!Pause, Pause
<1>9. \A policy, tries : OneEndpoint!ShouldRetry(policy, tries) <=> ShouldRetry(policy, tries)
    BY <1>3 DEF OneEndpoint!ShouldRetry, ShouldRetry
<1>10. \A policy, attempts, draw, retryAfter, remaining :
          OneEndpoint!NextPause(policy, attempts, draw, retryAfter, remaining)
              = NextPause(policy, attempts, draw, retryAfter, remaining)
    BY <1>7, <1>8, <1>9 DEF OneEndpoint!NextPause, NextPause
<1> QED BY <1>1, <1>10

\* The pause the loop takes is the one Failover decided.
LEMMA SamePause ==
    ASSUME NEW w \in Calls, w = Watched, LoopOK(w), pc[w] = "after", NEW draw
    PROVE  OneEndpoint!PauseFor(draw)
               = PauseAfter(failover[w], outcome[w], PolicyOf(w), draw, left[w])
<1>1. /\ last[w] # None
      /\ outcome[w].kind # "Final" <=> AsksAgain(w)
    BY DEF LoopOK
<1> DEFINE ch == ChoiceOf(inner, request[w])
<1>2. ch.policy = PolicyOf(w) /\ ch.accept = request[w].accept /\ ch.retry_on = request[w].retry_on
    BY DEF ChoiceOf, PolicyOf
<1> HIDE DEF ch
<1>3. OneEndpoint!AsksForAnother <=> AsksAgain(w)
    BY <1>1, <1>2, SameRules DEF OneEndpoint!AsksForAnother, AsksAgain, ch
<1> QED BY <1>1, <1>2, <1>3, SameRules DEF OneEndpoint!PauseFor, PauseAfter, ch

LEMMA DecideLoopRefines ==
    ASSUME IInv, RInv, inner.len = 1, NEW w \in Calls, w = Watched, LoopOK(w), Decide(w)
    PROVE  OneEndpoint!Stop \/ OneEndpoint!TakePause
<1>1. PICK draw \in 0 .. DrawDen - 1 :
          LET step == After(failover[w], outcome[w], PolicyOf(w), draw, left[w])
          IN  /\ failover' = [failover EXCEPT ![w] = step.failover]
              /\ \/ /\ step.stop # None
                    /\ result' = [result EXCEPT ![w] = ResultOf(step.stop, step.failover, last[w])]
                    /\ pc' = [pc EXCEPT ![w] = "done"]
                    /\ nap' = nap
                 \/ /\ step.stop = None
                    /\ step.pause = None
                 \/ /\ step.stop = None
                    /\ step.pause # None
                    /\ nap' = [nap EXCEPT ![w] = step.pause]
                    /\ pc' = [pc EXCEPT ![w] = "sleeping"]
                    /\ result' = result
    BY DEF Decide
<1> DEFINE step == After(failover[w], outcome[w], PolicyOf(w), draw, left[w])
           pause == PauseAfter(failover[w], outcome[w], PolicyOf(w), draw, left[w])
<1>2. /\ inner \in Clients /\ failover[w] \in Failovers /\ outcome[w] \in Outcomes
      /\ left[w] \in Option(Duration) /\ pc[w] = "after" /\ last[w] \in Own /\ last[w] # None
      /\ failover[w].pauses + 1 = failover[w].attempts
      /\ sent[w] \in Seq(Sends)
    BY LastAssumption DEF IInv, TypeOK, CallOK, Decide, LoopOK
<1>3. PolicyOf(w) \in Option(Policies) /\ failover[w].attempts <= MaxCount
    <2>1. failover[w].attempts <= Budget(w) /\ failover[w].attempts \in Nat
        BY <1>2 DEF IInv, BudgetOK, Failovers
    <2> QED BY <1>2, <2>1, BudgetType, MaxCountAssumption
<1>4. draw \in Draws
    BY DrawAssumption DEF Draws
<1>5. /\ step.pause = pause
      /\ step.stop = None <=> step.pause # None
      /\ step.stop \in {None, "Raw", "Exhausted"}
      /\ step.failover.attempts = failover[w].attempts
    BY <1>2, <1>3, <1>4, AfterDecides, AfterType DEF Steps
<1>6. step.stop # "Exhausted"
    <2>1. CASE outcome[w].kind = "Final"
        BY <2>1 DEF After, Halt
    <2>2. CASE outcome[w].kind # "Final"
        <3>1. /\ step.failover.trace = TraceOf(w, Len(sent[w]))
              /\ step.stop = "Exhausted" => Spent(step.failover) = "Exhausted"
            BY <1>2, <1>4, <2>2, DecidedRecord DEF RInv
        <3> HIDE DEF step
        <3> QED BY <1>2, <3>1, NeverSpent
    <2> QED BY <2>1, <2>2
<1>7. OneEndpoint!PauseFor(draw) = pause
    BY <1>2, SamePause
<1>8. /\ inner' = inner /\ request' = request /\ left' = left /\ last' = last
      /\ outcome' = outcome /\ failover'[w].attempts = failover[w].attempts
    BY <1>1, <1>5 DEF Decide, config, IInv, TypeOK
<1>9. /\ PhaseOf(w) = "answered"
      /\ ChoiceOf(inner, request[w])' = ChoiceOf(inner, request[w])
    BY <1>2, <1>8 DEF PhaseOf
<1>10. CASE pause = None
    <2>1. /\ result'[w] = ResultOf(step.stop, step.failover, last[w])
          /\ pc'[w] = "done" /\ nap' = nap
        BY <1>1, <1>5, <1>10 DEF IInv, TypeOK
    <2>2. PlainResult(w)' = last[w]
        <3> HIDE DEF step
        <3> QED BY <1>2, <1>6, <2>1 DEF PlainResult, ResultOf, Own
    <2>3. PhaseOf(w)' = "done"
        BY <2>1 DEF PhaseOf
    <2> HIDE DEF step, pause
    <2>4. OneEndpoint!Stop
        BY <1>2, <1>7, <1>8, <1>9, <1>10, <2>1, <2>2, <2>3 DEF OneEndpoint!Stop
    <2> QED BY <2>4
<1>11. CASE pause # None
    <2>1. nap'[w] = pause /\ pc'[w] = "sleeping" /\ result' = result
        BY <1>1, <1>5, <1>11 DEF IInv, TypeOK
    <2>2. PlainResult(w)' = PlainResult(w)
        BY <1>2, <2>1 DEF PlainResult
    <2>3. PhaseOf(w)' = "waiting"
        BY <2>1 DEF PhaseOf
    <2> HIDE DEF step, pause
    <2>4. OneEndpoint!TakePause
        BY <1>2, <1>7, <1>8, <1>9, <1>11, <2>1, <2>2, <2>3 DEF OneEndpoint!TakePause
    <2> QED BY <2>4
<1> QED BY <1>10, <1>11

LEMMA WakeRefines ==
    ASSUME IInv, NEW w \in Calls, w = Watched, Wake(w) \/ Drop(w)
    PROVE  OneEndpoint!Wake \/ OneEndpoint!Drop
<1>1. /\ inner' = inner /\ request' = request /\ left' = left /\ nap' = nap /\ last' = last
      /\ outcome' = outcome /\ failover' = failover /\ result' = result
      /\ \/ pc[w] = "sleeping" /\ nap[w] = 0 /\ pc'[w] = "begin"
         \/ pc[w] \in {"inflight", "body", "sleeping"} /\ pc'[w] = "dropped"
    BY DEF Wake, Drop, IInv, TypeOK, config, timers
<1>2. /\ PlainResult(w)' = PlainResult(w)
      /\ ChoiceOf(inner, request[w])' = ChoiceOf(inner, request[w])
    BY <1>1 DEF PlainResult
<1>3. CASE pc[w] = "sleeping" /\ nap[w] = 0 /\ pc'[w] = "begin"
    <2>1. PhaseOf(w) = "waiting" /\ PhaseOf(w)' = "ready"
        BY <1>3 DEF PhaseOf
    <2> QED BY <1>1, <1>2, <1>3, <2>1 DEF OneEndpoint!Wake
<1>4. CASE pc[w] \in {"inflight", "body", "sleeping"} /\ pc'[w] = "dropped"
    <2>1. PhaseOf(w) \in {"sending", "answered", "waiting"} /\ PhaseOf(w)' = "dropped"
        BY <1>4 DEF PhaseOf
    <2> QED BY <1>1, <1>2, <1>4, <2>1 DEF OneEndpoint!Drop
<1> QED BY <1>1, <1>3, <1>4

\* Time passes for the loop, unless none of its own timers runs.
LEMMA TickRefines ==
    ASSUME IInv, NEW w \in Calls, w = Watched, Tick
    PROVE  OneEndpoint!Tick \/ UNCHANGED OneEndpoint!vars
<1>1. /\ inner' = inner /\ request' = request /\ pc' = pc /\ last' = last
      /\ outcome' = outcome /\ failover' = failover /\ result' = result
      /\ left'[w] = IF Over(w) THEN left[w] ELSE Ticked(left[w])
      /\ nap'[w] = IF Over(w) THEN nap[w] ELSE Ticked(nap[w])
    BY DEF Tick, config, loop
<1>2. /\ PlainResult(w)' = PlainResult(w) /\ PhaseOf(w)' = PhaseOf(w)
      /\ ChoiceOf(inner, request[w])' = ChoiceOf(inner, request[w])
    BY <1>1 DEF PlainResult, PhaseOf
<1>3. Over(w) <=> OneEndpoint!Over
    BY DEF Over, OneEndpoint!Over, PhaseOf
<1>4. CASE Over(w) \/ {left[w], nap[w]} \ {None, 0} = {}
    <2>1. left'[w] = left[w] /\ nap'[w] = nap[w]
        BY <1>1, <1>4 DEF Ticked
    <2> QED BY <1>1, <1>2, <2>1, LoopStands
<1>5. CASE ~Over(w) /\ {left[w], nap[w]} \ {None, 0} # {}
    <2>1. left'[w] = Ticked(left[w]) /\ nap'[w] = Ticked(nap[w])
        BY <1>1, <1>5
    <2>2. OneEndpoint!Tick
        BY <1>1, <1>2, <1>3, <1>5, <2>1 DEF OneEndpoint!Tick, OneEndpoint!Ticked, Ticked
    <2> QED BY <2>2
<1> QED BY <1>4, <1>5

LEMMA StepRefines ==
    ASSUME IInv, RInv, inner.len = 1, None \in RetryAfters,
           NEW w \in Calls, w = Watched, LoopOK(w), Step(w)
    PROVE  OneEndpoint!Next \/ UNCHANGED OneEndpoint!vars
<1> USE DEF OneEndpoint!Next
<1>1. LoopOK(w)'
    BY StepLoops
<1>2. CASE Start(w)
    BY <1>2, StartRefines
<1>3. CASE Begin(w) \/ BeginTooLate(w)
    BY <1>3, BeginRefines, TooLateRefines
<1>4. CASE Send(w) \/ BodyRead(w)
    <2>1. /\ inner' = inner /\ request' = request /\ left' = left /\ nap' = nap /\ last' = last
          /\ outcome' = outcome /\ failover' = failover /\ result' = result
          /\ \/ pc[w] = "send" /\ pc'[w] = "inflight"
             \/ pc[w] = "body" /\ pc'[w] = "after"
        BY <1>4 DEF Send, BodyRead, IInv, TypeOK, config, timers
    <2>2. PhaseOf(w)' = PhaseOf(w)
        BY <2>1 DEF PhaseOf
    <2> QED BY <2>1, <2>2, LoopStands
<1>5. CASE Succeed(w)
    BY <1>5, SucceedRefines
<1>6. CASE Answer(w)
    BY <1>1, <1>6, AnswerRefines
<1>7. CASE Disconnect(w) \/ Expire(w) \/ OwnTimeout(w)
    BY <1>1, <1>4, <1>7, FailRefines DEF Disconnect, Expire, OwnTimeout
<1>8. CASE RefuseRedirect(w)
    BY <1>8 DEF RefuseRedirect
<1>9. CASE Decide(w)
    BY <1>9, DecideLoopRefines
<1>10. CASE Wake(w) \/ Drop(w)
    BY <1>10, WakeRefines
<1> QED BY <1>2, <1>3, <1>4, <1>5, <1>6, <1>7, <1>8, <1>9, <1>10 DEF Step, Run

\* The other calls run beside the loop.
LEMMA BesideTheLoop ==
    ASSUME IInv, NEW w \in Calls, w = Watched, NEW c \in Calls, c # w, Step(c)
    PROVE  UNCHANGED OneEndpoint!vars
<1>1. /\ inner' = inner
      /\ pc'[w] = pc[w] /\ request'[w] = request[w] /\ failover'[w] = failover[w]
      /\ last'[w] = last[w] /\ outcome'[w] = outcome[w] /\ result'[w] = result[w]
    BY InnerStands, OthersStand, OthersRest DEF Next
<1>2. left'[w] = left[w] /\ nap'[w] = nap[w]
    BY DEF IInv, TypeOK, Step, Run, Start, Begin, BeginTooLate, Send, Succeed, Answer, BodyRead,
           Disconnect, Expire, OwnTimeout, Fail, RefuseRedirect, Decide, Wake, Drop, timers
<1>3. PhaseOf(w)' = PhaseOf(w)
    BY <1>1 DEF PhaseOf
<1> QED BY <1>1, <1>2, <1>3, LoopStands

\* "With one endpoint every decision is exactly 0.2.0's": whatever its policy,
\* its requests and the answers it gets, and whatever other calls run beside
\* it, a call on a client with one endpoint is a behaviour of the loop that
\* src/retry.rs has its callers write.
THEOREM OneEndpointIsRetryLoop ==
    ASSUME \A cl \in Clients : cl.len = 1, Calls # {}, None \in RetryAfters
    PROVE  Spec => SingleEndpointBehaviour
<1>1. Watched \in Calls
    BY DEF Watched
<1>2. IInv => inner.len = 1
    BY DEF IInv, TypeOK
<1>3. Init => LoopInv /\ OneEndpoint!Init
    BY <1>1, Phases DEF Init, LoopInv, LoopOK, OneEndpoint!Init, PlainResult
<1>4. IInv /\ RInv /\ LoopInv /\ [Next]_vars => [OneEndpoint!Next]_(OneEndpoint!vars)
    <2> SUFFICES ASSUME IInv, RInv, LoopInv, [Next]_vars
                 PROVE  OneEndpoint!Next \/ UNCHANGED OneEndpoint!vars
        OBVIOUS
    <2>1. LoopOK(Watched)
        BY <1>1 DEF LoopInv
    <2>2. CASE Tick
        BY <1>1, <2>2, TickRefines DEF OneEndpoint!Next
    <2>3. CASE Terminated \/ UNCHANGED vars
        <3>1. UNCHANGED vars
            BY <2>3 DEF Terminated
        <3>2. PhaseOf(Watched)' = PhaseOf(Watched)
            BY <3>1 DEF vars, PhaseOf
        <3> QED BY <3>1, <3>2, LoopStands DEF vars
    <2>4. ASSUME NEW c \in Calls, Step(c)
          PROVE  OneEndpoint!Next \/ UNCHANGED OneEndpoint!vars
        BY <1>1, <1>2, <2>1, <2>4, StepRefines, BesideTheLoop
    <2> QED BY <2>2, <2>3, <2>4 DEF Next
<1>5. IInv /\ RInv /\ LoopInv /\ [Next]_vars => LoopInv'
    BY <1>2, LoopNext
<1> QED BY <1>3, <1>4, <1>5, RInductive, PTL
        DEF Spec, SingleEndpointBehaviour, OneEndpoint!Spec
================================================================================
