--------------------------- MODULE RetryPolicyProofs ---------------------------
(***************************************************************************)
(* What the retry rules return, for every policy, width and draw.  The     *)
(* backoff shifts a duration by Pow2[n], which is defined by recursion:    *)
(* its defining equation and its positivity come first, by an induction    *)
(* over Nat that rests on the pigeonhole principle.                        *)
(***************************************************************************)
EXTENDS RetryPolicy, FiniteSetTheorems, TLAPS

-----------------------------------------------------------------------------
(* Induction over Nat, for a set.  Were x missing from T, the function     *)
(* that moves the members of T up by one would map 0 .. x into 1 .. x      *)
(* without a collision.                                                    *)

LEMMA SetInduction ==
    ASSUME NEW T, 0 \in T, \A n \in Nat : n \in T => n + 1 \in T
    PROVE  \A n \in Nat : n \in T
<1> SUFFICES ASSUME NEW x \in Nat, x \notin T PROVE FALSE
    OBVIOUS
<1> DEFINE A == 0 .. x
           B == 1 .. x
           f == [k \in A |-> IF k \in T THEN k + 1 ELSE k]
<1>1. f \in [A -> B]
    <2> SUFFICES ASSUME NEW k \in A
                 PROVE  (IF k \in T THEN k + 1 ELSE k) \in B
        OBVIOUS
    <2>1. k = x => k \notin T
        OBVIOUS
    <2>2. k = 0 => k \in T
        OBVIOUS
    <2> QED BY <2>1, <2>2
<1>2. IsFiniteSet(A) /\ IsFiniteSet(B) /\ Cardinality(B) < Cardinality(A)
    <2>1. /\ IsFiniteSet(A) /\ Cardinality(A) = x + 1
          /\ IsFiniteSet(B) /\ Cardinality(B) = x
        BY FS_Interval
    <2> HIDE DEF A, B
    <2> QED BY <2>1
<1>3. PICK i \in A, j \in A : i # j /\ f[i] = f[j]
    <2> HIDE DEF f, A, B
    <2>1. \E i, j \in A : i # j /\ f[i] = f[j]
        BY <1>1, <1>2, FS_PigeonHole, Zenon
    <2> QED BY <2>1
<1> QED BY <1>3

-----------------------------------------------------------------------------
(* The recursive function Pow2.                                            *)

\* g is Pow2 as far as m.
PowersUpTo(g, m) ==
    /\ g \in [0 .. m -> Nat]
    /\ \A n \in 0 .. m : g[n] = IF n = 0 THEN 1 ELSE 2 * g[n - 1]

LEMMA PowersExist == \A m \in Nat : \E g : PowersUpTo(g, m)
<1> DEFINE T == {m \in Nat : \E g : PowersUpTo(g, m)}
<1>1. 0 \in T
    <2>1. PowersUpTo([n \in 0 .. 0 |-> 1], 0)
        BY DEF PowersUpTo
    <2> QED BY <2>1
<1>2. ASSUME NEW m \in Nat, m \in T PROVE m + 1 \in T
    <2>1. PICK g : PowersUpTo(g, m)
        BY <1>2
    <2>2. PowersUpTo([n \in 0 .. m + 1 |-> IF n = m + 1 THEN 2 * g[m] ELSE g[n]], m + 1)
        BY <2>1 DEF PowersUpTo
    <2> QED BY <2>2
<1> HIDE DEF T
<1>3. \A m \in Nat : m \in T
    BY <1>1, <1>2, SetInduction
<1> QED BY <1>3 DEF T

LEMMA PowersAgree ==
    ASSUME NEW m \in Nat, NEW k \in Nat, NEW g, NEW h,
           PowersUpTo(g, m), PowersUpTo(h, k)
    PROVE  \A n \in Nat : n <= m /\ n <= k => g[n] = h[n]
<1> DEFINE T == {n \in Nat : n <= m /\ n <= k => g[n] = h[n]}
<1>1. 0 \in T
    BY DEF PowersUpTo
<1>2. ASSUME NEW n \in Nat, n \in T PROVE n + 1 \in T
    BY <1>2 DEF PowersUpTo
<1> HIDE DEF T
<1>3. \A n \in Nat : n \in T
    BY <1>1, <1>2, SetInduction
<1> QED BY <1>3 DEF T

\* Pow2 satisfies its own definition.
LEMMA Pow2Equation ==
    Pow2 = [n \in Nat |-> IF n = 0 THEN 1 ELSE 2 * Pow2[n - 1]]
<1> DEFINE G(n) == CHOOSE g : PowersUpTo(g, n)
           F == [n \in Nat |-> G(n)[n]]
<1>1. ASSUME NEW n \in Nat PROVE PowersUpTo(G(n), n)
    BY PowersExist
<1> HIDE DEF G
<1>2. ASSUME NEW n \in Nat PROVE F[n] = IF n = 0 THEN 1 ELSE 2 * F[n - 1]
    <2>1. CASE n = 0
        BY <1>1, <2>1 DEF PowersUpTo
    <2>2. CASE n # 0
        <3>1. n - 1 \in Nat
            BY <2>2
        <3>2. PowersUpTo(G(n), n) /\ PowersUpTo(G(n - 1), n - 1)
            BY <1>1, <3>1
        <3>3. G(n)[n - 1] = G(n - 1)[n - 1]
            BY <3>1, <3>2, PowersAgree
        <3>4. F[n] = G(n)[n] /\ F[n - 1] = G(n - 1)[n - 1]
            BY <3>1
        <3>5. G(n)[n] = 2 * G(n)[n - 1]
            BY <2>2, <3>2 DEF PowersUpTo
        <3> QED BY <2>2, <3>3, <3>4, <3>5
    <2> QED BY <2>1, <2>2
<1>3. F = [n \in Nat |-> IF n = 0 THEN 1 ELSE 2 * F[n - 1]]
    BY <1>2
<1> HIDE DEF F
<1> QED BY <1>3, Zenon DEF Pow2

LEMMA Pow2Positive == \A n \in Nat : Pow2[n] \in Nat \ {0}
<1> DEFINE T == {n \in Nat : Pow2[n] \in Nat \ {0}}
<1>1. 0 \in T
    BY Pow2Equation
<1>2. ASSUME NEW n \in Nat, n \in T PROVE n + 1 \in T
    <2>1. Pow2[n + 1] = 2 * Pow2[n]
        BY Pow2Equation
    <2> QED BY <1>2, <2>1
<1> HIDE DEF T
<1>3. \A n \in Nat : n \in T
    BY <1>1, <1>2, SetInduction
<1> QED BY <1>3 DEF T

-----------------------------------------------------------------------------
(* The rules.                                                              *)

LEMMA DurationMsType ==
    ASSUME NEW d \in Duration
    PROVE  DurationMs(d) \in Nat /\ FromMillis(DurationMs(d)) <= d
<1>1. MaxInt \in Nat
    BY WidthAssumption, Pow2Positive DEF MaxInt
<1>2. /\ d \div TicksPerMs \in Nat
      /\ (d \div TicksPerMs) * TicksPerMs <= d
    BY TicksAssumption DEF Duration
<1>3. ASSUME NEW m \in Nat, m <= d \div TicksPerMs
      PROVE  m * TicksPerMs <= d
    BY <1>2, <1>3, TicksAssumption DEF Duration
<1> QED BY <1>1, <1>2, <1>3 DEF DurationMs, FromMillis, Least

\* The ceiling never exceeds max_delay, and saturation never makes it
\* negative.
LEMMA CeilingType ==
    ASSUME NEW policy \in Policies, NEW attempt \in Nat
    PROVE  /\ CeilingMs(policy, attempt) \in Nat
           /\ CeilingMs(policy, attempt) <= DurationMs(policy.max_delay)
<1> DEFINE e == Least(Greatest(attempt - 1, 0), Width - 1)
<1>1. e \in Nat
    BY WidthAssumption DEF Least, Greatest
<1>2. Pow2[e] \in Nat
    BY <1>1, Pow2Positive
<1>3. DurationMs(policy.base_delay) \in Nat /\ DurationMs(policy.max_delay) \in Nat
    BY DurationMsType DEF Policies
<1>4. MaxInt \in Nat
    BY WidthAssumption, Pow2Positive DEF MaxInt
<1> DEFINE p == SaturatingMul(DurationMs(policy.base_delay), Pow2[e])
<1>5. p \in Nat
    <2>1. DurationMs(policy.base_delay) * Pow2[e] \in Nat
        BY <1>2, <1>3
    <2> QED BY <1>4, <2>1 DEF SaturatingMul, Least
<1>6. CeilingMs(policy, attempt) = Least(p, DurationMs(policy.max_delay))
    BY DEF CeilingMs
<1> HIDE DEF p
<1> QED BY <1>3, <1>5, <1>6 DEF Least

\* A draw stays under DRAW_MAX, so jitter adds at most the whole span.
LEMMA SpreadType ==
    ASSUME NEW span \in Nat, NEW draw \in Draws
    PROVE  Spread(span, draw) \in Nat /\ Spread(span, draw) <= span
<1>1. Clamped(draw) \in 0 .. DrawDen - 1
    BY DrawAssumption DEF Clamped, Draws, Least, Greatest
<1>2. span * Clamped(draw) \in Nat
    BY <1>1
<1>3. (span * Clamped(draw)) \div DrawDen \in Nat
    BY <1>2, DrawAssumption
<1> QED BY <1>3 DEF Spread, Least

LEMMA FitsBeforeKeeps ==
    ASSUME NEW pause \in Duration, NEW remaining \in Option(Duration)
    PROVE  \/ FitsBefore(pause, remaining) = None
           \/ /\ FitsBefore(pause, remaining) = pause
              /\ remaining # None => pause < remaining
    BY DEF FitsBefore, Option, Duration

\* RetryPolicy::pause: whatever the draw, the width and the attempt, a pause
\* that is taken lies between the jitter's floor, the lesser of base_delay
\* and the ceiling, and the ceiling, and ends before the deadline; without
\* jitter it is the ceiling.
THEOREM PauseWithinBounds ==
    ASSUME NEW policy \in Policies, NEW attempt \in Nat, NEW draw \in Draws,
           NEW remaining \in Option(Duration),
           Pause(policy, attempt, draw, remaining) # None
    PROVE  LET pause == Pause(policy, attempt, draw, remaining)
               floor == Least(DurationMs(policy.base_delay), CeilingMs(policy, attempt))
           IN  /\ pause \in Duration
               /\ FromMillis(floor) <= pause
               /\ pause <= BackoffDelay(policy, attempt)
               /\ policy.jitter = "None" => pause = BackoffDelay(policy, attempt)
               /\ remaining # None => pause < remaining
<1> DEFINE ceiling == CeilingMs(policy, attempt)
           base    == DurationMs(policy.base_delay)
           floor   == Least(base, ceiling)
           ms      == IF policy.jitter = "None" THEN ceiling
                      ELSE floor + Spread(ceiling - floor, draw)
<1>1. ceiling \in Nat /\ base \in Nat
    BY CeilingType, DurationMsType DEF Policies
<1>2. Pause(policy, attempt, draw, remaining) = FitsBefore(FromMillis(ms), remaining)
    BY DEF Pause
<1>3. BackoffDelay(policy, attempt) = FromMillis(ceiling)
    BY DEF BackoffDelay
<1> HIDE DEF ceiling, base
<1>4. floor \in Nat /\ floor <= ceiling
    BY <1>1 DEF Least
<1> HIDE DEF floor
<1>5. Spread(ceiling - floor, draw) \in Nat /\ Spread(ceiling - floor, draw) <= ceiling - floor
    <2>1. ceiling - floor \in Nat
        BY <1>1, <1>4
    <2> QED BY <2>1, SpreadType
<1>6. ms \in Nat /\ floor <= ms /\ ms <= ceiling
    BY <1>1, <1>4, <1>5
<1>7. policy.jitter = "None" => ms = ceiling
    OBVIOUS
<1> HIDE DEF ms
<1>8. /\ FromMillis(ms) \in Duration
      /\ FromMillis(floor) <= FromMillis(ms)
      /\ FromMillis(ms) <= FromMillis(ceiling)
    BY <1>1, <1>4, <1>6, TicksAssumption DEF FromMillis, Duration
<1> HIDE DEF FromMillis
<1>9. /\ Pause(policy, attempt, draw, remaining) = FromMillis(ms)
      /\ remaining # None => FromMillis(ms) < remaining
    BY <1>2, <1>8, FitsBeforeKeeps
<1> QED BY <1>3, <1>7, <1>8, <1>9 DEF floor, base, ceiling

LEMMA PauseType ==
    ASSUME NEW policy \in Policies, NEW attempt \in Nat, NEW draw \in Draws,
           NEW remaining \in Option(Duration)
    PROVE  Pause(policy, attempt, draw, remaining) \in Option(Duration)
    BY PauseWithinBounds DEF Option

\* RetryPolicy::next_pause: it grants a pause only within max_attempts, and
\* only one that ends before the deadline, the server's own included.
THEOREM NextPauseIsWithinBudget ==
    ASSUME NEW policy \in Policies, NEW attempt \in Nat, NEW draw \in Draws,
           NEW retryAfter \in Option(Duration), NEW remaining \in Option(Duration),
           NextPause(policy, attempt, draw, retryAfter, remaining) # None
    PROVE  /\ ShouldRetry(policy, attempt)
           /\ NextPause(policy, attempt, draw, retryAfter, remaining) \in Duration
           /\ remaining # None =>
                  NextPause(policy, attempt, draw, retryAfter, remaining) < remaining
<1>1. ShouldRetry(policy, attempt)
    BY DEF NextPause
<1>2. CASE retryAfter # None
    <2>1. retryAfter \in Duration
        BY <1>2 DEF Option
    <2>2. NextPause(policy, attempt, draw, retryAfter, remaining)
              = FitsBefore(retryAfter, remaining)
        BY <1>1, <1>2 DEF NextPause
    <2> QED BY <1>1, <2>1, <2>2, FitsBeforeKeeps
<1>3. CASE retryAfter = None
    <2>1. NextPause(policy, attempt, draw, retryAfter, remaining)
              = Pause(policy, attempt, draw, remaining)
        BY <1>1, <1>3 DEF NextPause
    <2> QED BY <1>1, <2>1, PauseWithinBounds
<1> QED BY <1>2, <1>3

\* backoff_delay: the schedule never shrinks from one attempt to the next,
\* through the clamp of the exponent, the saturation and the cap.
THEOREM BackoffNeverShrinks ==
    ASSUME NEW policy \in Policies, NEW attempt \in Nat
    PROVE  BackoffDelay(policy, attempt) <= BackoffDelay(policy, attempt + 1)
<1> DEFINE e(a) == Least(Greatest(a - 1, 0), Width - 1)
           base == DurationMs(policy.base_delay)
           most == DurationMs(policy.max_delay)
<1>1. base \in Nat /\ most \in Nat
    BY DurationMsType DEF Policies
<1>2. MaxInt \in Nat
    BY WidthAssumption, Pow2Positive DEF MaxInt
<1>3. /\ e(attempt) \in Nat
      /\ e(attempt + 1) \in {e(attempt), e(attempt) + 1}
    BY WidthAssumption DEF Least, Greatest
<1>4. /\ Pow2[e(attempt)] \in Nat
      /\ Pow2[e(attempt + 1)] \in Nat
      /\ Pow2[e(attempt)] <= Pow2[e(attempt + 1)]
    <2> HIDE DEF e
    <2>1. Pow2[e(attempt)] \in Nat /\ Pow2[e(attempt) + 1] = 2 * Pow2[e(attempt)]
        BY <1>3, Pow2Positive, Pow2Equation
    <2> QED BY <1>3, <2>1
<1>5. /\ CeilingMs(policy, attempt) = Least(SaturatingMul(base, Pow2[e(attempt)]), most)
      /\ CeilingMs(policy, attempt + 1) = Least(SaturatingMul(base, Pow2[e(attempt + 1)]), most)
    BY DEF CeilingMs
<1> HIDE DEF e, base, most
<1>6. ASSUME NEW p \in Nat, NEW q \in Nat, p <= q PROVE base * p <= base * q
    BY <1>1, <1>6
<1>7. /\ base * Pow2[e(attempt)] \in Nat
      /\ base * Pow2[e(attempt + 1)] \in Nat
      /\ base * Pow2[e(attempt)] <= base * Pow2[e(attempt + 1)]
    BY <1>1, <1>4, <1>6
<1>8. CeilingMs(policy, attempt) <= CeilingMs(policy, attempt + 1)
    BY <1>1, <1>2, <1>5, <1>7 DEF SaturatingMul, Least
<1>9. CeilingMs(policy, attempt) \in Nat /\ CeilingMs(policy, attempt + 1) \in Nat
    BY CeilingType
<1> QED BY <1>8, <1>9, TicksAssumption DEF BackoffDelay, FromMillis

\* attempt_timeout: with a deadline an attempt always gets a timeout, which
\* never exceeds the time remaining when it was computed, nor the timeout
\* configured for it.
THEOREM AttemptTimeoutWithinRemaining ==
    ASSUME NEW request \in Option(Duration), NEW clientAttempt \in Option(Duration),
           NEW builder \in Option(Duration), NEW remaining \in Duration
    PROVE  LET timeout    == AttemptTimeout(request, clientAttempt, builder, remaining)
               configured == Or(Or(request, clientAttempt), builder)
           IN  /\ timeout \in Duration
               /\ timeout <= remaining
               /\ configured # None => timeout <= configured
    BY NoneAssumption DEF AttemptTimeout, Or, Option, Least, Duration
================================================================================
