----------------------------- MODULE BackoffProofs -----------------------------
(***************************************************************************)
(* What src/retry.rs says of the pauses of a call to one endpoint, for     *)
(* every policy, width, draw, Retry-After and deadline, of policies in     *)
(* whole milliseconds that the machine integer can hold.                   *)
(***************************************************************************)
EXTENDS Backoff, RetryPolicyProofs, SequenceTheorems

\* A policy of whole milliseconds, its cap within the largest shift of 1.  In
\* 64 bits that is 292 million years.
IsWhole(policy) ==
    \E base, cap \in Nat :
        /\ policy.base_delay = FromMillis(base)
        /\ policy.max_delay = FromMillis(cap)
        /\ cap <= Pow2[Width - 1]

WholePolicies == \A ch \in Choices : ch.policy # None => IsWhole(ch.policy)

\* The schedule in closed form, after n pauses.
Scheduled(policy, n) == Least(policy.base_delay * Pow2[n], policy.max_delay)

FloorOf(policy) == Least(policy.base_delay, policy.max_delay)

-----------------------------------------------------------------------------
(* The ceiling of whole milliseconds is the schedule's.                    *)

LEMMA Pow2Grows == \A n, k \in Nat : Pow2[n] <= Pow2[n + k]
<1> DEFINE T == {k \in Nat : \A n \in Nat : Pow2[n] <= Pow2[n + k]}
<1>1. 0 \in T
    BY Pow2Positive
<1>2. ASSUME NEW k \in Nat, k \in T PROVE k + 1 \in T
    <2> SUFFICES ASSUME NEW n \in Nat PROVE Pow2[n] <= Pow2[n + (k + 1)]
        OBVIOUS
    <2>1. n + (k + 1) \in Nat /\ n + (k + 1) # 0 /\ (n + (k + 1)) - 1 = n + k
        OBVIOUS
    <2>2. Pow2[n + (k + 1)] = 2 * Pow2[n + k]
        BY <2>1, Pow2Equation
    <2>3. Pow2[n] <= Pow2[n + k] /\ Pow2[n + k] \in Nat /\ Pow2[n] \in Nat
        BY <1>2, Pow2Positive
    <2> QED BY <2>2, <2>3
<1> HIDE DEF T
<1>3. \A k \in Nat : k \in T
    BY <1>1, <1>2, SetInduction
<1> QED BY <1>3 DEF T

LEMMA WholeMs ==
    ASSUME NEW k \in Nat
    PROVE  DurationMs(FromMillis(k)) = Least(k, MaxInt)
<1>1. (k * TicksPerMs) \div TicksPerMs = k
    <2> DEFINE q == (k * TicksPerMs) \div TicksPerMs
    <2>1. q * TicksPerMs <= k * TicksPerMs /\ k * TicksPerMs < (q + 1) * TicksPerMs /\ q \in Int
        BY TicksAssumption
    <2> HIDE DEF q
    <2>2. ~(q < k) /\ ~(k < q)
        <3>1. ASSUME q + 1 <= k PROVE FALSE
            <4>1. (q + 1) * TicksPerMs <= k * TicksPerMs
                BY <2>1, <3>1, TicksAssumption
            <4> QED BY <2>1, <4>1, TicksAssumption
        <3>2. ASSUME k + 1 <= q PROVE FALSE
            <4>1. (k + 1) * TicksPerMs <= q * TicksPerMs
                BY <2>1, <3>2, TicksAssumption
            <4> QED BY <2>1, <4>1, TicksAssumption
        <3> QED BY <2>1, <3>1, <3>2
    <2> QED BY <2>1, <2>2 DEF q
<1> QED BY <1>1 DEF DurationMs, FromMillis

\* The largest shift of 1 is a machine integer.
LEMMA WidthHolds ==
    /\ MaxInt \in Nat \ {0} /\ Pow2[Width - 1] \in Nat \ {0}
    /\ Pow2[Width - 1] <= MaxInt
<1>1. Width - 1 \in Nat /\ Pow2[Width] = 2 * Pow2[Width - 1]
    BY WidthAssumption, Pow2Equation
<1>2. Pow2[Width - 1] \in Nat \ {0}
    BY <1>1, Pow2Positive
<1> QED BY <1>1, <1>2 DEF MaxInt

\* A product with something positive is no less.
LEMMA TimesGrows ==
    ASSUME NEW a \in Nat, NEW p \in Nat \ {0}
    PROVE  a * p \in Nat /\ a <= a * p
<1>1. a * p = a + a * (p - 1) /\ a * (p - 1) \in Nat
    OBVIOUS
<1> QED BY <1>1

LEMMA WholeCeiling ==
    ASSUME NEW policy, NEW base \in Nat, NEW cap \in Nat, cap <= Pow2[Width - 1],
           policy.base_delay = FromMillis(base), policy.max_delay = FromMillis(cap),
           NEW n \in Nat
    PROVE  CeilingMs(policy, n + 1) = Least(base * Pow2[n], cap)
<1> DEFINE P == Pow2[n]
           e == Least(n, Width - 1)
           Q == Pow2[e]
           W == Pow2[Width - 1]
           b == Least(base, MaxInt)
<1> SUFFICES CeilingMs(policy, n + 1) = Least(base * P, cap)
    OBVIOUS
<1>1. /\ W \in Nat \ {0} /\ MaxInt \in Nat \ {0} /\ W <= MaxInt /\ Width - 1 \in Nat
      /\ P \in Nat \ {0}
    BY WidthHolds, Pow2Positive, WidthAssumption
<1>2. e \in Nat /\ Q \in Nat \ {0}
    <2>1. e \in Nat
        BY <1>1 DEF Least
    <2> QED BY <2>1, Pow2Positive
<1>3. CeilingMs(policy, n + 1) = Least(Least(b * Q, MaxInt), cap)
    <2>1. DurationMs(policy.base_delay) = b
        BY WholeMs
    <2>2. DurationMs(policy.max_delay) = cap
        <3>1. DurationMs(policy.max_delay) = Least(cap, MaxInt)
            BY WholeMs
        <3> QED BY <1>1, <3>1 DEF Least
    <2>3. Greatest((n + 1) - 1, 0) = n
        BY DEF Greatest
    <2> QED BY <2>1, <2>2, <2>3 DEF CeilingMs, SaturatingMul
<1>4. CASE base = 0
    <2>1. b = 0
        BY <1>1, <1>4 DEF Least
    <2>2. b * Q = 0 /\ base * P = 0
        BY <1>1, <1>2, <1>4, <2>1
    <2> HIDE DEF b, P, Q
    <2> QED BY <1>1, <1>3, <2>2 DEF Least
<1>5. CASE base > MaxInt
    <2>1. b = MaxInt
        BY <1>1, <1>5 DEF Least
    <2>2. MaxInt * Q \in Nat /\ MaxInt <= MaxInt * Q /\ base * P \in Nat /\ base <= base * P
        BY <1>1, <1>2, TimesGrows
    <2> HIDE DEF b, P, Q, W
    <2>3. cap <= MaxInt
        BY <1>1 DEF W
    <2> QED BY <1>1, <1>3, <1>5, <2>1, <2>2, <2>3 DEF Least
<1>6. CASE base # 0 /\ ~(base > MaxInt) /\ n <= Width - 1
    <2>1. b = base /\ e = n
        BY <1>1, <1>6 DEF Least
    <2>2. base * P \in Nat
        BY <1>1
    <2>3. cap <= MaxInt
        BY <1>1
    <2>4. CeilingMs(policy, n + 1) = Least(Least(base * P, MaxInt), cap)
        BY <1>3, <2>1
    <2> HIDE DEF P
    <2> QED BY <1>1, <2>2, <2>3, <2>4 DEF Least
<1>7. CASE base # 0 /\ ~(base > MaxInt) /\ ~(n <= Width - 1)
    <2>1. b = base /\ e = Width - 1
        BY <1>1, <1>7 DEF Least
    <2>2. W <= P
        <3>1. n - (Width - 1) \in Nat /\ (Width - 1) + (n - (Width - 1)) = n
            BY <1>1, <1>7
        <3> QED BY <1>1, <3>1, Pow2Grows
    <2>3. /\ W * base \in Nat /\ W <= W * base /\ W * base = base * W
          /\ P * base \in Nat /\ P <= P * base /\ P * base = base * P
        BY <1>1, <1>7, TimesGrows
    <2>4. CeilingMs(policy, n + 1) = Least(Least(base * W, MaxInt), cap)
        BY <1>3, <2>1
    <2> HIDE DEF P, W
    <2>5. cap <= W
        BY DEF W
    <2> QED BY <1>1, <2>2, <2>3, <2>4, <2>5 DEF Least
<1> QED BY <1>4, <1>5, <1>6, <1>7

\* Scaling by the ticks of a millisecond keeps an order.
LEMMA LeastScales ==
    ASSUME NEW a \in Nat, NEW b \in Nat
    PROVE  FromMillis(Least(a, b)) = Least(FromMillis(a), FromMillis(b))
<1>1. CASE a <= b
    <2>1. a * TicksPerMs <= b * TicksPerMs
        BY <1>1, TicksAssumption
    <2> QED BY <1>1, <2>1 DEF FromMillis, Least
<1>2. CASE ~(a <= b)
    <2>1. (b + 1) * TicksPerMs <= a * TicksPerMs
        BY <1>2, TicksAssumption
    <2>2. ~(a * TicksPerMs <= b * TicksPerMs)
        BY <2>1, TicksAssumption
    <2> QED BY <1>2, <2>2 DEF FromMillis, Least
<1> QED BY <1>1, <1>2

\* RetryPolicy::pause, of whole milliseconds: the schedule, or a draw between
\* its floor and the schedule.
LEMMA WholePause ==
    ASSUME NEW policy \in Policies, IsWhole(policy), NEW n \in Nat, NEW draw \in Draws,
           NEW remaining \in Option(Duration),
           Pause(policy, n + 1, draw, remaining) # None
    PROVE  LET pause == Pause(policy, n + 1, draw, remaining)
           IN  /\ pause \in Nat
               /\ FloorOf(policy) <= pause
               /\ pause <= Scheduled(policy, n)
               /\ policy.jitter = "None" => pause = Scheduled(policy, n)
               /\ remaining # None => pause < remaining
<1>1. PICK base \in Nat, cap \in Nat : /\ policy.base_delay = FromMillis(base)
                                       /\ policy.max_delay = FromMillis(cap)
                                       /\ cap <= Pow2[Width - 1]
    BY DEF IsWhole
<1>2. Pow2[n] \in Nat \ {0} /\ base * Pow2[n] \in Nat /\ base <= base * Pow2[n]
    <2>1. Pow2[n] \in Nat \ {0}
        BY Pow2Positive
    <2> QED BY <2>1, TimesGrows
<1>3. BackoffDelay(policy, n + 1) = Scheduled(policy, n)
    <2>1. CeilingMs(policy, n + 1) = Least(base * Pow2[n], cap)
        BY <1>1, WholeCeiling
    <2>2. FromMillis(base * Pow2[n]) = policy.base_delay * Pow2[n]
        BY <1>1, <1>2, TicksAssumption DEF FromMillis
    <2> QED BY <1>1, <1>2, <2>1, <2>2, LeastScales DEF BackoffDelay, Scheduled
<1> DEFINE floor == Least(DurationMs(policy.base_delay), CeilingMs(policy, n + 1))
<1>4. FromMillis(floor) = FloorOf(policy)
    <2>1. CeilingMs(policy, n + 1) = Least(base * Pow2[n], cap)
        BY <1>1, WholeCeiling
    <2>2. DurationMs(policy.base_delay) = Least(base, MaxInt)
        BY <1>1, WholeMs
    <2>3. cap <= MaxInt /\ MaxInt \in Nat
        BY <1>1, WidthHolds
    <2>4. floor = Least(base, cap)
        BY <1>2, <2>1, <2>2, <2>3 DEF Least
    <2> HIDE DEF floor
    <2> QED BY <1>1, <2>4, LeastScales DEF FloorOf
<1>5. n + 1 \in Nat
    OBVIOUS
<1> HIDE DEF floor
<1>6. LET pause == Pause(policy, n + 1, draw, remaining)
      IN  /\ pause \in Duration
          /\ FromMillis(floor) <= pause
          /\ pause <= BackoffDelay(policy, n + 1)
          /\ policy.jitter = "None" => pause = BackoffDelay(policy, n + 1)
          /\ remaining # None => pause < remaining
    BY <1>5, PauseWithinBounds DEF floor
<1> QED BY <1>3, <1>4, <1>6 DEF Duration

-----------------------------------------------------------------------------
(* The recursive function Doubling.                                        *)

LEMMA DoublingIsScheduled ==
    ASSUME Policy \in Policies
    PROVE  \A n \in Nat : Least(Doubling[n], Policy.max_delay) = Scheduled(Policy, n)
<1> DEFINE base == Policy.base_delay
           cap  == Policy.max_delay
           F == [n \in Nat |-> IF n = 0 THEN base ELSE Least(base * Pow2[n], cap)]
<1>1. base \in Nat /\ cap \in Nat
    BY DEF Policies, Duration
<1>2. Pow2[0] = 1 /\ \A n \in Nat : Pow2[n + 1] = 2 * Pow2[n] /\ Pow2[n] \in Nat \ {0}
    <2>1. \A n \in Nat : n + 1 # 0 /\ (n + 1) - 1 = n /\ n + 1 \in Nat
        OBVIOUS
    <2> QED BY <2>1, Pow2Equation, Pow2Positive
<1> HIDE DEF base, cap
<1>3. ASSUME NEW n \in Nat, n # 0
      PROVE  Least(2 * (IF n = 1 THEN base ELSE Least(base * Pow2[n - 1], cap)), cap)
             = Least(base * Pow2[n], cap)
    <2> DEFINE p == Pow2[n - 1]
    <2>1. p \in Nat \ {0} /\ Pow2[n] = 2 * p
        <3>1. n - 1 \in Nat /\ (n - 1) + 1 = n
            BY <1>3
        <3> QED BY <1>2, <3>1
    <2>2. base * Pow2[n] = 2 * (base * p) /\ base * p \in Nat
        BY <1>1, <2>1
    <2>3. n = 1 => base * p = base
        BY <1>1, <1>2
    <2> DEFINE m == base * p
    <2> HIDE DEF p, m
    <2>4. Least(2 * (IF n = 1 THEN base ELSE Least(m, cap)), cap) = Least(2 * m, cap)
        BY <1>1, <2>2, <2>3 DEF Least, m
    <2> QED BY <2>2, <2>4 DEF m, p
<1>4. F = [n \in Nat |-> IF n = 0 THEN base ELSE Least(2 * F[n - 1], cap)]
    <2> SUFFICES ASSUME NEW n \in Nat, n # 0
                 PROVE  Least(base * Pow2[n], cap) = Least(2 * F[n - 1], cap)
        OBVIOUS
    <2>1. n - 1 \in Nat /\ (n - 1 = 0 <=> n = 1)
        OBVIOUS
    <2>2. F[n - 1] = IF n = 1 THEN base ELSE Least(base * Pow2[n - 1], cap)
        BY <2>1
    <2> QED BY <1>3, <2>2
<1> HIDE DEF F
<1>5. Doubling = [n \in Nat |-> IF n = 0 THEN base ELSE Least(2 * Doubling[n - 1], cap)]
    BY <1>4, Zenon DEF Doubling, base, cap
<1> DEFINE T == {n \in Nat : Doubling[n] = IF n = 0 THEN base ELSE Least(base * Pow2[n], cap)}
<1>6. 0 \in T
    BY <1>5
<1>7. ASSUME NEW n \in Nat, n \in T PROVE n + 1 \in T
    <2>1. n + 1 \in Nat /\ n + 1 # 0 /\ (n + 1) - 1 = n /\ (n + 1 = 1 <=> n = 0)
        OBVIOUS
    <2>2. Doubling[n + 1] = Least(2 * Doubling[n], cap)
        BY <1>5, <2>1
    <2>3. Doubling[n] = IF n + 1 = 1 THEN base ELSE Least(base * Pow2[(n + 1) - 1], cap)
        BY <1>7, <2>1
    <2>4. Doubling[n + 1] = Least(base * Pow2[n + 1], cap)
        BY <1>3, <2>1, <2>2, <2>3
    <2> QED BY <2>1, <2>4
<1> HIDE DEF T
<1>8. \A n \in Nat : n \in T
    BY <1>6, <1>7, SetInduction
<1> SUFFICES ASSUME NEW n \in Nat
             PROVE  Least(Doubling[n], cap) = Least(base * Pow2[n], cap)
    BY DEF Scheduled, base, cap
<1>9. Doubling[n] = IF n = 0 THEN base ELSE Least(base * Pow2[n], cap)
    BY <1>8 DEF T
<1>10. base * Pow2[n] \in Nat
    BY <1>1, <1>2
<1>11. n = 0 => base * Pow2[n] = base
    BY <1>1, <1>2
<1> QED BY <1>1, <1>9, <1>10, <1>11 DEF Least

-----------------------------------------------------------------------------
(* The inductive invariant: the pauses taken are as many as the attempts   *)
(* they came after, each is what the policy allows, and the time they took *)
(* has gone from the deadline.                                             *)

Phases == {"idle", "ready", "sending", "answered", "waiting", "done", "dropped"}

CallTyped ==
    /\ phase \in Phases
    /\ phase = "idle" => choice = None /\ waits = << >>
    /\ phase # "idle" => choice \in Choices
    /\ phase = "answered" => retryAfter \in Option(Duration)
    /\ nap \in Nat
    /\ left \in Option(Nat)

Counted ==
    /\ waits \in Seq([length : Nat, asked : Option(Duration)])
    /\ waits # << >> => choice.policy # None
    /\ phase \in {"idle", "ready", "waiting"} => attempts = Len(waits)
    /\ phase \in {"sending", "answered"} => attempts = Len(waits) + 1
    /\ phase \in {"idle", "ready", "sending", "answered"} => nap = 0

PausesOK ==
    \A i \in Computed :
        /\ FloorOf(Policy) <= waits[i].length
        /\ waits[i].length <= Scheduled(Policy, i - 1)
        /\ Policy.jitter = "None" => waits[i].length = Scheduled(Policy, i - 1)

\* The pauses, each at least the floor, and what is left of the deadline.
DeadlineOK ==
    choice # None /\ choice.deadline # None =>
        /\ left \in Nat
        /\ nap <= left
        /\ left - nap <= choice.deadline
        /\ waits # << >> /\ Computed = DOMAIN waits =>
              /\ Len(waits) * FloorOf(Policy) + (left - nap) <= choice.deadline
              /\ Len(waits) * FloorOf(Policy) < choice.deadline

BackoffOK == CallTyped /\ Counted /\ PausesOK /\ DeadlineOK

LEMMA ChoicesTyped ==
    ASSUME NEW ch \in Choices
    PROVE  ch.policy \in Option(Policies) /\ ch.deadline \in Option(Nat)
    BY ChoicesAssumption DEF ChoiceType, Duration, Option

LEMMA PolicyTyped ==
    ASSUME BackoffOK, WholePolicies, phase # "idle", choice.policy # None
    PROVE  /\ Policy \in Policies /\ IsWhole(Policy)
           /\ FloorOf(Policy) \in Nat
<1>1. choice \in Choices /\ Policy \in Policies
    BY ChoicesTyped DEF BackoffOK, CallTyped, Policy, Option
<1>2. IsWhole(Policy)
    BY <1>1 DEF WholePolicies, Policy
<1> QED BY <1>1, <1>2 DEF FloorOf, Least, Policies, Duration

\* A step that takes no pause and leaves time alone.
LEMMA NoPause ==
    ASSUME BackoffOK, waits' = waits, UNCHANGED <<choice, nap, left>>
    PROVE  PausesOK' /\ DeadlineOK'
    BY DEF BackoffOK, PausesOK, DeadlineOK, Computed, Policy, FloorOf, Scheduled

LEMMA TickKeeps ==
    ASSUME BackoffOK, Tick, waits' = waits
    PROVE  BackoffOK'
<1> USE DEF BackoffOK
<1>1. /\ nap \in Nat /\ left \in Option(Nat) /\ None \notin Nat
      /\ UNCHANGED <<choice, phase, attempts, retryAfter>>
    BY NoneAssumption DEF CallTyped, Tick
<1>2. /\ nap' = IF nap = 0 THEN 0 ELSE nap - 1
      /\ left' = IF left \in {None, 0} THEN left ELSE left - 1
    BY <1>1 DEF Tick, Ticked
<1>3. nap' \in Nat /\ left' \in Option(Nat) /\ (nap = 0 => nap' = 0)
    BY <1>1, <1>2 DEF Option
<1>4. CallTyped'
    BY <1>1, <1>3 DEF CallTyped
<1>5. Counted'
    BY <1>1, <1>3 DEF Counted
<1>6. PausesOK'
    BY <1>1 DEF PausesOK, Computed, Policy, FloorOf, Scheduled
<1>7. ASSUME choice # None, choice.deadline # None PROVE DeadlineOK'
    <2>1. left \in Nat /\ nap <= left /\ left - nap <= choice.deadline
        BY <1>7 DEF DeadlineOK
    <2>2. left' \in Nat /\ nap' <= left' /\ left' - nap' <= left - nap
        BY <1>1, <1>2, <2>1
    <2>3. choice.deadline \in Nat
        BY <1>1, <1>7, ChoicesTyped DEF CallTyped, Option
    <2> DEFINE rest  == left - nap
               after == left' - nap'
    <2>6. rest \in Int /\ after \in Int /\ after <= rest
        <3>1. rest \in Int
            BY <1>1, <2>1
        <3>2. after \in Int
            BY <1>3, <2>2
        <3>3. after <= rest
            BY <2>2, Zenon
        <3> QED BY <3>1, <3>2, <3>3, Zenon
    <2>7. rest <= choice.deadline
        BY <2>1
    <2> HIDE DEF rest, after
    <2>4. after <= choice.deadline
        BY <2>3, <2>6, <2>7
    <2>5. ASSUME waits # << >>, Computed = DOMAIN waits
          PROVE  /\ Len(waits) * FloorOf(Policy) + after <= choice.deadline
                 /\ Len(waits) * FloorOf(Policy) < choice.deadline
        <3>1. /\ Len(waits) * FloorOf(Policy) + rest <= choice.deadline
              /\ Len(waits) * FloorOf(Policy) < choice.deadline
            BY <1>7, <2>5 DEF DeadlineOK, rest
        <3>2. Len(waits) * FloorOf(Policy) \in Int
            <4>1. phase # "idle" /\ choice.policy # None
                BY <2>5 DEF CallTyped, Counted
            <4>2. Policy \in Policies /\ Len(waits) \in Nat
                BY <4>1, ChoicesTyped, LenProperties DEF CallTyped, Counted, Policy, Option
            <4>3. FloorOf(Policy) \in Nat
                BY <4>2 DEF FloorOf, Least, Policies, Duration
            <4> QED BY <4>2, <4>3
        <3> DEFINE taken == Len(waits) * FloorOf(Policy)
        <3> HIDE DEF taken
        <3>3. taken + after <= choice.deadline /\ taken < choice.deadline
            BY <2>3, <2>6, <3>1, <3>2 DEF taken
        <3> QED BY <3>3 DEF taken
    <2> QED BY <1>1, <2>2, <2>4, <2>5 DEF DeadlineOK, Computed, Policy, FloorOf, after
<1> QED BY <1>1, <1>4, <1>5, <1>6, <1>7 DEF DeadlineOK

LEMMA TakePauseKeeps ==
    ASSUME BackoffOK, WholePolicies, TakePause,
           waits' = Append(waits, [length |-> nap', asked |-> retryAfter])
    PROVE  BackoffOK'
<1> DEFINE wait == [length |-> nap', asked |-> retryAfter]
           n    == Len(waits)
           Wait == [length : Nat, asked : Option(Duration)]
<1>1. /\ phase = "answered" /\ phase' = "waiting" /\ nap = 0 /\ attempts = n + 1
      /\ UNCHANGED <<choice, attempts, left, retryAfter>>
      /\ waits \in Seq(Wait) /\ n \in Nat /\ retryAfter \in Option(Duration)
      /\ left \in Option(Duration) /\ choice \in Choices
    BY LenProperties DEF BackoffOK, CallTyped, Counted, TakePause, Option, Duration
<1>2. PICK draw \in Samples : PauseFor(draw) # None /\ nap' = PauseFor(draw)
    BY DEF TakePause
<1>3. /\ choice.policy # None /\ draw \in Draws
      /\ nap' = NextPause(Policy, n + 1, draw, retryAfter, left) /\ nap' # None
    BY <1>1, <1>2, SamplesAssumption DEF PauseFor, Policy
<1>4. Policy \in Policies /\ IsWhole(Policy) /\ FloorOf(Policy) \in Nat
    BY <1>1, <1>3, PolicyTyped
<1>5. nap' \in Nat /\ (left # None => nap' < left)
    <2>1. n + 1 \in Nat
        BY <1>1
    <2> HIDE DEF n
    <2> QED BY <1>1, <1>3, <1>4, <2>1, NextPauseIsWithinBudget DEF Duration
<1>6. ASSUME retryAfter = None
      PROVE  /\ FloorOf(Policy) <= nap'
             /\ nap' <= Scheduled(Policy, n)
             /\ Policy.jitter = "None" => nap' = Scheduled(Policy, n)
    <2>1. nap' = Pause(Policy, n + 1, draw, left)
        BY <1>3, <1>6 DEF NextPause
    <2> HIDE DEF n
    <2> QED BY <1>1, <1>3, <1>4, <2>1, WholePause
<1>7. /\ wait \in Wait
      /\ waits' \in Seq(Wait) /\ Len(waits') = n + 1 /\ DOMAIN waits' = 1 .. n + 1
      /\ \A i \in 1 .. n : waits'[i] = waits[i]
      /\ waits'[n + 1] = wait
      /\ DOMAIN waits = 1 .. n
    <2>1. wait \in Wait
        BY <1>1, <1>5
    <2> HIDE DEF wait, Wait
    <2> QED BY <1>1, <2>1, AppendProperties, LenProperties DEF wait
<1> HIDE DEF n
<1>8. CallTyped'
    BY <1>1, <1>5 DEF BackoffOK, CallTyped, Phases, Option, Duration
<1>9. Counted'
    <2>1. choice'.policy # None
        BY <1>1, <1>3
    <2> QED BY <1>1, <1>7, <2>1 DEF Counted
<1>10. Policy' = Policy
    BY <1>1 DEF Policy
<1>11. /\ Computed' \subseteq 1 .. n + 1
       /\ \A i \in 1 .. n : i \in Computed' <=> i \in Computed
       /\ n + 1 \in Computed' <=> retryAfter = None
    BY <1>1, <1>7 DEF Computed
<1>12. PausesOK'
    <2> SUFFICES ASSUME NEW i \in Computed'
                 PROVE  /\ FloorOf(Policy) <= waits'[i].length
                        /\ waits'[i].length <= Scheduled(Policy, i - 1)
                        /\ Policy.jitter = "None" =>
                              waits'[i].length = Scheduled(Policy, i - 1)
        BY <1>10 DEF PausesOK, FloorOf, Scheduled
    <2>1. CASE i = n + 1
        <3>1. waits'[i].length = nap' /\ retryAfter = None /\ i - 1 = n
            BY <1>1, <1>7, <1>11, <2>1
        <3> QED BY <1>6, <3>1
    <2>2. CASE i \in 1 .. n
        <3>1. i \in Computed /\ waits'[i] = waits[i]
            BY <1>7, <1>11, <2>2
        <3> QED BY <3>1 DEF BackoffOK, PausesOK
    <2>3. i = n + 1 \/ i \in 1 .. n
        <3>1. i \in 1 .. n + 1
            BY <1>11
        <3> QED BY <1>1, <3>1
    <2> QED BY <2>1, <2>2, <2>3
<1>13. ASSUME choice # None, choice.deadline # None PROVE DeadlineOK'
    <2>1. /\ left \in Nat /\ left - nap <= choice.deadline /\ choice.deadline \in Nat
          /\ left # None
        BY <1>1, <1>13, ChoicesTyped, NoneAssumption DEF BackoffOK, DeadlineOK, Option
    <2>2. ASSUME Computed' = DOMAIN waits'
          PROVE  /\ Len(waits') * FloorOf(Policy) + (left - nap') <= choice.deadline
                 /\ Len(waits') * FloorOf(Policy) < choice.deadline
        <3> DEFINE taken == n * FloorOf(Policy)
                   floor == FloorOf(Policy)
        <3>1. retryAfter = None /\ Computed = DOMAIN waits
            <4>1. Computed' = 1 .. n + 1
                BY <1>7, <2>2
            <4>2. \A i \in 1 .. n : i \in Computed
                BY <1>1, <1>11, <4>1
            <4> QED BY <1>1, <1>7, <1>11, <4>1, <4>2 DEF Computed
        <3>2. taken + left <= choice.deadline /\ taken \in Nat
            <4>1. CASE waits = << >>
                <5>1. n = 0 /\ taken = 0
                    BY <1>4, <4>1 DEF n
                <5> QED BY <1>1, <2>1, <5>1
            <4>2. CASE waits # << >>
                <5>1. Len(waits) * FloorOf(Policy) + (left - nap) <= choice.deadline
                    BY <1>13, <3>1, <4>2 DEF BackoffOK, DeadlineOK
                <5>2. taken \in Nat
                    BY <1>1, <1>4
                <5> QED BY <1>1, <2>1, <5>1, <5>2 DEF n
            <4> QED BY <4>1, <4>2
        <3>3. Len(waits') * FloorOf(Policy) = taken + floor
            BY <1>1, <1>4, <1>7
        <3>4. floor <= nap' /\ floor \in Nat
            BY <1>4, <1>6, <3>1
        <3> HIDE DEF taken, floor
        <3> QED BY <1>5, <2>1, <3>2, <3>3, <3>4
    <2>3. left - nap' <= choice.deadline
        BY <1>1, <1>5, <2>1
    <2> QED BY <1>1, <1>5, <1>10, <2>1, <2>2, <2>3 DEF DeadlineOK, FloorOf
<1> QED BY <1>1, <1>8, <1>9, <1>12, <1>13 DEF BackoffOK, DeadlineOK

LEMMA BackoffInductive ==
    ASSUME WholePolicies
    PROVE  BackoffSpec => []BackoffOK
<1>1. ASSUME BackoffInit PROVE BackoffOK
    <2>1. waits = << >> /\ choice = None /\ phase = "idle" /\ attempts = 0 /\ nap = 0 /\ left = None
        BY <1>1 DEF BackoffInit, Init
    <2>2. Len(waits) = 0 /\ Computed = {} /\ waits \in Seq([length : Nat, asked : Option(Duration)])
        BY <2>1 DEF Computed
    <2> QED BY <2>1, <2>2 DEF BackoffOK, CallTyped, Counted, PausesOK, DeadlineOK, Phases, Option
<1>2. ASSUME BackoffOK, BackoffNext PROVE BackoffOK'
    <2> USE <1>2
    <2>0. Next /\ waits' = Waits
        BY DEF BackoffNext
    <2>1. CASE Start
        <3>1. PICK ch \in Choices : choice' = ch /\ left' = ch.deadline
            BY <2>1 DEF Start
        <3>2. /\ phase = "idle" /\ phase' = "ready" /\ waits = << >> /\ waits' = << >>
              /\ UNCHANGED <<attempts, nap, retryAfter>> /\ nap = 0 /\ attempts = Len(waits)
            BY <2>0, <2>1 DEF Start, BackoffOK, CallTyped, Counted, Waits
        <3>3. ch.deadline \in Option(Nat)
            BY ChoicesTyped
        <3>4. CallTyped'
            BY <3>1, <3>2, <3>3 DEF BackoffOK, CallTyped, Phases
        <3>5. Counted'
            BY <3>2 DEF BackoffOK, Counted
        <3>6. PausesOK'
            BY <3>2 DEF PausesOK, Computed
        <3>7. DeadlineOK'
            BY <3>1, <3>2, <3>3 DEF DeadlineOK, Option
        <3> QED BY <3>4, <3>5, <3>6, <3>7 DEF BackoffOK
    <2>2. CASE Send \/ SendTooLate \/ Succeed \/ Respond \/ Break \/ Stop \/ Wake \/ Drop
        <3>1. waits' = waits /\ UNCHANGED <<choice, nap, left>>
            BY <2>0, <2>2
            DEF Send, SendTooLate, Succeed, Respond, Break, Stop, Wake, Drop, Waits
        <3>2. CallTyped' /\ Counted'
            <4>1. CASE Send
                BY <3>1, <4>1 DEF Send, BackoffOK, CallTyped, Counted, Phases
            <4>2. CASE SendTooLate
                BY <3>1, <4>2 DEF SendTooLate, BackoffOK, CallTyped, Counted, Phases
            <4>3. CASE Succeed
                BY <3>1, <4>3 DEF Succeed, BackoffOK, CallTyped, Counted, Phases
            <4>4. CASE Respond
                BY <3>1, <4>4, RetryAftersAssumption
                DEF Respond, BackoffOK, CallTyped, Counted, Phases
            <4>5. CASE Break
                BY <3>1, <4>5 DEF Break, BackoffOK, CallTyped, Counted, Phases, Option
            <4>6. CASE Stop
                BY <3>1, <4>6 DEF Stop, BackoffOK, CallTyped, Counted, Phases
            <4>7. CASE Wake
                BY <3>1, <4>7 DEF Wake, BackoffOK, CallTyped, Counted, Phases
            <4>8. CASE Drop
                BY <3>1, <4>8 DEF Drop, BackoffOK, CallTyped, Counted, Phases
            <4> QED BY <2>2, <4>1, <4>2, <4>3, <4>4, <4>5, <4>6, <4>7, <4>8
        <3> QED BY <3>1, <3>2, NoPause DEF BackoffOK
    <2>3. CASE Tick
        BY <2>0, <2>3, TickKeeps DEF Tick, Waits
    <2>4. CASE TakePause
        BY <2>0, <2>4, TakePauseKeeps DEF TakePause, Waits
    <2>5. CASE UNCHANGED vars
        <3>1. waits' = waits
            BY <2>0, <2>5 DEF vars, Waits
        <3> QED BY <2>5, <3>1, NoPause DEF vars, BackoffOK, CallTyped, Counted
    <2> QED BY <2>0, <2>1, <2>2, <2>3, <2>4, <2>5 DEF Next, Terminated
<1>3. ASSUME BackoffOK, UNCHANGED backoffVars PROVE BackoffOK'
    BY <1>3, NoPause DEF backoffVars, vars, BackoffOK, CallTyped, Counted
<1> QED BY <1>1, <1>2, <1>3, PTL DEF BackoffSpec

-----------------------------------------------------------------------------
(* The theorems.                                                           *)

\* A pause without jitter is the documented schedule's, whatever the width,
\* the number of attempts and the pauses a server asked for in between
\* (backoff_delay, retry.rs 270-300).
THEOREM UnjitteredFollowsTheSchedule ==
    ASSUME WholePolicies
    PROVE  BackoffSpec => []UnjitteredPauseFollowsTheSchedule
<1>1. ASSUME BackoffOK PROVE UnjitteredPauseFollowsTheSchedule
    <2> SUFFICES ASSUME choice # None, waits # << >>, Policy.jitter = "None", NEW i \in Computed
                 PROVE  waits[i].length = Least(Doubling[i - 1], Policy.max_delay)
        BY DEF UnjitteredPauseFollowsTheSchedule
    <2>1. waits[i].length = Scheduled(Policy, i - 1)
        BY <1>1 DEF BackoffOK, PausesOK
    <2>2. i - 1 \in Nat
        BY <1>1, LenProperties DEF BackoffOK, Counted, Computed
    <2>3. Policy \in Policies
        BY <1>1, PolicyTyped DEF BackoffOK, CallTyped, Counted
    <2> QED BY <2>1, <2>2, <2>3, DoublingIsScheduled
<1> QED BY <1>1, BackoffInductive, PTL

\* Whatever the draw, a computed pause is no shorter than base_delay, capped,
\* and no longer than the schedule's (Jitter::Full, retry.rs 58-76).
THEOREM JitterStaysWithin ==
    ASSUME WholePolicies
    PROVE  BackoffSpec => []JitterStaysBetweenFloorAndCeiling
<1>1. ASSUME BackoffOK PROVE JitterStaysBetweenFloorAndCeiling
    <2> SUFFICES ASSUME choice # None, waits # << >>, NEW i \in Computed
                 PROVE  /\ waits[i].length >= Least(Policy.base_delay, Policy.max_delay)
                        /\ waits[i].length <= Least(Doubling[i - 1], Policy.max_delay)
        BY DEF JitterStaysBetweenFloorAndCeiling
    <2>1. FloorOf(Policy) <= waits[i].length /\ waits[i].length <= Scheduled(Policy, i - 1)
        BY <1>1 DEF BackoffOK, PausesOK
    <2>2. i - 1 \in Nat
        BY <1>1, LenProperties DEF BackoffOK, Counted, Computed
    <2>3. Policy \in Policies
        BY <1>1, PolicyTyped DEF BackoffOK, CallTyped, Counted
    <2> QED BY <2>1, <2>2, <2>3, DoublingIsScheduled DEF FloorOf
<1> QED BY <1>1, BackoffInductive, PTL

\* The floor of jitter bounds the number of attempts a deadline leaves room
\* for (Jitter, retry.rs 58-76), while no server asks for shorter pauses.
THEOREM FloorBounds ==
    ASSUME WholePolicies
    PROVE  BackoffSpec => []FloorBoundsTheAttempts
<1>1. ASSUME BackoffOK PROVE FloorBoundsTheAttempts
    BY <1>1 DEF FloorBoundsTheAttempts, BackoffOK, DeadlineOK, FloorOf
<1> QED BY <1>1, BackoffInductive, PTL
================================================================================
