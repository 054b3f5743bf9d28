--------------------------- MODULE BackoffProofs ---------------------------
(***************************************************************************)
(* The bounds of every delay, for all durations, word sizes and platforms. *)
(***************************************************************************)
EXTENDS Backoff, TLAPS

\* The product of the start duration and a power of two is no less than the former.
LEMMA ScaledUp == \A n \in 1 .. MaxCount : StartDuration * 2^(n - 1) \in Nat
                                           /\ StartDuration * 2^(n - 1) >= StartDuration
<1> TAKE n \in 1 .. MaxCount
<1> DEFINE p == 2^(n - 1)
<1>1. p \in Nat \ {0} BY PowerAssumption
<1> HIDE DEF p
<1>2. StartDuration * p \in Nat /\ StartDuration * p >= StartDuration
  BY <1>1, DurationAssumption
<1> QED BY <1>2 DEF p

\* What is capped is a usable duration, unless the conversion went to the least.
LEMMA CappedRange ==
  ASSUME NEW n \in 1 .. MaxCount, saturates \in BOOLEAN
  PROVE  Capped(Scaled(n)) \in StartDuration .. MaxDuration \/ Capped(Scaled(n)) = -Limit
<1> DEFINE x == StartDuration * 2^(n - 1)
<1>1. x \in Nat /\ x >= StartDuration BY ScaledUp
<1>2. Scaled(n) = IF x < Limit THEN x ELSE IF saturates THEN Limit - 1 ELSE -Limit
  BY DEF Scaled
<1> HIDE DEF x
<1>3. Scaled(n) \in Int /\ (Scaled(n) >= StartDuration \/ Scaled(n) = -Limit)
  BY <1>1, <1>2, DurationAssumption
<1> QED BY <1>3, DurationAssumption DEF Capped

\* Jitter and clamping, on a usable duration and on the least one.
LEMMA ClampedRange ==
  ASSUME NEW d \in Int, d \in StartDuration .. MaxDuration \/ d = -Limit, NEW j \in Jitters(d)
  PROVE  LET r == Clamped(Sum64(d, j)) IN
         r \in Nat /\ 4 * r >= 3 * StartDuration /\ r <= MaxDuration
<1>1. CASE d \in StartDuration .. MaxDuration
  <2>1. j \in Int /\ 4 * j <= d /\ -4 * j <= d
    BY <1>1, DurationAssumption DEF Jitters
  <2> QED BY <1>1, <2>1, DurationAssumption DEF Sum64, Clamped
<1>2. CASE d = -Limit
  <2>1. j \in Int /\ 4 * j <= Limit /\ -4 * j <= Limit
    BY <1>2, DurationAssumption DEF Jitters
  <2>2. d + j < 0 /\ d + j >= -2 * Limit
    BY <1>2, <2>1, DurationAssumption
  <2>3. Sum64(d, j) < 0 \/ Sum64(d, j) > MaxDuration
    BY <1>2, <2>1, <2>2, DurationAssumption DEF Sum64
  <2> QED BY <1>2, <2>1, <2>3, DurationAssumption DEF Sum64, Clamped
<1> QED BY <1>1, <1>2

\* One wait, from any count and on any platform.
LEMMA DelayRange ==
  ASSUME NEW n \in 1 .. MaxCount, saturates \in BOOLEAN, NEW r \in Delays(n)
  PROVE  r \in Nat /\ 4 * r >= 3 * StartDuration /\ r <= MaxDuration
<1> DEFINE d == Capped(Scaled(n))
<1>1. d \in Int /\ (d \in StartDuration .. MaxDuration \/ d = -Limit)
  BY CappedRange, DurationAssumption
<1>2. PICK j \in Jitters(d) : r = Clamped(Sum64(d, j))
  BY DEF Delays
<1> QED BY <1>1, <1>2, ClampedRange

\* Counts and delays stay in their ranges.
THEOREM BackoffTypeCorrect == Spec => []TypeOK
<1>1. Init => TypeOK
  BY DurationAssumption, CountAssumption DEF Init, TypeOK
<1>2. TypeOK /\ [Next]_vars => TypeOK'
  <2> SUFFICES ASSUME TypeOK, [Next]_vars PROVE TypeOK'
    OBVIOUS
  <2>1. CASE NextDelay
    <3>1. count' \in 1 .. MaxCount /\ saturates \in BOOLEAN /\ saturates' = saturates
      BY <2>1, CountAssumption DEF NextDelay, TypeOK
    <3>2. delay' \in Nat /\ delay' <= MaxDuration
      BY <2>1, <3>1, DelayRange DEF NextDelay
    <3> QED BY <3>1, <3>2, DurationAssumption, CountAssumption DEF TypeOK
  <2>2. CASE Reset
    BY <2>2, CountAssumption DEF Reset, TypeOK
  <2>3. CASE UNCHANGED vars
    BY <2>3 DEF vars, TypeOK
  <2> QED BY <2>1, <2>2, <2>3 DEF Next
<1> QED BY <1>1, <1>2, PTL DEF Spec

\* No wait is shorter than three quarters of the start duration or longer than the
\* maximum, overflow and wrap-around included.
THEOREM DelayBounds == Spec => WaitsEnoughButNotTooLong
<1> DEFINE A == count' > count => 4 * delay' >= 3 * StartDuration /\ delay' <= MaxDuration
<1>1. TypeOK /\ [Next]_vars => [A]_vars
  <2> SUFFICES ASSUME TypeOK, Next PROVE A
    BY DEF vars
  <2>1. CASE NextDelay
    <3>1. count' \in 1 .. MaxCount /\ saturates \in BOOLEAN
      BY <2>1, CountAssumption DEF NextDelay, TypeOK
    <3> QED BY <2>1, <3>1, DelayRange DEF NextDelay
  <2>2. CASE Reset
    BY <2>2, CountAssumption DEF Reset, TypeOK
  <2> QED BY <2>1, <2>2 DEF Next
<1> QED BY <1>1, BackoffTypeCorrect, PTL DEF Spec, WaitsEnoughButNotTooLong

\* Until the conversion overflows, and for good where it saturates, a wait is within a
\* quarter of the ideal one.
LEMMA DelayNear ==
  ASSUME NEW n \in 1 .. MaxCount, saturates \in BOOLEAN, NEW r \in Delays(n),
         saturates \/ StartDuration * 2^(n - 1) < Limit
  PROVE  Near(r, Ideal(n))
<1> DEFINE x == StartDuration * 2^(n - 1)
           d == IF x < MaxDuration THEN x ELSE MaxDuration
<1>1. x \in Nat /\ x >= StartDuration /\ (saturates \/ x < Limit)
  BY ScaledUp
<1>2. Scaled(n) = IF x < Limit THEN x ELSE IF saturates THEN Limit - 1 ELSE -Limit
  BY DEF Scaled
<1>3. PICK j \in Jitters(Capped(Scaled(n))) : r = Clamped(Sum64(Capped(Scaled(n)), j))
  BY DEF Delays
<1>4. Ideal(n) = d
  BY DEF Ideal
<1> HIDE DEF x
<1>5. Capped(Scaled(n)) = d /\ d \in StartDuration .. MaxDuration
  BY <1>1, <1>2, DurationAssumption DEF Capped
<1> HIDE DEF d
<1>6. j \in Int /\ 4 * j <= d /\ -4 * j <= d
  BY <1>3, <1>5, DurationAssumption DEF Jitters
<1>7. r = IF d + j > MaxDuration THEN MaxDuration ELSE d + j
  BY <1>3, <1>5, <1>6, DurationAssumption DEF Sum64, Clamped
<1> QED BY <1>4, <1>5, <1>6, <1>7, DurationAssumption DEF Near

\* The delay doubles until the conversion overflows, and no resets before that matter.
THEOREM DelaysDouble == Spec => ExponentialUntilOverflow
<1> DEFINE A == count' > count /\ (saturates \/ StartDuration * 2^count < Limit)
                  => Near(delay', Ideal(count'))
<1>1. TypeOK /\ [Next]_vars => [A]_vars
  <2> SUFFICES ASSUME TypeOK, Next PROVE A
    BY DEF vars
  <2>1. CASE NextDelay
    <3>1. count' \in 1 .. MaxCount /\ saturates \in BOOLEAN /\ count = count' - 1
      BY <2>1, CountAssumption DEF NextDelay, TypeOK
    <3> QED BY <2>1, <3>1, DelayNear DEF NextDelay
  <2>2. CASE Reset
    BY <2>2, CountAssumption DEF Reset, TypeOK
  <2> QED BY <2>1, <2>2 DEF Next
<1> QED BY <1>1, BackoffTypeCorrect, PTL DEF Spec, ExponentialUntilOverflow
=============================================================================
