------------------------------ MODULE Backoff ------------------------------
(***************************************************************************)
(* internal/backoff/backoff.go: the delay between connection attempts.     *)
(*                                                                         *)
(* Durations are integers; a unit stands for a quarter of a second, so     *)
(* that the jitter of a quarter of the start duration is one unit.  A      *)
(* time.Duration is an int64, modelled with -Limit .. Limit-1.  float64 is *)
(* exact on the values that occur, up to its conversion to int64, which Go *)
(* leaves to the platform when the value is out of range: amd64 yields the *)
(* least integer, arm64 the greatest.                                      *)
(***************************************************************************)
EXTENDS Integers

CONSTANTS
  StartDuration, MaxDuration,
  Limit,     \* 2^63 of the word
  MaxCount   \* bounds the attempts between two resets

\* New refuses other durations; the durations the agent uses are far from the limit.
ASSUME DurationAssumption ==
  /\ StartDuration \in Nat \ {0} /\ MaxDuration \in Nat /\ Limit \in Nat
  /\ MaxDuration >= StartDuration
  /\ Limit > 2 * MaxDuration

ASSUME CountAssumption == MaxCount \in Nat \ {0}

\* A fact of arithmetic that the provers cannot derive.
ASSUME PowerAssumption == \A n \in 1 .. MaxCount : 2^(n - 1) \in Nat \ {0}

VARIABLES
  count,      \* Backoff.count
  delay,      \* the delay Next returned last, 0 before that
  saturates   \* whether the platform's conversion saturates

vars == <<count, delay, saturates>>

\* Mutation: the exponent is off by one.
ScaledOnceMore(n) ==
  LET x == StartDuration * 2^n IN
  IF x < Limit THEN x ELSE IF saturates THEN Limit - 1 ELSE -Limit

\* startDuration * 2^(n-1) in float64, converted.
Scaled(n) ==
  LET x == StartDuration * 2^(n - 1) IN
  IF x < Limit THEN x ELSE IF saturates THEN Limit - 1 ELSE -Limit

Capped(d) == IF d > MaxDuration THEN MaxDuration ELSE d

\* The jitter is within a quarter of the duration, truncated towards zero.
Jitters(d) == LET a == IF d < 0 THEN -d ELSE d IN -(a \div 4) .. a \div 4

\* duration += jitter wraps around.
Sum64(d, j) == IF d + j < -Limit THEN d + j + 2 * Limit
               ELSE IF d + j >= Limit THEN d + j - 2 * Limit ELSE d + j

\* Mutation: a negative duration is returned as no delay.
ClampedToZero(d) == IF d < 0 THEN 0 ELSE IF d > MaxDuration THEN MaxDuration ELSE d

\* Mutation: the jitter may exceed the maximum.
ClampedBelow(d) == IF d < 0 THEN StartDuration ELSE d

\* "Ensure we don't go below 0 or above maxDuration".
Clamped(d) == IF d < 0 THEN StartDuration
              ELSE IF d > MaxDuration THEN MaxDuration ELSE d

Delays(n) == LET d == Capped(Scaled(n)) IN {Clamped(Sum64(d, j)) : j \in Jitters(d)}

\* connect waits after a failed attempt ...
NextDelay ==
  /\ count < MaxCount
  /\ count' = count + 1
  /\ delay' \in Delays(count')
  /\ UNCHANGED saturates

\* ... and resets after one that succeeded.  The reset of one goroutine may come
\* between any two waits of the next, for nothing synchronises them.
Reset ==
  /\ count' = 0
  /\ UNCHANGED <<delay, saturates>>

Init == count = 0 /\ delay = 0 /\ saturates \in BOOLEAN

Next == NextDelay \/ Reset

Spec == Init /\ [][Next]_vars

-----------------------------------------------------------------------------
\* Every variable has its type.
TypeOK == count \in 0 .. MaxCount /\ delay \in 0 .. MaxDuration /\ saturates \in BOOLEAN

\* What the delay should be around: doubling from the start up to the maximum.
Ideal(n) == IF StartDuration * 2^(n - 1) < MaxDuration THEN StartDuration * 2^(n - 1)
            ELSE MaxDuration

Near(d, ideal) == 3 * ideal <= 4 * d /\ 4 * d <= 5 * ideal

\* Whatever the count, and after the conversion has overflowed as well, a wait is
\* neither shorter than the start duration less its jitter nor longer than the maximum.
WaitsEnoughButNotTooLong ==
  [][count' > count => 4 * delay' >= 3 * StartDuration /\ delay' <= MaxDuration]_vars

\* Until the conversion overflows, and forever where it saturates, the delay is
\* within a quarter of the ideal exponential one, whatever resets came before.
ExponentialUntilOverflow ==
  [][count' > count /\ (saturates \/ StartDuration * 2^count < Limit)
       => Near(delay', Ideal(count'))]_vars

\* README: automatic reconnection with exponential backoff (1s to 30s).  So a
\* longer outage never brings the delay back to the start.
ExponentialForever == [][count' > count => Near(delay', Ideal(count'))]_vars
=============================================================================
