-------------------------------- MODULE GoTime --------------------------------
(***************************************************************************)
(* Instants and durations of Go's package time, as far as time.Since uses  *)
(* them on an instant made by time.Unix.  A duration is a word of ticks    *)
(* (nanoseconds), an instant a word of seconds since the year 1 with ticks *)
(* below a second; it is written here as one number of ticks.  Sums of     *)
(* words wrap around, and what wraps depends on the operation.             *)
(***************************************************************************)
EXTENDS Integers

CONSTANTS
  HalfRange,     \* words are -HalfRange .. HalfRange - 1
  Second,        \* ticks of a second
  UnixToInternal \* seconds from the year 1 to 1970

ASSUME GoTimeAssumption ==
  /\ HalfRange \in Nat /\ HalfRange > 1
  /\ Second \in Nat \ {0}
  /\ UnixToInternal \in 0..(HalfRange - 1)

Word == -HalfRange..(HalfRange - 1)

\* What a word holds of a number, and of the sum of two words.
Wrap(x) == ((x + HalfRange) % (2 * HalfRange)) - HalfRange

WordSum(a, b) ==
  IF a + b >= HalfRange THEN a + b - 2 * HalfRange
  ELSE IF a + b < -HalfRange THEN a + b + 2 * HalfRange
  ELSE a + b

\* time.Unix(sec, 0): the sum with the epoch is not checked.
Unix(sec) == WordSum(sec, UnixToInternal) * Second

\* An instant of the machine's clock, in ticks since 1970.
Instant(ticks) == ticks + UnixToInternal * Second

\* u.Add(d): the seconds stay at the end of their range, the ticks do not.
Add(u, d) ==
  IF u + d >= HalfRange * Second
  THEN (HalfRange - 1) * Second + ((u + d) % Second)
  ELSE IF u + d < -HalfRange * Second
  THEN (1 - HalfRange) * Second + ((u + d) % Second)
  ELSE u + d

\* t.Sub(u): the difference wraps around and is kept only if it leads back to t.
Sub(t, u) ==
  IF Add(u, Wrap(t - u)) = t THEN Wrap(t - u)
  ELSE IF t < u THEN -HalfRange
  ELSE HalfRange - 1

=============================================================================
