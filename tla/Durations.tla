----------------------------- MODULE Durations -----------------------------
(***************************************************************************)
(* core::time::Duration as the engines use it: a bounded, totally ordered  *)
(* quantity of time whose arithmetic saturates instead of overflowing.     *)
(* One unit stands for whatever the smallest interesting interval is.      *)
(***************************************************************************)
EXTENDS Naturals

CONSTANTS
  DurMax,     \* Duration::MAX
  None        \* Option::None

ASSUME DurMaxAssumption == DurMax \in Nat \ {0}

Duration == 0 .. DurMax

ASSUME NoneAssumption == None \notin Duration

\* Option<Duration>: a timeout or a previous delay that may be absent.
MaybeDuration == Duration \cup {None}

Least(a, b) == IF a <= b THEN a ELSE b

Greatest(a, b) == IF a >= b THEN a ELSE b

\* Duration::saturating_add, saturating_sub and saturating_mul.
SatAdd(a, b) == Least(a + b, DurMax)

SatSub(a, b) == IF a >= b THEN a - b ELSE 0

SatMul(a, n) == Least(a * n, DurMax)
=============================================================================
