------------------------------ MODULE WaitMath ------------------------------
(***************************************************************************)
(* The arithmetic of WaitExponential::next_wait: a power by repeated       *)
(* squaring whose factors may overflow to infinity, and a multiplication   *)
(* that turns whatever comes out into a duration. One step is one turn of  *)
(* the loop of pow_nonnegative_f64.                                        *)
(*                                                                         *)
(* A float is a whole number up to FloatMax, or Infinity above it: its     *)
(* rounding is left out, its overflow is not.                              *)
(***************************************************************************)
EXTENDS Strategies

CONSTANTS
  FloatMax,           \* f64::MAX
  Infinity, NaN,
  Bases,              \* what WaitExponential::base is given
  Initials, Attempts  \* the first delays, and the attempts asked about

ASSUME WaitMathAssumption ==
    /\ FloatMax \in Nat /\ DurMax <= FloatMax
    /\ Infinity \notin Nat /\ NaN \notin Nat /\ Infinity # NaN
    /\ Bases \subseteq Nat \cup {Infinity, NaN}
    /\ Initials \subseteq Duration
    /\ Attempts \subseteq Nat \ {0}

Float == 0 .. FloatMax \cup {Infinity}

VARIABLES
  initial, base,      \* WaitExponential; the base as it was given
  attempt,            \* of the state asked about
  exponent,           \* what of the exponent the loop has still to do
  factor, product,    \* its factor and its result
  delay               \* what next_wait answers, or None

vars == <<initial, base, attempt, exponent, factor, product, delay>>

FloatMul(a, b) ==
    IF a = Infinity \/ b = Infinity THEN Infinity
    ELSE IF a * b > FloatMax THEN Infinity ELSE a * b

\* clamp_exponential_base.
ClampedBase == IF base \in {Infinity, NaN} THEN 1 ELSE Greatest(base, 1)

\* Mutant: no delay at all times infinity is not a number.
SaturatingMulNaN(dur, mul) ==
    IF mul = Infinity \/ dur * mul >= DurMax THEN DurMax ELSE dur * mul

\* saturating_duration_mul_f64.
SaturatingMul(dur, mul) ==
    CASE dur = 0                         -> 0
      [] dur # 0 /\ mul = Infinity       -> DurMax
      [] OTHER                           -> Least(dur * mul, DurMax)

Init ==
    /\ initial \in Initials
    /\ base \in Bases
    /\ attempt \in Attempts
    /\ exponent = attempt - 1
    /\ factor = ClampedBase
    /\ product = 1
    /\ delay = None

Answered(power) == delay' = SaturatingMul(initial, power)

\* Nothing to multiply.
Shortcut ==
    /\ delay = None
    /\ attempt = 1 \/ ClampedBase <= 1
    /\ Answered(1)
    /\ UNCHANGED <<initial, base, attempt, exponent, factor, product>>

\* One turn: multiply by the factor if its bit is set; leave if that
\* overflowed or was the last bit; go on with the rest of the bits and the
\* next factor.
LoopTurn(rest, nextFactor) ==
    /\ delay = None
    /\ attempt # 1 /\ ClampedBase > 1
    /\ product' = IF exponent % 2 = 1 THEN FloatMul(product, factor) ELSE product
    /\ \/ /\ product' = Infinity
          /\ Answered(Infinity)
          /\ UNCHANGED <<exponent, factor>>
       \/ /\ product' # Infinity
          /\ exponent' = rest
          /\ \/ rest = 0 /\ Answered(product') /\ UNCHANGED factor
             \/ rest # 0 /\ factor' = nextFactor /\ UNCHANGED delay
    /\ UNCHANGED <<initial, base, attempt>>

\* Mutant: the factor is doubled instead of squared.
TurnDoubling == LoopTurn(exponent \div 2, FloatMul(factor, 2))

Turn == LoopTurn(exponent \div 2, FloatMul(factor, factor))

Rest == delay # None /\ UNCHANGED vars

Next == Shortcut \/ Turn \/ Rest

Spec == Init /\ [][Next]_vars

-----------------------------------------------------------------------------
\* The power asked for, without bound.
Power == Pow(ClampedBase, attempt - 1)

(***************************************************************************)
(* Between two turns the bits done and the bits to do make up the power,   *)
(* with a factor beyond the range of a float only if the power is beyond   *)
(* it too: an intermediate overflow never shows in a delay that is not     *)
(* itself saturated (pow_nonnegative_f64).                                 *)
(***************************************************************************)
OverflowIsDeserved ==
    delay = None =>
        IF factor = Infinity THEN Power > FloatMax
        ELSE product * Pow(factor, exponent) = Power

(***************************************************************************)
(* The delay is what WaitExponential stands for in Strategies, which the   *)
(* engines are checked with: the initial delay times the power, saturated, *)
(* and nothing if the initial delay is nothing.                            *)
(***************************************************************************)
DelayIsThePower ==
    delay # None => { delay } = WaitExponential(initial, ClampedBase, [attempt |-> attempt])
=============================================================================
