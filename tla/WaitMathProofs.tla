--------------------------- MODULE WaitMathProofs ---------------------------
(***************************************************************************)
(* Proofs about the arithmetic of the exponential backoff, for every base, *)
(* initial delay and attempt, and for any range of the floats that holds   *)
(* the largest duration.                                                   *)
(***************************************************************************)
EXTENDS WaitMath, StrategiesProofs

LEMMA Numbers ==
    /\ FloatMax \in Nat /\ DurMax \in Nat \ {0} /\ DurMax <= FloatMax
    /\ Infinity \notin Nat /\ Initials \subseteq Nat /\ None \notin Duration
  BY WaitMathAssumption, DurMaxAssumption, NoneAssumption DEF Duration

LEMMA ProductGrows ==
    ASSUME NEW a \in Nat, NEW b \in Nat, a >= 1, b >= 1
    PROVE  a * b \in Nat /\ a * b >= a /\ a * b >= b
  <1>1. a * b = a + a * (b - 1) /\ a * (b - 1) \in Nat
    OBVIOUS
  <1>2. a * b = b + (a - 1) * b /\ (a - 1) * b \in Nat
    OBVIOUS
  <1>3. QED
    BY <1>1, <1>2

\* All powers of 1 are 1.
LEMMA PowOfOne == \A n \in Nat : Pow(1, n) = 1
  <1> DEFINE S == { n \in Nat : Pow(1, n) = 1 }
  <1>1. 0 \in S
    BY PowCases
  <1>2. ASSUME NEW n \in Nat, n \in S PROVE n + 1 \in S
    BY <1>2, PowCases
  <1> HIDE DEF S
  <1>3. Nat \subseteq S
    BY <1>1, <1>2, NumbersAreReached
  <1>4. QED
    BY <1>3 DEF S

\* A power is no smaller than its base.
LEMMA PowGrows ==
    ASSUME NEW f \in Nat, NEW n \in Nat, f >= 1, n >= 1
    PROVE  Pow(f, n) >= f
  <1>1. PICK p \in Nat : p = Pow(f, n - 1) /\ p >= 1
    BY PowType
  <1>2. Pow(f, (n - 1) + 1) = f * p
    BY <1>1, PowCases
  <1>3. QED
    BY <1>1, <1>2, ProductGrows

\* The multiplication saturates where, and only where, the exact one does, and
\* an infinite factor stands for any that is beyond the floats.
LEMMA SaturatingMulIsSatMul ==
    ASSUME NEW dur \in Initials, NEW power \in Nat
    PROVE  /\ SaturatingMul(dur, power) = SatMul(dur, power)
           /\ power > FloatMax => SaturatingMul(dur, Infinity) = SatMul(dur, power)
           /\ SatMul(dur, power) \in Duration
  <1>1. dur \in Nat /\ dur * power \in Nat
    BY Numbers
  <1>2. SatMul(dur, power) \in Duration
    BY <1>1, Numbers DEF SatMul, Least, Duration
  <1>3. CASE dur = 0
    BY <1>2, <1>3, Numbers DEF SaturatingMul, SatMul, Least
  <1>4. CASE dur # 0
    <2>1. SaturatingMul(dur, power) = SatMul(dur, power)
      BY <1>4, Numbers DEF SaturatingMul, SatMul
    <2>2. ASSUME power > FloatMax PROVE SatMul(dur, power) = DurMax
      <3>1. dur * power >= power
        BY <1>1, <1>4, <2>2, Numbers, ProductGrows
      <3>2. QED
        BY <1>1, <2>2, <3>1, Numbers DEF SatMul, Least
    <2>3. SaturatingMul(dur, Infinity) = DurMax
      BY <1>4 DEF SaturatingMul
    <2>4. QED
      BY <1>2, <2>1, <2>2, <2>3
  <1>5. QED
    BY <1>3, <1>4

-----------------------------------------------------------------------------
(***************************************************************************)
(* The inductive invariant. Between two turns there is something left to   *)
(* do, and neither the factor nor the product is nothing: that is why a    *)
(* square beyond the floats belongs to a power beyond them.                *)
(***************************************************************************)
Inputs ==
    /\ initial \in Initials
    /\ attempt \in Nat \ {0}
    /\ ClampedBase \in Nat \ {0}

LoopInv ==
    delay = None =>
        /\ product \in Nat /\ product >= 1
        /\ exponent \in Nat /\ (attempt # 1 => exponent >= 1)
        /\ factor = Infinity \/ (factor \in Nat /\ factor >= 1)

IInv == Inputs /\ LoopInv /\ OverflowIsDeserved /\ DelayIsThePower

LEMMA PowerIsANumber == Inputs => Power \in Nat /\ Power >= 1
  BY PowType DEF Inputs, Power

\* The right answer is the initial delay times the power.
LEMMA RightAnswer ==
    Inputs => WaitExponential(initial, ClampedBase, [attempt |-> attempt]) = {SatMul(initial, Power)}
  BY DEF WaitExponential, Power, Inputs, Greatest

LEMMA InitIInv == Init => IInv
  <1> SUFFICES ASSUME Init PROVE IInv
    OBVIOUS
  <1>1. attempt \in Nat \ {0} /\ exponent = attempt - 1 /\ product = 1 /\ delay = None
        /\ initial \in Initials
    BY WaitMathAssumption DEF Init
  <1>2. ClampedBase \in Nat \ {0} /\ factor = ClampedBase
    BY WaitMathAssumption DEF Init, ClampedBase, Greatest
  <1>3. factor # Infinity
    BY <1>2, Numbers
  <1>4. 1 * Pow(factor, exponent) = Power
    BY <1>1, <1>2, PowType DEF Power
  <1>5. QED
    BY <1>1, <1>2, <1>3, <1>4 DEF IInv, Inputs, LoopInv, OverflowIsDeserved, DelayIsThePower

\* An answer is the right one if it was made of the power, or of infinity where
\* the power is beyond the floats.
LEMMA RightlyAnswered ==
    ASSUME Inputs, NEW p, Answered(p), p = Power \/ (p = Infinity /\ Power > FloatMax),
           UNCHANGED <<initial, base, attempt>>
    PROVE  IInv'
  <1>1. delay' = SatMul(initial, Power) /\ delay' \in Duration
    BY SaturatingMulIsSatMul, PowerIsANumber DEF Answered, Inputs
  <1>2. delay' # None
    BY <1>1, Numbers
  <1>3. Inputs' /\ Power' = Power
    BY DEF Inputs, Power, ClampedBase
  <1>4. WaitExponential(initial, ClampedBase, [attempt |-> attempt])' = {SatMul(initial, Power)}
    <2>1. WaitExponential(initial, ClampedBase, [attempt |-> attempt])'
            = WaitExponential(initial, ClampedBase, [attempt |-> attempt])
      BY DEF ClampedBase
    <2>2. QED
      BY <2>1, RightAnswer
  <1>5. DelayIsThePower'
    BY <1>1, <1>4 DEF DelayIsThePower
  <1>6. QED
    BY <1>2, <1>3, <1>5 DEF IInv, LoopInv, OverflowIsDeserved

\* With nothing to multiply the power is 1.
LEMMA ShortcutKeepsIInv == IInv /\ Shortcut => IInv'
  <1> SUFFICES ASSUME IInv, Shortcut PROVE IInv'
    OBVIOUS
  <1>1. Power = 1
    <2>1. CASE attempt = 1
      BY <2>1, PowCases DEF IInv, Inputs, Power
    <2>2. CASE ClampedBase <= 1
      <3>1. ClampedBase = 1 /\ attempt - 1 \in Nat
        BY <2>2 DEF IInv, Inputs
      <3>2. QED
        BY <3>1, PowOfOne DEF Power
    <2>3. QED
      BY <2>1, <2>2 DEF Shortcut
  <1>2. QED
    BY <1>1, RightlyAnswered DEF Shortcut, IInv

-----------------------------------------------------------------------------
\* The bits of an exponent.
LEMMA Halves ==
    ASSUME NEW e \in Nat, e >= 1
    PROVE  /\ e \div 2 \in Nat
           /\ e % 2 = 1 => e = 2 * (e \div 2) + 1
           /\ e % 2 # 1 => e = 2 * (e \div 2) /\ e \div 2 >= 1
  OBVIOUS

(***************************************************************************)
(* What a turn makes of a finite factor f and a product p: the product q   *)
(* after the turn times a power of the square is still the power asked     *)
(* for.                                                                    *)
(***************************************************************************)
LEMMA TurnKeepsThePower ==
    ASSUME NEW p \in Nat, p >= 1, NEW f \in Nat, f >= 1, NEW e \in Nat, e >= 1,
           NEW q, q = IF e % 2 = 1 THEN p * f ELSE p
    PROVE  /\ q \in Nat /\ q >= 1
           /\ p * Pow(f, e) = q * Pow(f * f, e \div 2)
  <1>1. PICK s \in Nat : s = Pow(f, 2 * (e \div 2)) /\ s >= 1
    <2>1. 2 * (e \div 2) \in Nat
      BY Halves
    <2> QED
      BY <2>1, PowType
  <1>2. Pow(f * f, e \div 2) = s
    BY <1>1, Halves, PowOfSquare
  <1>3. CASE e % 2 = 1
    <2>1. q = p * f /\ q \in Nat /\ q >= 1
      BY <1>3, ProductGrows
    <2>2. Pow(f, e) = f * s
      BY <1>1, <1>3, Halves, PowCases
    <2>3. p * (f * s) = (p * f) * s
      OBVIOUS
    <2>4. QED
      BY <1>2, <2>1, <2>2, <2>3
  <1>4. CASE e % 2 # 1
    <2>1. Pow(f, e) = s
      BY <1>1, <1>4, Halves
    <2>2. QED
      BY <1>2, <1>4, <2>1
  <1>5. QED
    BY <1>3, <1>4

LEMMA TurnKeepsIInv == IInv /\ Turn => IInv'
  <1> SUFFICES ASSUME IInv, Turn PROVE IInv'
    OBVIOUS
  <1> DEFINE rest == exponent \div 2
             square == FloatMul(factor, factor)
  <1>1. /\ delay = None
        /\ attempt # 1
        /\ product' = IF exponent % 2 = 1 THEN FloatMul(product, factor) ELSE product
        /\ UNCHANGED <<initial, base, attempt>>
    BY DEF Turn, LoopTurn
  <1>2. \/ /\ product' = Infinity
           /\ Answered(Infinity)
        \/ /\ product' # Infinity
           /\ exponent' = rest
           /\ \/ rest = 0 /\ Answered(product')
              \/ rest # 0 /\ factor' = square /\ UNCHANGED delay
    BY DEF Turn, LoopTurn
  <1>3. /\ product \in Nat /\ product >= 1
        /\ exponent \in Nat /\ exponent >= 1
        /\ factor = Infinity \/ (factor \in Nat /\ factor >= 1)
        /\ rest \in Nat
    BY <1>1, Halves DEF IInv, LoopInv
  <1>4. Inputs /\ Power \in Nat
    BY PowerIsANumber DEF IInv
  \* Going on with these is going on with the invariant.
  <1>5. ASSUME rest # 0, exponent' = rest, UNCHANGED delay,
               product' \in Nat, product' >= 1,
               IF factor' = Infinity THEN Power > FloatMax
               ELSE /\ factor' \in Nat /\ factor' >= 1
                    /\ product' * Pow(factor', rest) = Power
        PROVE  IInv'
    <2>1. LoopInv'
      BY <1>3, <1>5 DEF LoopInv
    <2>2. Power' = Power /\ Inputs' /\ delay' = None
      BY <1>1, <1>4, <1>5 DEF Power, Inputs, ClampedBase
    <2>3. OverflowIsDeserved'
      BY <1>5, <2>2 DEF OverflowIsDeserved
    <2>4. QED
      BY <2>1, <2>2, <2>3 DEF IInv, DelayIsThePower
  <1>6. CASE factor = Infinity
    <2>1. Power > FloatMax
      BY <1>1, <1>6 DEF IInv, OverflowIsDeserved
    <2>2. CASE exponent % 2 = 1
      <3>1. product' = Infinity
        BY <1>1, <1>6, <2>2 DEF FloatMul
      <3>2. QED
        BY <1>1, <1>2, <1>4, <2>1, <3>1, RightlyAnswered
    <2>3. CASE exponent % 2 # 1
      <3>1. product' = product /\ product' # Infinity /\ rest # 0
        BY <1>1, <1>3, <2>3, Halves, Numbers
      <3>2. exponent' = rest /\ factor' = square /\ UNCHANGED delay
        BY <1>2, <3>1
      <3>3. factor' = Infinity
        BY <1>6, <3>2 DEF FloatMul
      <3>4. QED
        BY <1>3, <1>5, <2>1, <3>1, <3>2, <3>3
    <2>4. QED
      BY <2>2, <2>3
  <1>7. CASE factor \in Nat /\ factor >= 1
    <2>1. product * Pow(factor, exponent) = Power
      BY <1>1, <1>7, Numbers DEF IInv, OverflowIsDeserved
    <2>2. PICK q \in Nat : /\ q = IF exponent % 2 = 1 THEN product * factor ELSE product
                           /\ q >= 1
                           /\ Power = q * Pow(factor * factor, rest)
      <3>1. PICK q : q = IF exponent % 2 = 1 THEN product * factor ELSE product
        OBVIOUS
      <3>2. /\ q \in Nat /\ q >= 1
            /\ product * Pow(factor, exponent) = q * Pow(factor * factor, rest)
        BY <1>3, <1>7, <3>1, TurnKeepsThePower
      <3>3. QED
        BY <2>1, <3>1, <3>2
    <2>3. factor * factor \in Nat /\ factor * factor >= 1
      BY <1>7, ProductGrows
    <2>4. PICK s \in Nat : s = Pow(factor * factor, rest) /\ s >= 1
                           /\ (rest # 0 => s >= factor * factor)
      <3>1. rest # 0 => Pow(factor * factor, rest) >= factor * factor
        BY <1>3, <2>3, PowGrows
      <3>2. Pow(factor * factor, rest) \in Nat /\ Pow(factor * factor, rest) >= 1
        BY <1>3, <2>3, PowType
      <3>3. QED
        BY <3>1, <3>2
    <2>5. Power >= q /\ Power >= s
      BY <2>2, <2>4, ProductGrows
    <2>6. product' = q \/ (product' = Infinity /\ Power > FloatMax)
      <3>1. product # Infinity /\ factor # Infinity
        BY <1>3, <1>7, Numbers
      <3>2. product' = q \/ (product' = Infinity /\ q > FloatMax)
        BY <1>1, <2>2, <3>1 DEF FloatMul
      <3>3. QED
        BY <1>4, <2>5, <3>2, Numbers
    <2>7. CASE product' = Infinity
      <3>1. Power > FloatMax
        BY <2>2, <2>6, <2>7, Numbers
      <3>2. QED
        BY <1>1, <1>2, <1>4, <2>7, <3>1, RightlyAnswered
    <2>8. CASE product' # Infinity /\ rest = 0
      <3>1. s = 1
        BY <2>3, <2>4, <2>8, PowCases
      <3>2. product' = Power
        BY <2>2, <2>4, <2>6, <2>8, <3>1
      <3>3. QED
        BY <1>1, <1>2, <1>4, <2>8, <3>2, RightlyAnswered
    <2>9. CASE product' # Infinity /\ rest # 0
      <3>1. product' = q
        BY <2>6, <2>9
      <3>2. exponent' = rest /\ factor' = square /\ UNCHANGED delay
        BY <1>2, <2>9
      <3>3. CASE factor * factor > FloatMax
        <4>1. factor' = Infinity
          BY <1>7, <3>2, <3>3, Numbers DEF FloatMul
        <4>2. Power > FloatMax
          BY <1>4, <2>3, <2>4, <2>5, <2>9, <3>3, Numbers
        <4>3. QED
          BY <1>5, <2>2, <2>9, <3>1, <3>2, <4>1, <4>2
      <3>4. CASE ~(factor * factor > FloatMax)
        <4>1. factor' = factor * factor /\ factor' # Infinity
          BY <1>7, <2>3, <3>2, <3>4, Numbers DEF FloatMul
        <4>2. product' * Pow(factor', rest) = Power
          BY <2>2, <3>1, <4>1
        <4>3. QED
          BY <1>5, <2>2, <2>3, <2>9, <3>1, <3>2, <4>1, <4>2
      <3>5. QED
        BY <3>3, <3>4
    <2>10. QED
      BY <2>7, <2>8, <2>9
  <1>8. QED
    BY <1>3, <1>6, <1>7

LEMMA Invariance == Spec => []IInv
  <1>1. IInv /\ UNCHANGED vars => IInv'
    BY DEF vars, IInv, Inputs, LoopInv, OverflowIsDeserved, DelayIsThePower, Power, ClampedBase
  <1>2. IInv /\ [Next]_vars => IInv'
    BY <1>1, ShortcutKeepsIInv, TurnKeepsIInv DEF Next, Rest
  <1>3. QED
    BY <1>2, InitIInv, PTL DEF Spec

(***************************************************************************)
(* Whatever the base and the attempt, an intermediate overflow is one of   *)
(* the power itself; and until then the bits done and the bits to do make  *)
(* up the power (pow_nonnegative_f64).                                     *)
(***************************************************************************)
THEOREM NoEarlyOverflow == Spec => []OverflowIsDeserved
  <1>1. IInv => OverflowIsDeserved
    BY DEF IInv
  <1>2. QED
    BY <1>1, Invariance, PTL

(***************************************************************************)
(* The loop answers what Strategies says of the exponential backoff, which *)
(* the engines are checked with: the initial delay times the power,        *)
(* saturated where that is too long, and no delay of no delay.             *)
(***************************************************************************)
THEOREM BackoffIsExponential == Spec => []DelayIsThePower
  <1>1. IInv => DelayIsThePower
    BY DEF IInv
  <1>2. QED
    BY <1>1, Invariance, PTL
=============================================================================
