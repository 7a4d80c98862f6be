-------------------------- MODULE StrategiesProofs --------------------------
(***************************************************************************)
(* Induction over the natural numbers, without an operator as parameter,   *)
(* and with it what the recursive definitions of Strategies come to, for   *)
(* all arguments; then what the strategies can answer.                     *)
(***************************************************************************)
EXTENDS Strategies, Integers, WellFoundedInduction, TLAPS

Below == OpToRel(<, Nat)

\* A set that has 0 and the successor of each of its numbers has all numbers:
\* one that is missing would be the least of them.
LEMMA NumbersAreReached ==
    ASSUME NEW S, 0 \in S, \A n \in Nat : n \in S => n + 1 \in S
    PROVE  Nat \subseteq S
  <1> DEFINE Missing == Nat \ S
  <1>1. SUFFICES ASSUME Missing # {} PROVE FALSE
    OBVIOUS
  <1>2. IsWellFoundedOn(Below, Nat)
    BY NatLessThanWellFounded DEF Below
  <1>3. PICK x \in Missing : \A y \in Missing : ~(<<y, x>> \in Below)
    BY <1>1, <1>2, WFMin
  <1>4. \A y \in Nat : y < x => <<y, x>> \in Below
    BY DEF Below, OpToRel
  <1>5. \A y \in Missing : ~(y < x)
    BY <1>3, <1>4
  <1>6. x # 0
    OBVIOUS
  <1>7. x - 1 \in Nat /\ x - 1 < x /\ (x - 1) + 1 = x
    BY <1>6
  <1>8. QED
    BY <1>5, <1>7

-----------------------------------------------------------------------------
\* The equation of the recursive function in Pow.
IsPowers(f, base, n) == f = [k \in 0 .. n |-> IF k = 0 THEN 1 ELSE base * f[k - 1]]

\* It has a solution,
LEMMA PowersExist ==
    ASSUME NEW base, NEW n \in Nat
    PROVE  \E f : IsPowers(f, base, n)
  <1> DEFINE S == { m \in Nat : \E f : IsPowers(f, base, m) }
  <1>1. 0 \in S
    <2> DEFINE f == [k \in 0 .. 0 |-> 1]
    <2>1. f = [k \in 0 .. 0 |-> IF k = 0 THEN 1 ELSE base * f[k - 1]]
      OBVIOUS
    <2> HIDE DEF f
    <2>2. QED
      BY <2>1 DEF IsPowers
  <1>2. ASSUME NEW m \in Nat, m \in S PROVE m + 1 \in S
    <2>1. PICK f : IsPowers(f, base, m)
      BY <1>2
    <2> DEFINE g == [k \in 0 .. m + 1 |-> IF k <= m THEN f[k] ELSE base * f[m]]
    <2>2. \A k \in 0 .. m + 1 : g[k] = IF k = 0 THEN 1 ELSE base * g[k - 1]
      <3> SUFFICES ASSUME NEW k \in 0 .. m + 1
                   PROVE  g[k] = IF k = 0 THEN 1 ELSE base * g[k - 1]
        OBVIOUS
      <3>1. CASE k <= m
        BY <2>1, <3>1 DEF IsPowers
      <3>2. CASE k = m + 1
        BY <3>2
      <3>3. QED
        BY <3>1, <3>2
    <2>3. g = [k \in 0 .. m + 1 |-> g[k]]
      OBVIOUS
    <2> HIDE DEF g
    <2>4. g = [k \in 0 .. m + 1 |-> IF k = 0 THEN 1 ELSE base * g[k - 1]]
      BY <2>2, <2>3
    <2>5. QED
      BY <2>4 DEF IsPowers
  <1> HIDE DEF S
  <1>3. Nat \subseteq S
    BY <1>1, <1>2, NumbersAreReached
  <1>4. QED
    BY <1>3 DEF S

\* and two solutions agree as far as both go.
LEMMA PowersAgree ==
    ASSUME NEW base, NEW m \in Nat, NEW n \in Nat, NEW f, NEW g,
           IsPowers(f, base, m), IsPowers(g, base, n)
    PROVE  \A k \in Nat : k <= m /\ k <= n => f[k] = g[k]
  <1> DEFINE S == { k \in Nat : k <= m /\ k <= n => f[k] = g[k] }
  <1>1. 0 \in S
    BY DEF IsPowers
  <1>2. ASSUME NEW k \in Nat, k \in S PROVE k + 1 \in S
    <2>1. SUFFICES ASSUME k + 1 <= m, k + 1 <= n PROVE f[k + 1] = g[k + 1]
      OBVIOUS
    <2>2. f[k] = g[k]
      BY <1>2, <2>1
    <2>3. f[k + 1] = base * f[k]
      BY <2>1 DEF IsPowers
    <2>4. g[k + 1] = base * g[k]
      BY <2>1 DEF IsPowers
    <2>5. QED
      BY <2>2, <2>3, <2>4
  <1> HIDE DEF S
  <1>3. Nat \subseteq S
    BY <1>1, <1>2, NumbersAreReached
  <1>4. QED
    BY <1>3 DEF S

LEMMA PowIsAPower ==
    ASSUME NEW base, NEW n \in Nat
    PROVE  \E f : IsPowers(f, base, n) /\ Pow(base, n) = f[n]
  <1> DEFINE f == CHOOSE f : IsPowers(f, base, n)
  <1>1. IsPowers(f, base, n)
    BY PowersExist
  <1>2. Pow(base, n) = f[n]
    BY DEF Pow, IsPowers
  <1> HIDE DEF f
  <1>3. QED
    BY <1>1, <1>2

\* The cases of the definition.
LEMMA PowCases ==
    ASSUME NEW base \in Nat
    PROVE  /\ Pow(base, 0) = 1
           /\ \A n \in Nat : Pow(base, n + 1) = base * Pow(base, n)
  <1>1. Pow(base, 0) = 1
    BY PowIsAPower DEF IsPowers
  <1>2. ASSUME NEW n \in Nat PROVE Pow(base, n + 1) = base * Pow(base, n)
    <2>1. PICK f : IsPowers(f, base, n) /\ Pow(base, n) = f[n]
      BY PowIsAPower
    <2>2. PICK g : IsPowers(g, base, n + 1) /\ Pow(base, n + 1) = g[n + 1]
      BY PowIsAPower
    <2>3. g[n + 1] = base * g[n]
      BY <2>2 DEF IsPowers
    <2>4. g[n] = f[n]
      BY <2>1, <2>2, PowersAgree
    <2>5. QED
      BY <2>1, <2>2, <2>3, <2>4
  <1>3. QED
    BY <1>1, <1>2

\* Powers are numbers, and from a base of 1 on no smaller than 1.
LEMMA PowType ==
    ASSUME NEW base \in Nat
    PROVE  \A n \in Nat : /\ Pow(base, n) \in Nat
                          /\ base >= 1 => Pow(base, n) >= 1
  <1> DEFINE S == { n \in Nat : Pow(base, n) \in Nat /\ (base >= 1 => Pow(base, n) >= 1) }
  <1>1. 0 \in S
    BY PowCases
  <1>2. ASSUME NEW n \in Nat, n \in S PROVE n + 1 \in S
    <2>1. Pow(base, n + 1) = base * Pow(base, n)
      BY PowCases
    <2>2. PICK p \in Nat : p = Pow(base, n) /\ (base >= 1 => p >= 1)
      BY <1>2
    <2>3. base * p \in Nat /\ (base >= 1 => base * p >= 1)
      BY <2>2
    <2>4. QED
      BY <2>1, <2>2, <2>3
  <1> HIDE DEF S
  <1>3. Nat \subseteq S
    BY <1>1, <1>2, NumbersAreReached
  <1>4. QED
    BY <1>3 DEF S

\* The step of repeated squaring.
LEMMA PowOfSquare ==
    ASSUME NEW base \in Nat
    PROVE  \A n \in Nat : Pow(base * base, n) = Pow(base, 2 * n)
  <1> DEFINE S == { n \in Nat : Pow(base * base, n) = Pow(base, 2 * n) }
  <1>0. base * base \in Nat
    OBVIOUS
  <1>1. 0 \in S
    BY <1>0, PowCases
  <1>2. ASSUME NEW n \in Nat, n \in S PROVE n + 1 \in S
    <2>1. Pow(base * base, n + 1) = (base * base) * Pow(base * base, n)
      BY <1>0, PowCases
    <2>2. Pow(base, 2 * n + 1) = base * Pow(base, 2 * n)
      BY PowCases
    <2>3. Pow(base, (2 * n + 1) + 1) = base * Pow(base, 2 * n + 1)
      BY PowCases
    <2>4. PICK p \in Nat : p = Pow(base, 2 * n)
      BY PowType
    <2>5. (base * base) * p = base * (base * p)
      OBVIOUS
    <2>6. 2 * (n + 1) = (2 * n + 1) + 1
      OBVIOUS
    <2>7. QED
      BY <1>2, <2>1, <2>2, <2>3, <2>4, <2>5, <2>6
  <1> HIDE DEF S
  <1>3. Nat \subseteq S
    BY <1>1, <1>2, NumbersAreReached
  <1>4. QED
    BY <1>3 DEF S

-----------------------------------------------------------------------------
(***************************************************************************)
(* What the strategies and their combinators answer. Each has an answer    *)
(* where its parts have one, so that one composed of them is never without.*)
(***************************************************************************)
Asked == [attempt : Nat \ {0}, elapsed : Duration, previous_delay : MaybeDuration]

\* What can be answered at all.
SomeStops == (SUBSET BOOLEAN) \ {{}}
SomeWaits == (SUBSET Duration) \ {{}}

LEMMA Saturation ==
    /\ DurMax \in Nat /\ Duration \subseteq Nat /\ None \notin Duration
    /\ \A a \in Nat, b \in Nat : /\ SatAdd(a, b) \in Duration /\ SatMul(a, b) \in Duration
                                 /\ SatAdd(a, b) <= a + b
                                 /\ a \in Duration => SatAdd(a, b) >= a
  <1>1. DurMax \in Nat /\ Duration \subseteq Nat /\ None \notin Duration
    BY DurMaxAssumption, NoneAssumption DEF Duration
  <1>2. ASSUME NEW a \in Nat, NEW b \in Nat
        PROVE  /\ SatAdd(a, b) \in Duration /\ SatMul(a, b) \in Duration
               /\ SatAdd(a, b) <= a + b
               /\ a \in Duration => SatAdd(a, b) >= a
    <2>1. PICK m \in Nat : m = a * b
      OBVIOUS
    <2>2. QED
      BY <1>1, <2>1 DEF SatAdd, SatMul, Least, Duration
  <1>3. QED
    BY <1>1, <1>2

\* The stop strategies answer yes or no.
LEMMA StopsAnswer ==
    ASSUME NEW max, NEW deadline, NEW state
    PROVE  /\ StopAfterAttempts(max, state) \in SomeStops
           /\ StopAfterElapsed(deadline, state) \in SomeStops
           /\ StopNever \in SomeStops
  <1>1. {TRUE} \in SomeStops /\ {FALSE} \in SomeStops
    BY Zenon DEF SomeStops
  <1>2. StopAfterAttempts(max, state) \in SomeStops
    <2>1. CASE state.attempt >= max
      <3>1. StopAfterAttempts(max, state) = {TRUE}
        BY <2>1, Zenon DEF StopAfterAttempts
      <3>2. QED
        BY <1>1, <3>1
    <2>2. CASE ~(state.attempt >= max)
      <3>1. StopAfterAttempts(max, state) = {FALSE}
        <4>1. (state.attempt >= max) = FALSE
          BY <2>2
        <4>2. QED
          BY <4>1 DEF StopAfterAttempts
      <3>2. QED
        BY <1>1, <3>1
    <2>3. QED
      BY <2>1, <2>2
  <1>3. StopAfterElapsed(deadline, state) \in SomeStops
    <2>1. CASE state.elapsed >= deadline
      <3>1. StopAfterElapsed(deadline, state) = {TRUE}
        BY <2>1, Zenon DEF StopAfterElapsed
      <3>2. QED
        BY <1>1, <3>1
    <2>2. CASE ~(state.elapsed >= deadline)
      <3>1. StopAfterElapsed(deadline, state) = {FALSE}
        <4>1. (state.elapsed >= deadline) = FALSE
          BY <2>2
        <4>2. QED
          BY <4>1 DEF StopAfterElapsed
      <3>2. QED
        BY <1>1, <3>1
    <2>3. QED
      BY <2>1, <2>2
  <1>4. StopNever \in SomeStops
    BY <1>1 DEF StopNever
  <1>5. QED
    BY <1>2, <1>3, <1>4

\* And so do two of them combined.
LEMMA CombinedStopsAnswer ==
    ASSUME NEW left \in SomeStops, NEW right \in SomeStops
    PROVE  StopAny(left, right) \in SomeStops /\ StopAll(left, right) \in SomeStops
  <1>1. PICK l \in left, r \in right : TRUE
    BY DEF SomeStops
  <1>2. \A x \in left, y \in right : (x \/ y) \in BOOLEAN /\ (x /\ y) \in BOOLEAN
    BY Zenon DEF SomeStops
  <1>3. StopAny(left, right) \in SomeStops
    <2>1. \A stop \in StopAny(left, right) : stop \in BOOLEAN
      <3>1. \A stop \in StopAny(left, right) : \E x \in left, y \in right : stop = (x \/ y)
        BY SMT DEF StopAny
      <3>2. QED
        BY <1>2, <3>1, Zenon
    <2>2. (l \/ r) \in StopAny(left, right)
      BY <1>1, SMT DEF StopAny
    <2>3. QED
      BY <2>1, <2>2, Zenon DEF SomeStops
  <1>4. StopAll(left, right) \in SomeStops
    <2>1. \A stop \in StopAll(left, right) : stop \in BOOLEAN
      <3>1. \A stop \in StopAll(left, right) : \E x \in left, y \in right : stop = (x /\ y)
        BY SMT DEF StopAll
      <3>2. QED
        BY <1>2, <3>1, Zenon
    <2>2. (l /\ r) \in StopAll(left, right)
      BY <1>1, SMT DEF StopAll
    <2>3. QED
      BY <2>1, <2>2, Zenon DEF SomeStops
  <1>5. QED
    BY <1>3, <1>4

\* The wait strategies answer a duration, however large the attempt.
LEMMA WaitsAnswer ==
    ASSUME NEW initial \in Duration, NEW increment \in Duration, NEW base \in Nat,
           NEW state \in Asked
    PROVE  /\ WaitFixed(initial) \in SomeWaits
           /\ WaitLinear(initial, increment, state) \in SomeWaits
           /\ WaitExponential(initial, base, state) \in SomeWaits
  <1>1. state.attempt - 1 \in Nat /\ initial \in Nat /\ increment \in Nat
    <2>1. state.attempt \in Nat \ {0}
      BY DEF Asked
    <2>2. initial \in Nat /\ increment \in Nat
      BY Saturation
    <2>3. QED
      BY <2>1, <2>2
  <1>2. SatAdd(initial, SatMul(increment, state.attempt - 1)) \in Duration
    <2>1. SatMul(increment, state.attempt - 1) \in Duration
      BY <1>1, Saturation
    <2>2. SatMul(increment, state.attempt - 1) \in Nat
      BY <2>1, Saturation
    <2>3. QED
      BY <1>1, <2>2, Saturation
  <1>3. Greatest(base, 1) \in Nat
    BY DEF Greatest
  <1>4. Pow(Greatest(base, 1), state.attempt - 1) \in Nat
    BY <1>1, <1>3, PowType
  <1>5. SatMul(initial, Pow(Greatest(base, 1), state.attempt - 1)) \in Duration
    BY <1>1, <1>4, Saturation
  <1>6. QED
    BY <1>2, <1>5 DEF SomeWaits, WaitFixed, WaitLinear, WaitExponential

\* The combinators of waits.
LEMMA CombinedWaitsAnswer ==
    ASSUME NEW left \in SomeWaits, NEW right \in SomeWaits, NEW max \in Duration,
           NEW after, NEW state
    PROVE  /\ WaitCapped(left, max) \in SomeWaits
           /\ WaitCombine(left, right) \in SomeWaits
           /\ WaitChain(left, right, after, state) \in SomeWaits
           /\ \A w \in WaitCapped(left, max) : w <= max
  <1>1. \A v \in Duration, w \in Duration :
            /\ Least(v, w) \in Duration /\ Least(v, w) <= w
            /\ SatAdd(v, w) \in Duration
    BY Saturation DEF Least
  <1>2. WaitCapped(left, max) \in SomeWaits /\ \A w \in WaitCapped(left, max) : w <= max
    BY <1>1 DEF WaitCapped, SomeWaits
  <1>3. WaitCombine(left, right) \in SomeWaits
    <2>1. left \subseteq Duration /\ right \subseteq Duration
          /\ (\E v \in left : TRUE) /\ (\E w \in right : TRUE)
      BY DEF SomeWaits
    <2>2. \A v \in left, w \in right : SatAdd(v, w) \in Duration
      BY <1>1, <2>1
    <2>3. WaitCombine(left, right) \subseteq Duration
      BY <2>2 DEF WaitCombine
    <2>4. PICK v \in left, w \in right : TRUE
      BY <2>1
    <2>5. SatAdd(v, w) \in WaitCombine(left, right)
      BY <2>4 DEF WaitCombine
    <2>6. QED
      BY <2>3, <2>5 DEF SomeWaits
  <1>4. WaitChain(left, right, after, state) \in SomeWaits
    BY DEF WaitChain
  <1>5. QED
    BY <1>2, <1>3, <1>4

\* The generator's answers.
LEMMA RandomAnswers ==
    ASSUME NEW lower \in Duration, NEW upper \in Duration
    PROVE  /\ RandomIn(lower, upper) \in SomeWaits
           /\ \A w \in RandomIn(lower, upper) : w >= lower /\ (w <= upper \/ w = lower)
  BY DurMaxAssumption DEF RandomIn, SomeWaits, Duration

LEMMA RandomFromNone ==
    ASSUME NEW upper \in Duration
    PROVE  /\ RandomIn(0, upper) \in SomeWaits
           /\ \A w \in RandomIn(0, upper) : w \in Nat /\ w <= upper
  BY DurMaxAssumption DEF RandomIn, SomeWaits, Duration

(***************************************************************************)
(* The jitters. Each answers durations, and a jittered wait is, of some    *)
(* wait of the strategy it wraps: at most max_jitter longer (additive);    *)
(* no longer (full); no longer, and no shorter than half of it (equal); no *)
(* shorter (decorrelated).                                                 *)
(***************************************************************************)
THEOREM JittersKeepTheirRanges ==
    ASSUME NEW inner \in SomeWaits, NEW max_jitter \in Duration, NEW state \in Asked
    PROVE  /\ JitterAdditive(inner, max_jitter) \in SomeWaits
           /\ \A j \in JitterAdditive(inner, max_jitter) :
                 \E w \in inner : w <= j /\ j <= w + max_jitter
           /\ JitterFull(inner) \in SomeWaits
           /\ \A j \in JitterFull(inner) : \E w \in inner : j <= w
           /\ JitterEqual(inner) \in SomeWaits
           /\ \A j \in JitterEqual(inner) : \E w \in inner : w \div 2 <= j /\ j <= w
           /\ JitterDecorrelated(inner, state) \in SomeWaits
           /\ \A j \in JitterDecorrelated(inner, state) : \E w \in inner : w <= j
  <1>1. /\ inner \subseteq Duration /\ Duration \subseteq Nat /\ 0 \in Duration
        /\ \E w \in inner : TRUE
    <2>1. inner \subseteq Duration /\ \E w \in inner : TRUE
      BY DEF SomeWaits
    <2>2. Duration \subseteq Nat /\ 0 \in Duration
      BY DurMaxAssumption DEF Duration
    <2>3. QED
      BY <2>1, <2>2
  <1>2. /\ JitterAdditive(inner, max_jitter) \in SomeWaits
        /\ \A j \in JitterAdditive(inner, max_jitter) :
              \E w \in inner : w <= j /\ j <= w + max_jitter
    <2> DEFINE Jittered(w) == { SatAdd(w, j) : j \in RandomIn(0, max_jitter) }
    <2>1. ASSUME NEW w \in inner
          PROVE  /\ Jittered(w) \in SomeWaits
                 /\ \A j \in Jittered(w) : w <= j /\ j <= w + max_jitter
      <3>1. RandomIn(0, max_jitter) \in SomeWaits
            /\ \A r \in RandomIn(0, max_jitter) : r \in Nat /\ r <= max_jitter
        BY <1>1, RandomFromNone
      <3>2. \A r \in RandomIn(0, max_jitter) :
               SatAdd(w, r) \in Duration /\ SatAdd(w, r) >= w /\ SatAdd(w, r) <= w + max_jitter
        <4> SUFFICES ASSUME NEW r \in RandomIn(0, max_jitter)
                     PROVE  /\ SatAdd(w, r) \in Duration /\ SatAdd(w, r) >= w
                            /\ SatAdd(w, r) <= w + max_jitter
          OBVIOUS
        <4>1. w \in Nat /\ w \in Duration /\ r \in Nat /\ r <= max_jitter /\ max_jitter \in Nat
          BY <1>1, <3>1
        <4>2. SatAdd(w, r) \in Duration /\ SatAdd(w, r) >= w /\ SatAdd(w, r) <= w + r
          BY <4>1, Saturation
        <4>3. SatAdd(w, r) \in Nat
          BY <1>1, <4>2
        <4>4. QED
          BY <4>1, <4>2, <4>3
      <3>3. QED
        BY <3>1, <3>2 DEF SomeWaits
    <2>2. JitterAdditive(inner, max_jitter) = UNION { Jittered(w) : w \in inner }
      BY DEF JitterAdditive
    <2> HIDE DEF Jittered
    <2>3. QED
      BY <1>1, <2>1, <2>2 DEF SomeWaits
  <1>3. /\ JitterFull(inner) \in SomeWaits
        /\ \A j \in JitterFull(inner) : \E w \in inner : j <= w
    <2>1. ASSUME NEW w \in inner
          PROVE  RandomIn(0, w) \in SomeWaits /\ \A j \in RandomIn(0, w) : j <= w
      <3>1. w \in Duration /\ w \in Nat
        BY <1>1
      <3>2. QED
        BY <1>1, <3>1, RandomAnswers
    <2>2. QED
      BY <1>1, <2>1 DEF JitterFull, SomeWaits
  <1>4. /\ JitterEqual(inner) \in SomeWaits
        /\ \A j \in JitterEqual(inner) : \E w \in inner : w \div 2 <= j /\ j <= w
    <2> DEFINE Jittered(w) == { SatAdd(w \div 2, j) : j \in RandomIn(0, w \div 2) }
    <2>1. ASSUME NEW w \in inner
          PROVE  /\ Jittered(w) \in SomeWaits
                 /\ \A j \in Jittered(w) : w \div 2 <= j /\ j <= w
      <3>1. PICK h \in Duration : h = w \div 2 /\ h \in Nat /\ h + h <= w /\ w \in Nat
        BY <1>1, DurMaxAssumption DEF Duration
      <3>2. RandomIn(0, h) \in SomeWaits /\ \A r \in RandomIn(0, h) : r \in Nat /\ r <= h
        BY <3>1, RandomFromNone
      <3>3. \A r \in RandomIn(0, h) :
               SatAdd(h, r) \in Duration /\ SatAdd(h, r) >= h /\ SatAdd(h, r) <= w
        <4> SUFFICES ASSUME NEW r \in RandomIn(0, h)
                     PROVE  SatAdd(h, r) \in Duration /\ SatAdd(h, r) >= h /\ SatAdd(h, r) <= w
          OBVIOUS
        <4>1. r \in Nat /\ r <= h
          BY <3>2
        <4>2. SatAdd(h, r) \in Duration /\ SatAdd(h, r) >= h /\ SatAdd(h, r) <= h + r
          BY <3>1, <4>1, Saturation
        <4>3. SatAdd(h, r) \in Nat
          BY <1>1, <4>2
        <4>4. QED
          BY <3>1, <4>1, <4>2, <4>3
      <3>4. Jittered(w) = { SatAdd(h, j) : j \in RandomIn(0, h) }
        BY <3>1
      <3>5. QED
        BY <3>1, <3>2, <3>3, <3>4 DEF SomeWaits
    <2>2. JitterEqual(inner) = UNION { Jittered(w) : w \in inner }
      BY DEF JitterEqual
    <2> HIDE DEF Jittered
    <2>3. QED
      BY <1>1, <2>1, <2>2 DEF SomeWaits
  <1>5. /\ JitterDecorrelated(inner, state) \in SomeWaits
        /\ \A j \in JitterDecorrelated(inner, state) : \E w \in inner : w <= j
    <2> DEFINE Upper(w) == SatMul(IF state.previous_delay = None
                                    THEN w ELSE state.previous_delay, 3)
    <2>1. ASSUME NEW w \in inner
          PROVE  RandomIn(w, Upper(w)) \in SomeWaits /\ \A j \in RandomIn(w, Upper(w)) : w <= j
      <3>1. w \in Duration /\ w \in Nat
        BY <1>1
      <3>2. state.previous_delay \in Duration \/ state.previous_delay = None
        BY DEF Asked, MaybeDuration
      <3>3. (IF state.previous_delay = None THEN w ELSE state.previous_delay) \in Nat
        BY <1>1, <3>1, <3>2
      <3>4. Upper(w) \in Duration
        BY <3>3, Saturation
      <3> HIDE DEF Upper
      <3>5. RandomIn(w, Upper(w)) \in SomeWaits
            /\ \A j \in RandomIn(w, Upper(w)) : j >= w
        BY <3>1, <3>4, RandomAnswers
      <3>6. \A j \in RandomIn(w, Upper(w)) : j \in Nat
        BY <1>1, <3>5 DEF SomeWaits
      <3>7. QED
        BY <3>1, <3>5, <3>6
    <2>2. JitterDecorrelated(inner, state) = UNION { RandomIn(w, Upper(w)) : w \in inner }
      BY DEF JitterDecorrelated
    <2> HIDE DEF Upper
    <2>3. QED
      BY <1>1, <2>1, <2>2 DEF SomeWaits
  <1>6. QED
    BY <1>2, <1>3, <1>4, <1>5
=============================================================================
