------------------------ MODULE ClockAdaptersProofs -------------------------
(***************************************************************************)
(* Proofs about the clocks of the crate, for every length of a tick, a     *)
(* microsecond and a millisecond, every longest wait of a runtime, and any *)
(* number of waits at a time.                                              *)
(***************************************************************************)
EXTENDS ClockAdapters, StrategiesProofs

-----------------------------------------------------------------------------
(***************************************************************************)
(* The sum of a sequence: the equation of the recursive function in Total, *)
(* which has a solution whatever the sequence, and what that comes to for  *)
(* the empty sequence and for one more summand.                            *)
(***************************************************************************)
IsTotals(f, durs, n) == f = [k \in 0 .. n |-> IF k = 0 THEN 0 ELSE f[k - 1] + durs[k]]

LEMMA TotalsExist ==
    ASSUME NEW durs, NEW n \in Nat
    PROVE  \E f : IsTotals(f, durs, n)
  <1> DEFINE S == { m \in Nat : \E f : IsTotals(f, durs, m) }
  <1>1. 0 \in S
    <2> DEFINE f == [k \in 0 .. 0 |-> 0]
    <2>1. f = [k \in 0 .. 0 |-> IF k = 0 THEN 0 ELSE f[k - 1] + durs[k]]
      OBVIOUS
    <2> HIDE DEF f
    <2>2. QED
      BY <2>1 DEF IsTotals
  <1>2. ASSUME NEW m \in Nat, m \in S PROVE m + 1 \in S
    <2>1. PICK f : IsTotals(f, durs, m)
      BY <1>2
    <2> DEFINE g == [k \in 0 .. m + 1 |-> IF k <= m THEN f[k] ELSE f[m] + durs[k]]
    <2>2. \A k \in 0 .. m + 1 : g[k] = IF k = 0 THEN 0 ELSE g[k - 1] + durs[k]
      <3> SUFFICES ASSUME NEW k \in 0 .. m + 1
                   PROVE  g[k] = IF k = 0 THEN 0 ELSE g[k - 1] + durs[k]
        OBVIOUS
      <3>1. CASE k <= m
        BY <2>1, <3>1 DEF IsTotals
      <3>2. CASE k = m + 1
        BY <3>2
      <3>3. QED
        BY <3>1, <3>2
    <2>3. g = [k \in 0 .. m + 1 |-> g[k]]
      OBVIOUS
    <2> HIDE DEF g
    <2>4. g = [k \in 0 .. m + 1 |-> IF k = 0 THEN 0 ELSE g[k - 1] + durs[k]]
      BY <2>2, <2>3
    <2>5. QED
      BY <2>4 DEF IsTotals
  <1> HIDE DEF S
  <1>3. Nat \subseteq S
    BY <1>1, <1>2, NumbersAreReached
  <1>4. QED
    BY <1>3 DEF S

\* The sums of a sequence of numbers are numbers, and those of a longer
\* sequence go through the same.
LEMMA TotalsAgree ==
    ASSUME NEW durs \in Seq(Nat), NEW more,
           \A k \in 1 .. Len(durs) : more[k] = durs[k],
           NEW n \in Nat, Len(durs) <= n,
           NEW f, NEW g, IsTotals(f, durs, Len(durs)), IsTotals(g, more, n)
    PROVE  \A k \in 0 .. Len(durs) : f[k] = g[k] /\ f[k] \in Nat
  <1> DEFINE S == { k \in Nat : k <= Len(durs) => f[k] = g[k] /\ f[k] \in Nat }
  <1>1. 0 \in S
    BY DEF IsTotals
  <1>2. ASSUME NEW k \in Nat, k \in S PROVE k + 1 \in S
    <2>1. SUFFICES ASSUME k + 1 <= Len(durs)
                   PROVE  f[k + 1] = g[k + 1] /\ f[k + 1] \in Nat
      OBVIOUS
    <2>2. f[k] = g[k] /\ f[k] \in Nat
      BY <1>2, <2>1
    <2>3. k + 1 \in 1 .. Len(durs) /\ durs[k + 1] \in Nat /\ more[k + 1] = durs[k + 1]
      BY <2>1
    <2>4. f[k + 1] = f[k] + durs[k + 1]
      BY <2>1 DEF IsTotals
    <2>5. g[k + 1] = g[k] + more[k + 1]
      BY <2>1 DEF IsTotals
    <2>6. QED
      BY <2>2, <2>3, <2>4, <2>5
  <1> HIDE DEF S
  <1>3. Nat \subseteq S
    BY <1>1, <1>2, NumbersAreReached
  <1>4. QED
    BY <1>3 DEF S

LEMMA TotalIsATotal ==
    ASSUME NEW durs \in Seq(Nat)
    PROVE  \E f : IsTotals(f, durs, Len(durs)) /\ Total(durs) = f[Len(durs)]
  <1> DEFINE f == CHOOSE f : IsTotals(f, durs, Len(durs))
  <1>1. IsTotals(f, durs, Len(durs))
    <2>1. Len(durs) \in Nat
      OBVIOUS
    <2>2. QED
      BY <2>1, TotalsExist
  <1>2. Total(durs) = f[Len(durs)]
    BY DEF Total, IsTotals
  <1> HIDE DEF f
  <1>3. QED
    BY <1>1, <1>2

LEMMA TotalOfNothing == Total(<<>>) = 0
  <1>1. <<>> \in Seq(Nat) /\ Len(<<>>) = 0
    OBVIOUS
  <1>2. PICK f : IsTotals(f, <<>>, 0) /\ Total(<<>>) = f[0]
    BY <1>1, TotalIsATotal
  <1>3. QED
    BY <1>2 DEF IsTotals

LEMMA TotalOfOneMore ==
    ASSUME NEW durs \in Seq(Nat), NEW dur \in Nat
    PROVE  /\ Total(durs) \in Nat
           /\ Total(Append(durs, dur)) = Total(durs) + dur
  <1> DEFINE more == Append(durs, dur)
             n == Len(durs)
  <1>1. more \in Seq(Nat) /\ n \in Nat /\ Len(more) = n + 1 /\ more[n + 1] = dur
        /\ \A k \in 1 .. n : more[k] = durs[k]
    OBVIOUS
  <1>2. PICK f : IsTotals(f, durs, n) /\ Total(durs) = f[n]
    BY TotalIsATotal
  <1>3. PICK g : IsTotals(g, more, n + 1) /\ Total(more) = g[n + 1]
    BY <1>1, TotalIsATotal
  <1> HIDE DEF more
  <1>4. g[n] = f[n] /\ f[n] \in Nat
    <2>1. n + 1 \in Nat /\ n <= n + 1 /\ n \in 0 .. n
      BY <1>1
    <2>2. \A k \in 0 .. n : f[k] = g[k] /\ f[k] \in Nat
      BY <1>1, <1>2, <1>3, <2>1, TotalsAgree
    <2>3. QED
      BY <2>1, <2>2
  <1>5. g[n + 1] = g[n] + dur
    BY <1>1, <1>3 DEF IsTotals
  <1>6. QED
    BY <1>2, <1>3, <1>4, <1>5 DEF more

-----------------------------------------------------------------------------
\* Divisions of durations and of times.

LEMMA Units ==
    /\ DurMax \in Nat /\ Duration \subseteq Nat /\ Requests \subseteq Duration
    /\ NanosPerMilli \in Nat \ {0} /\ NanosPerMicro \in Nat \ {0}
    /\ MicrosPerSec \in Nat \ {0} /\ TickHz \in Nat \ {0}
    /\ MaxMillis \in Nat /\ MaxTicks \in Nat /\ InstantMax \in Nat /\ FarFuture \in Nat
    /\ None \notin Nat
  BY AdapterAssumption, DurMaxAssumption DEF Duration

LEMMA Division ==
    ASSUME NEW a \in Nat, NEW b \in Nat \ {0}
    PROVE  /\ a \div b \in Nat /\ a % b \in Nat /\ a % b < b
           /\ a = b * (a \div b) + (a % b)
  OBVIOUS

\* The quotient is the largest number whose multiple fits.
LEMMA QuotientIsLargest ==
    ASSUME NEW a \in Nat, NEW b \in Nat \ {0}, NEW q \in Nat, b * q <= a
    PROVE  q <= a \div b
  <1>1. PICK d \in Nat, r \in Nat : d = a \div b /\ r < b /\ a = b * d + r
    BY Division
  <1>2. SUFFICES ASSUME d < q PROVE FALSE
    BY <1>1
  <1>3. d + 1 <= q
    BY <1>2
  <1>4. b * (d + 1) <= b * q
    BY <1>3
  <1>5. b * (d + 1) = b * d + b
    OBVIOUS
  <1>6. b * d \in Nat /\ b * q \in Nat
    OBVIOUS
  <1>7. QED
    BY <1>1, <1>4, <1>5, <1>6

LEMMA QuotientFits ==
    ASSUME NEW a \in Nat, NEW b \in Nat \ {0}
    PROVE  b * (a \div b) <= a /\ (a \div b) * b <= a
  <1>1. PICK d \in Nat, r \in Nat : d = a \div b /\ r < b /\ a = b * d + r
    BY Division
  <1>2. d * b = b * d /\ b * d \in Nat
    OBVIOUS
  <1>3. QED
    BY <1>1, <1>2

LEMMA QuotientGrows ==
    ASSUME NEW a \in Nat, NEW c \in Nat, NEW b \in Nat \ {0}, a <= c
    PROVE  a \div b <= c \div b
  <1>1. PICK d \in Nat : d = a \div b /\ b * d <= a
    BY Division, QuotientFits
  <1>2. b * d <= c
    BY <1>1
  <1>3. QED
    BY <1>1, <1>2, QuotientIsLargest

\* Rounding up to ticks and back down to microseconds loses nothing.
LEMMA CeilingIsEnough ==
    ASSUME NEW a \in Nat, NEW b \in Nat \ {0}
    PROVE  CeilDiv(a, b) \in Nat /\ a <= CeilDiv(a, b) * b
  <1>1. PICK m \in Nat : m = a + b - 1
    OBVIOUS
  <1>2. PICK d \in Nat, r \in Nat : d = m \div b /\ r < b /\ m = b * d + r
    BY Division
  <1>3. d * b = b * d /\ b * d \in Nat
    OBVIOUS
  <1>4. a <= d * b
    BY <1>1, <1>2, <1>3
  <1>5. QED
    BY <1>1, <1>2, <1>4 DEF CeilDiv

\* It gives no more ticks than a bound that is enough.
LEMMA CeilingIsLeast ==
    ASSUME NEW a \in Nat, NEW b \in Nat \ {0}, NEW n \in Nat, a <= n * b
    PROVE  CeilDiv(a, b) <= n
  <1>1. PICK m \in Nat : m = a + b - 1
    OBVIOUS
  <1>2. PICK d \in Nat, r \in Nat : d = m \div b /\ r < b /\ m = b * d + r
    BY Division
  <1>3. SUFFICES ASSUME n + 1 <= d PROVE FALSE
    BY <1>1, <1>2 DEF CeilDiv
  <1>4. b * (n + 1) <= b * d
    BY <1>3
  <1>5. b * (n + 1) = n * b + b /\ n * b \in Nat /\ b * d \in Nat
    OBVIOUS
  <1>6. QED
    BY <1>1, <1>2, <1>4, <1>5

-----------------------------------------------------------------------------
(***************************************************************************)
(* The readings. What a wait is armed for is enough when the clock, at the *)
(* moment its timer is due, will read what it owes; readings never         *)
(* decrease, so a poll that comes later finds no less.                     *)
(***************************************************************************)
ReadingAt(t) ==
    CASE adapter = "embassy" -> ((t * MicrosPerSec) \div TickHz) * NanosPerMicro
      [] adapter = "system"  -> t - anchor
      [] OTHER               -> t

LEMMA EmbassyReadings ==
    ASSUME NEW t \in Nat
    PROVE  ((t * MicrosPerSec) \div TickHz) * NanosPerMicro \in Nat
  <1>1. t * MicrosPerSec \in Nat
    BY Units
  <1>2. (t * MicrosPerSec) \div TickHz \in Nat
    BY <1>1, Units, Division
  <1>3. QED
    BY <1>2, Units

LEMMA ReadingsNeverDecrease ==
    ASSUME NEW t \in Nat, NEW u \in Nat, t <= u, adapter = "system" => anchor \in Nat
    PROVE  ReadingAt(t) <= ReadingAt(u)
  <1>1. CASE adapter = "embassy"
    <2>1. PICK a \in Nat, b \in Nat :
              a = t * MicrosPerSec /\ b = u * MicrosPerSec /\ a <= b
      BY Units
    <2>2. PICK c \in Nat, d \in Nat : c = a \div TickHz /\ d = b \div TickHz /\ c <= d
      BY <2>1, QuotientGrows, Division, Units
    <2>3. c * NanosPerMicro <= d * NanosPerMicro
      BY <2>2, Units
    <2>4. QED
      BY <1>1, <2>1, <2>2, <2>3 DEF ReadingAt
  <1>2. CASE adapter # "embassy"
    BY <1>2 DEF ReadingAt
  <1>3. QED
    BY <1>1, <1>2

\* Ticks are waited for whole: those of the microseconds asked for, or as many as
\* there are.
LEMMA EmbassyTicksAreEnough ==
    ASSUME NEW t \in Nat, NEW dur \in Duration
    PROVE  (((t + EmbassyTicks(dur)) * MicrosPerSec) \div TickHz) * NanosPerMicro
             >= ((t * MicrosPerSec) \div TickHz) * NanosPerMicro
                  + Least(dur - (dur % NanosPerMicro),
                          ((MaxTicks * MicrosPerSec) \div TickHz) * NanosPerMicro)
  <1>1. PICK q \in Nat, r \in Nat :
            /\ q = dur \div NanosPerMicro /\ r = dur % NanosPerMicro
            /\ r < NanosPerMicro /\ dur = NanosPerMicro * q + r
    BY Division, Units
  <1>2. PICK m \in Nat : m = (MaxTicks * MicrosPerSec) \div TickHz
                         /\ m * TickHz <= MaxTicks * MicrosPerSec
    <2>1. MaxTicks * MicrosPerSec \in Nat
      BY Units
    <2>2. QED
      BY <2>1, Division, QuotientFits, Units
  <1>3. PICK a \in Nat : a = q * TickHz
    BY Units
  <1>4. PICK j \in Nat : j = CeilDiv(a, MicrosPerSec) /\ a <= j * MicrosPerSec
    BY CeilingIsEnough, Units
  <1>5. PICK k \in Nat : k = EmbassyTicks(dur) /\ k = Least(j, MaxTicks)
    BY <1>1, <1>3, <1>4, Units DEF EmbassyTicks, Least
  \* The microseconds that these ticks are sure to take.
  <1>6. PICK w \in Nat : w \in {q, m} /\ w * TickHz <= k * MicrosPerSec
    <2>1. CASE k = j
      BY <1>3, <1>4, <2>1
    <2>2. CASE k = MaxTicks
      BY <1>2, <2>2
    <2>3. QED
      BY <1>5, <2>1, <2>2 DEF Least
  <1>7. PICK b \in Nat : b = t * MicrosPerSec
    BY Units
  <1>8. PICK c \in Nat : c = b \div TickHz /\ TickHz * c <= b
    BY <1>7, Division, QuotientFits, Units
  <1>9. PICK e \in Nat : e = (t + k) * MicrosPerSec /\ e = b + k * MicrosPerSec
    <2>1. (t + k) * MicrosPerSec = t * MicrosPerSec + k * MicrosPerSec
      BY Units
    <2>2. QED
      BY <1>7, <2>1, Units
  <1>10. TickHz * (c + w) <= e
    <2>1. TickHz * (c + w) = TickHz * c + w * TickHz
      BY Units
    <2>2. PICK x \in Nat, y \in Nat, z \in Nat :
              x = TickHz * c /\ y = w * TickHz /\ z = k * MicrosPerSec
      BY Units
    <2>3. QED
      BY <1>6, <1>8, <1>9, <2>1, <2>2
  <1>11. PICK d \in Nat : d = e \div TickHz /\ c + w <= d
    <2>1. e \in Nat /\ c + w \in Nat /\ TickHz \in Nat \ {0}
      BY Units
    <2>2. c + w <= e \div TickHz
      BY <1>10, <2>1, QuotientIsLargest
    <2>3. e \div TickHz \in Nat
      BY <2>1, Division
    <2>4. QED
      BY <2>2, <2>3
  <1>12. d * NanosPerMicro >= c * NanosPerMicro + w * NanosPerMicro
    <2>1. (c + w) * NanosPerMicro <= d * NanosPerMicro
      BY <1>11, Units
    <2>2. (c + w) * NanosPerMicro = c * NanosPerMicro + w * NanosPerMicro
      BY Units
    <2>3. QED
      BY <2>1, <2>2
  <1>13. dur - r = q * NanosPerMicro
    <2>1. PICK n \in Nat : n = NanosPerMicro * q /\ n = q * NanosPerMicro
      BY Units
    <2>2. dur \in Nat
      BY Units
    <2>3. QED
      BY <1>1, <2>1, <2>2
  <1>14. PICK x \in Nat, y \in Nat, z \in Nat, u \in Nat :
             /\ x = d * NanosPerMicro /\ y = c * NanosPerMicro
             /\ z = q * NanosPerMicro /\ u = m * NanosPerMicro
    BY Units
  <1>15. x >= y + Least(z, u)
    <2>1. CASE w = q
      BY <1>12, <1>14, <2>1 DEF Least
    <2>2. CASE w = m
      BY <1>12, <1>14, <2>2 DEF Least
    <2>3. QED
      BY <1>6, <2>1, <2>2
  <1>16. QED
    BY <1>1, <1>2, <1>5, <1>7, <1>8, <1>9, <1>11, <1>13, <1>14, <1>15

\* Milliseconds likewise.
LEMMA GlooMillisAreEnough ==
    ASSUME NEW dur \in Duration
    PROVE  GlooMillis(dur) * NanosPerMilli
             = Least(dur - (dur % NanosPerMilli), MaxMillis * NanosPerMilli)
  <1>1. PICK q \in Nat, r \in Nat :
            /\ q = dur \div NanosPerMilli /\ r = dur % NanosPerMilli
            /\ r < NanosPerMilli /\ dur = NanosPerMilli * q + r
    BY Division, Units
  <1>2. PICK n \in Nat : n = q * NanosPerMilli /\ dur - r = n
    <2>1. q * NanosPerMilli = NanosPerMilli * q /\ dur - r = NanosPerMilli * q
          /\ NanosPerMilli * q \in Nat
      BY <1>1, Units
    <2>2. QED
      BY <2>1
  <1>3. CASE q <= MaxMillis
    <2>1. GlooMillis(dur) = q
      BY <1>1, <1>3, Units DEF GlooMillis, Least
    <2>2. q * NanosPerMilli <= MaxMillis * NanosPerMilli
      BY <1>3, Units
    <2>3. QED
      BY <1>1, <1>2, <2>1, <2>2 DEF Least
  <1>4. CASE MaxMillis < q
    <2>1. GlooMillis(dur) = MaxMillis
      BY <1>1, <1>4, Units DEF GlooMillis, Least
    <2>2. MaxMillis * NanosPerMilli < q * NanosPerMilli
      <3>1. (MaxMillis + 1) * NanosPerMilli <= q * NanosPerMilli
        BY <1>4, Units
      <3>2. (MaxMillis + 1) * NanosPerMilli = MaxMillis * NanosPerMilli + NanosPerMilli
        BY Units
      <3>3. PICK x \in Nat : x = MaxMillis * NanosPerMilli
        BY Units
      <3>4. QED
        BY <1>2, <3>1, <3>2, <3>3, Units
    <2>3. PICK x \in Nat : x = MaxMillis * NanosPerMilli /\ x < n
      BY <1>2, <2>2, Units
    <2>4. Least(n, x) = x
      BY <2>3 DEF Least
    <2>5. dur - (dur % NanosPerMilli) = n
      BY <1>1, <1>2
    <2>6. QED
      BY <2>1, <2>3, <2>4, <2>5
  <1>5. QED
    BY <1>1, <1>3, <1>4, Units

-----------------------------------------------------------------------------
(***************************************************************************)
(* The inductive invariant.                                                *)
(***************************************************************************)
Created == [is : {"created"}, dur : Requests, from : Nat, due : Nat]
Done    == [is : {"done"}, dur : Requests, from : Nat, at : Nat]

Shapes ==
    /\ adapter \in Adapters
    /\ time \in Nat
    /\ Virtual => time \in Duration
    /\ waits \in Seq(Requests)
    /\ advanced \in Nat /\ asked \in Seq(Requests)
    /\ future \in [Futures -> {NoFuture} \cup Created \cup Done]

\* Readings begin at the anchor, which is never ahead of the time.
AnchorInv ==
    IF adapter = "system"
      THEN anchor # None => anchor \in Nat /\ anchor <= time
      ELSE anchor = 0

\* Whoever waits has read the clock, and its timer is due late enough.
TimerInv ==
    \A f \in Futures : future[f].is = "created" =>
        /\ anchor # None
        /\ ~Virtual => ReadingAt(future[f].due) >= future[f].from + Owed(future[f])

IInv == Shapes /\ AnchorInv /\ TimerInv /\ CompletedWaitIsReflected

LEMMA RemainderIsLess ==
    ASSUME NEW a \in Nat, NEW b \in Nat \ {0}
    PROVE  a % b \in Nat /\ a % b <= a
  <1>1. PICK q \in Nat, r \in Nat : r = a % b /\ a = b * q + r
    BY Division
  <1>2. PICK n \in Nat : n = b * q
    OBVIOUS
  <1>3. QED
    BY <1>1, <1>2

LEMMA KeptIsALength ==
    ASSUME NEW dur \in Duration
    PROVE  Kept(dur) \in Nat /\ Kept(dur) <= dur
  <1>1. dur % NanosPerMilli \in Nat /\ dur % NanosPerMilli <= dur
    BY RemainderIsLess, Units
  <1>2. dur % NanosPerMicro \in Nat /\ dur % NanosPerMicro <= dur
    BY RemainderIsLess, Units
  <1>3. dur - (dur % NanosPerMilli) \in Nat /\ dur - (dur % NanosPerMilli) <= dur
    BY <1>1, Units
  <1>4. dur - (dur % NanosPerMicro) \in Nat /\ dur - (dur % NanosPerMicro) <= dur
    BY <1>2, Units
  <1>5. dur \in Nat
    BY Units
  <1>6. QED
    BY <1>3, <1>4, <1>5 DEF Kept

LEMMA ArmedIsALength ==
    ASSUME NEW dur \in Duration
    PROVE  Armed(dur) \in Nat
  <1>1. GlooMillis(dur) * NanosPerMilli \in Nat
    <2>1. GlooMillis(dur) \in Nat
      BY Division, Units DEF GlooMillis, Least
    <2>2. QED
      BY <2>1, Units
  <1>2. EmbassyTicks(dur) \in Nat
    <2>1. (dur \div NanosPerMicro) * TickHz \in Nat
      BY Division, Units
    <2>2. QED
      BY <2>1, CeilingIsEnough, Units DEF EmbassyTicks, Least
  <1>3. dur \in Nat /\ FarFuture \in Nat
    BY Units
  <1>4. QED
    BY <1>1, <1>2, <1>3 DEF Armed

LEMMA ReadingIsANumber == Shapes /\ AnchorInv => Reading \in Nat
  <1> SUFFICES ASSUME Shapes, AnchorInv PROVE Reading \in Nat
    OBVIOUS
  <1>1. CASE adapter = "embassy"
    BY <1>1, EmbassyReadings DEF Shapes, Reading
  <1>2. CASE adapter # "embassy"
    BY <1>2 DEF Shapes, AnchorInv, Reading
  <1>3. QED
    BY <1>1, <1>2

\* Once the clock has been read, the reading is that of the time.
LEMMA ReadingIsAtTheTime ==
    Shapes /\ AnchorInv /\ anchor # None => Reading = ReadingAt(time)
  BY DEF Reading, ReadingAt

LEMMA OwedIsALength ==
    ASSUME NEW wait, wait.dur \in Duration
    PROVE  Owed(wait) \in Nat
  <1>1. Kept(wait.dur) \in Nat
    BY KeptIsALength
  <1>2. Longest(wait) \in Nat
    <2>1. MaxMillis * NanosPerMilli \in Nat
      BY Units
    <2>2. ((MaxTicks * MicrosPerSec) \div TickHz) * NanosPerMicro \in Nat
      BY EmbassyReadings, Units
    <2>3. QED
      BY <2>1, <2>2, Units DEF Longest
  <1>3. QED
    BY <1>1, <1>2 DEF Owed, Least

\* The timer that is armed now is due late enough.
LEMMA ArmedIsEnough ==
    ASSUME Shapes, AnchorInv, ~Virtual,
           NEW dur \in Requests,
           NEW wait, wait.dur = dur, wait.from = Reading,
           NEW a \in Nat, a = IF anchor = None THEN time ELSE anchor
    PROVE  (CASE adapter = "embassy" ->
                   (((time + Armed(dur)) * MicrosPerSec) \div TickHz) * NanosPerMicro
              [] adapter = "system"  -> (time + Armed(dur)) - a
              [] OTHER               -> time + Armed(dur))
             >= Reading + Owed(wait)
  <1>1. dur \in Duration /\ dur \in Nat /\ time \in Nat
    BY Units DEF Shapes
  <1>2. CASE adapter = "embassy"
    BY <1>1, <1>2, EmbassyTicksAreEnough DEF Armed, Reading, Kept, Longest, Owed
  <1>3. CASE adapter = "gloo"
    <2>1. Armed(dur) = Owed(wait)
      BY <1>1, <1>3, GlooMillisAreEnough DEF Armed, Kept, Longest, Owed
    <2>2. Armed(dur) \in Nat
      BY <1>1, ArmedIsALength
    <2>3. QED
      BY <1>1, <1>3, <2>1, <2>2 DEF Reading
  <1>4. CASE adapter = "system"
    <2>1. Armed(dur) = dur /\ Owed(wait) = dur
      BY <1>1, <1>4 DEF Armed, Kept, Longest, Owed, Least
    <2>2. QED
      BY <1>1, <1>4, <2>1 DEF Reading, AnchorInv
  <1>5. CASE adapter = "tokio"
    <2>1. Reading = time /\ Kept(dur) = dur
      BY <1>5 DEF Reading, Kept
    <2>2. CASE time + dur <= InstantMax
      <3>1. Armed(dur) = dur /\ Owed(wait) = dur
        BY <1>1, <1>5, <2>1, <2>2, Units DEF Armed, Longest, Owed, Least
      <3>2. QED
        BY <1>1, <1>5, <2>1, <3>1
    <2>3. CASE time + dur > InstantMax
      <3>1. Armed(dur) = FarFuture /\ Owed(wait) = Least(dur, FarFuture)
        BY <1>1, <1>5, <2>1, <2>3, Units DEF Armed, Longest, Owed
      <3>2. QED
        BY <1>1, <1>5, <2>1, <3>1, Units DEF Least
    <2>4. QED
      BY <1>1, <2>2, <2>3, Units
  <1>6. CASE adapter = "futures"
    <2>1. Armed(dur) = dur /\ Owed(wait) = dur /\ Reading = time
      BY <1>1, <1>6 DEF Armed, Kept, Longest, Owed, Least, Reading
    <2>2. QED
      BY <1>1, <1>6, <2>1
  <1>7. QED
    BY <1>2, <1>3, <1>4, <1>5, <1>6, AdapterAssumption DEF Shapes, Virtual

LEMMA ShapesOf ==
    ASSUME Shapes, NEW f \in Futures
    PROVE  /\ future[f].is = "created" => future[f] \in Created
           /\ future[f].is = "done" => future[f] \in Done
  BY DEF Shapes, NoFuture, Created, Done

LEMMA NextShapes == IInv /\ [Next]_vars => Shapes'
  <1> SUFFICES ASSUME IInv, [Next]_vars PROVE Shapes'
    OBVIOUS
  <1> USE DEF Virtual
  <1>1. Shapes /\ Reading \in Nat
    BY ReadingIsANumber DEF IInv
  <1>2. ASSUME NEW dur \in Requests
        PROVE  /\ dur \in Nat
               /\ Virtual => SatAdd(time, dur) \in Duration /\ SatAdd(time, dur) \in Nat
    BY <1>1, Units DEF Shapes, SatAdd, Least, Duration
  <1>3. CASE Elapse
    BY <1>1, <1>3 DEF Shapes, Elapse, history
  <1>4. CASE \E dur \in Requests : Advance(dur) \/ SyncWait(dur)
    <2>1. PICK dur \in Requests : Advance(dur) \/ SyncWait(dur)
      BY <1>4
    <2>2. CASE Advance(dur)
      BY <1>1, <1>2, <2>2 DEF Shapes, Advance
    <2>3. CASE SyncWait(dur)
      BY <1>1, <1>2, <2>3 DEF Shapes, SyncWait, RecordWait
    <2>4. QED
      BY <2>1, <2>2, <2>3
  <1>5. CASE \E f \in Futures, dur \in Requests : WaitAsync(f, dur)
    <2>1. PICK f \in Futures, dur \in Requests : WaitAsync(f, dur)
      BY <1>5
    <2>2. time + Armed(dur) \in Nat
      BY <1>1, ArmedIsALength, Units DEF Shapes
    <2>3. [is |-> "created", dur |-> dur, from |-> Reading, due |-> time + Armed(dur)]
            \in Created
      BY <1>1, <2>2 DEF Created
    <2>4. QED
      BY <1>1, <2>1, <2>3 DEF Shapes, WaitAsync, history
  <1>6. CASE \E f \in Futures : PollVirtual(f) \/ PollTimer(f) \/ PollIdle(f) \/ DropWait(f)
    <2>1. PICK f \in Futures : PollVirtual(f) \/ PollTimer(f) \/ PollIdle(f) \/ DropWait(f)
      BY <1>6
    <2>2. CASE PollVirtual(f) /\ future[f].is = "created"
      <3>1. future[f] \in Created /\ future[f].dur \in Requests
        BY <1>1, <2>2, ShapesOf DEF Created
      <3>2. RecordWait(future[f].dur) /\ Complete(f, time, time') /\ asked' = asked /\ Virtual
        BY <2>2 DEF PollVirtual
      <3>3. time' \in Nat /\ time' \in Duration /\ time \in Nat
        BY <1>1, <1>2, <3>1, <3>2 DEF RecordWait, Shapes
      <3>4. [is |-> "done", dur |-> future[f].dur, from |-> time, at |-> time'] \in Done
        BY <3>1, <3>3 DEF Done
      <3>5. future' \in [Futures -> {NoFuture} \cup Created \cup Done]
        BY <1>1, <3>2, <3>4 DEF Complete, Shapes
      <3>6. waits' \in Seq(Requests)
        BY <1>1, <3>1, <3>2 DEF RecordWait, Shapes
      <3>7. QED
        BY <1>1, <3>2, <3>3, <3>5, <3>6 DEF RecordWait, Shapes
    <2>7. CASE PollVirtual(f) /\ future[f].is = "done"
      BY <1>1, <2>7 DEF PollVirtual, Shapes, vars, history
    <2>3. CASE PollTimer(f)
      <3>1. future[f] \in Created /\ future[f].dur \in Requests /\ future[f].from \in Nat
        BY <1>1, <2>3, ShapesOf DEF PollTimer, Created
      <3>2. [is |-> "done", dur |-> future[f].dur, from |-> future[f].from, at |-> Reading]
              \in Done
        BY <1>1, <3>1 DEF Done
      <3>3. QED
        BY <1>1, <2>3, <3>2 DEF PollTimer, Complete, Shapes, history
    <2>4. CASE PollIdle(f)
      BY <1>1, <2>4 DEF PollIdle, Shapes, vars, history
    <2>5. CASE DropWait(f)
      BY <1>1, <2>5 DEF DropWait, Shapes, history
    <2>6. QED
      BY <2>1, <2>2, <2>3, <2>4, <2>5, <2>7 DEF PollVirtual
  <1>7. CASE UNCHANGED vars
    BY <1>1, <1>7 DEF Shapes, vars, history
  <1>8. QED
    BY <1>3, <1>4, <1>5, <1>6, <1>7 DEF Next

LEMMA NextAnchorInv == IInv /\ [Next]_vars => AnchorInv'
  <1> SUFFICES ASSUME IInv, [Next]_vars PROVE AnchorInv'
    OBVIOUS
  <1>1. AnchorInv /\ time \in Nat
    BY DEF IInv, Shapes
  <1>2. CASE Elapse
    BY <1>1, <1>2 DEF Elapse, AnchorInv
  <1>3. CASE Virtual /\ adapter' = adapter /\ anchor' = anchor
    BY <1>1, <1>3 DEF AnchorInv, Virtual
  <1>4. CASE adapter' = adapter /\ time' = time /\ anchor' = anchor
    BY <1>1, <1>4 DEF AnchorInv
  <1>5. CASE Anchored /\ adapter' = adapter /\ time' = time
    BY <1>1, <1>5, Units DEF AnchorInv, Anchored
  <1>6. QED
    BY <1>2, <1>3, <1>4, <1>5
    DEF Next, Advance, SyncWait, RecordWait, WaitAsync, PollVirtual, PollTimer, PollIdle,
        DropWait, vars

\* A clock stays what it is, and a reading once made has anchored it.
LEMMA SameClock ==
    ASSUME [Next]_vars
    PROVE  adapter' = adapter /\ (anchor # None => anchor' = anchor)
  BY DEF Next, Elapse, Advance, SyncWait, RecordWait, WaitAsync, Anchored, PollVirtual,
         PollTimer, PollIdle, DropWait, vars

\* What can become of a wait in a step.
LEMMA StepsOfAWait ==
    ASSUME IInv, [Next]_vars, NEW f \in Futures
    PROVE  \/ future'[f] = future[f]
           \/ future'[f] = NoFuture
           \/ \E dur \in Requests : WaitAsync(f, dur)
           \/ PollVirtual(f) /\ future[f].is = "created"
           \/ PollTimer(f)
  <1>1. CASE \E g \in Futures, dur \in Requests : WaitAsync(g, dur)
    BY <1>1 DEF WaitAsync, IInv, Shapes
  <1>2. CASE \E g \in Futures : PollVirtual(g) \/ PollTimer(g) \/ PollIdle(g) \/ DropWait(g)
    <2>1. PICK g \in Futures : PollVirtual(g) \/ PollTimer(g) \/ PollIdle(g) \/ DropWait(g)
      BY <1>2
    <2>2. CASE f = g
      <3>1. CASE PollVirtual(f) /\ future[f].is # "created"
        BY <3>1 DEF PollVirtual, vars
      <3>2. CASE PollIdle(f)
        BY <3>2 DEF PollIdle, vars
      <3>3. CASE DropWait(f)
        BY <3>3 DEF DropWait, IInv, Shapes
      <3>4. QED
        BY <2>1, <2>2, <3>1, <3>2, <3>3
    <2>3. CASE f # g
      <3>1. \/ future' = future
            \/ \E value : future' = [future EXCEPT ![g] = value]
        BY <2>1 DEF PollVirtual, PollTimer, PollIdle, DropWait, Complete, vars
      <3>2. QED
        BY <2>3, <3>1 DEF IInv, Shapes
    <2>4. QED
      BY <2>2, <2>3
  <1>3. CASE future' = future
    BY <1>3
  <1>4. QED
    BY <1>1, <1>2, <1>3 DEF Next, Elapse, Advance, SyncWait, vars

LEMMA NextTimerInv == IInv /\ [Next]_vars => TimerInv'
  <1> SUFFICES ASSUME IInv, [Next]_vars, NEW f \in Futures, future'[f].is = "created"
               PROVE  /\ anchor' # None
                      /\ ~Virtual' =>
                            (ReadingAt(future[f].due) >= future[f].from + Owed(future[f]))'
    BY DEF TimerInv
  <1>1. adapter' = adapter /\ (anchor # None => anchor' = anchor)
    BY SameClock
  <1>2. CASE future'[f] = future[f]
    BY <1>1, <1>2 DEF IInv, TimerInv, Virtual, ReadingAt, Owed, Longest, Kept
  <1>3. CASE \E dur \in Requests : WaitAsync(f, dur)
    <2>1. PICK dur \in Requests : WaitAsync(f, dur)
      BY <1>3
    <2>2. future'[f] = [is |-> "created", dur |-> dur, from |-> Reading,
                        due |-> time + Armed(dur)]
      BY <2>1 DEF WaitAsync, IInv, Shapes
    <2>3. PICK a \in Nat : a = anchor' /\ a = IF anchor = None THEN time ELSE anchor
      BY <2>1, Units DEF WaitAsync, Anchored, IInv, AnchorInv, Shapes
    <2>4. ASSUME ~Virtual'
          PROVE  (ReadingAt(future[f].due) >= future[f].from + Owed(future[f]))'
      <3>1. ~Virtual
        BY <1>1, <2>4 DEF Virtual
      <3>2. (CASE adapter = "embassy" ->
                   (((time + Armed(dur)) * MicrosPerSec) \div TickHz) * NanosPerMicro
               [] adapter = "system"  -> (time + Armed(dur)) - a
               [] OTHER               -> time + Armed(dur))
              >= Reading + Owed(future'[f])
        BY <2>2, <2>3, <3>1, ArmedIsEnough DEF IInv
      <3>3. QED
        BY <1>1, <2>2, <2>3, <3>2 DEF ReadingAt, Owed, Longest, Kept
    <2>5. QED
      BY <2>3, <2>4, Units
  <1>4. QED
    BY <1>2, <1>3, StepsOfAWait DEF NoFuture, PollVirtual, PollTimer, Complete, IInv, Shapes

LEMMA NextReflected == IInv /\ [Next]_vars => CompletedWaitIsReflected'
  <1> SUFFICES ASSUME IInv, [Next]_vars, NEW f \in Futures, future'[f].is = "done"
               PROVE  (future[f].at >= Least(future[f].from + Owed(future[f]), DurMax))'
    BY DEF CompletedWaitIsReflected
  <1>1. adapter' = adapter
    BY SameClock
  <1>2. CASE future'[f] = future[f]
    BY <1>1, <1>2 DEF IInv, CompletedWaitIsReflected, Owed, Longest, Kept
  <1>3. CASE PollVirtual(f) /\ future[f].is = "created"
    <2>1. future[f].dur \in Nat /\ time \in Nat
      BY <1>3, ShapesOf, Units DEF IInv, Shapes, Created
    <2>2. future'[f] = [is |-> "done", dur |-> future[f].dur, from |-> time, at |-> time']
      BY <1>3 DEF PollVirtual, Complete, IInv, Shapes
    <2>3. time' = Least(time + future[f].dur, DurMax)
      BY <1>3 DEF PollVirtual, RecordWait, SatAdd
    <2>4. Owed(future[f])' = future'[f].dur
      BY <1>1, <1>3, <2>1, <2>2 DEF Owed, Longest, Kept, Least, PollVirtual, Virtual
    <2>5. QED
      BY <2>1, <2>2, <2>3, <2>4, Units DEF Least
  <1>4. CASE PollTimer(f)
    <2>1. /\ future[f] \in Created /\ future[f].dur \in Duration
          /\ future[f].from \in Nat /\ future[f].due \in Nat
      BY <1>4, ShapesOf, Units DEF PollTimer, IInv, Created
    <2>2. future'[f] = [is |-> "done", dur |-> future[f].dur, from |-> future[f].from,
                        at |-> Reading]
      BY <1>4 DEF PollTimer, Complete, IInv, Shapes
    <2>3. /\ anchor # None
          /\ ReadingAt(future[f].due) >= future[f].from + Owed(future[f])
      BY <1>4 DEF PollTimer, IInv, TimerInv
    <2>4. Reading = ReadingAt(time)
      BY <2>3, ReadingIsAtTheTime DEF IInv
    <2>5. ReadingAt(future[f].due) <= ReadingAt(time)
      BY <1>4, <2>1, <2>3, ReadingsNeverDecrease DEF PollTimer, IInv, Shapes, AnchorInv
    <2>6. PICK n \in Nat : n = future[f].from + Owed(future[f])
      BY <2>1, OwedIsALength
    <2>7. Reading \in Nat /\ ReadingAt(future[f].due) \in Int
      <3>1. CASE adapter = "embassy"
        BY <2>1, <3>1, EmbassyReadings, ReadingIsANumber DEF ReadingAt, IInv
      <3>2. CASE adapter # "embassy"
        BY <2>1, <2>3, <3>2, ReadingIsANumber DEF ReadingAt, IInv, AnchorInv
      <3>3. QED
        BY <3>1, <3>2
    <2>8. Reading >= n
      BY <2>3, <2>4, <2>5, <2>6, <2>7
    <2>9. Reading >= Least(n, DurMax)
      BY <2>7, <2>8, Units DEF Least
    <2>10. Owed(future[f])' = Owed(future[f])
      BY <1>1, <2>2 DEF Owed, Longest, Kept
    <2>11. QED
      BY <2>2, <2>6, <2>9, <2>10
  <1>5. QED
    BY <1>2, <1>3, <1>4, StepsOfAWait DEF NoFuture, WaitAsync, IInv, Shapes

LEMMA Invariance == Spec => []IInv
  <1>1. Init => IInv
    <2> SUFFICES ASSUME Init PROVE IInv
      OBVIOUS
    <2>1. \A f \in Futures : future[f].is = "none"
      BY DEF Init, NoFuture
    <2>2. Shapes
      BY Units DEF Init, Shapes, Duration
    <2>3. AnchorInv
      BY DEF Init, AnchorInv
    <2>4. TimerInv /\ CompletedWaitIsReflected
      BY <2>1 DEF TimerInv, CompletedWaitIsReflected
    <2>5. QED
      BY <2>2, <2>3, <2>4 DEF IInv
  <1>2. IInv /\ [Next]_vars => IInv'
    BY NextShapes, NextAnchorInv, NextTimerInv, NextReflected DEF IInv
  <1>3. QED
    BY <1>1, <1>2, PTL DEF Spec

-----------------------------------------------------------------------------
\* Every variable holds a value of its Rust type; a virtual time is a Duration.
THEOREM TypeCorrect == Spec => []TypeOK
  <1>1. IInv => TypeOK
    <2> SUFFICES ASSUME IInv PROVE TypeOK
      OBVIOUS
    <2>1. anchor \in Nat \cup {None}
      BY DEF IInv, AnchorInv
    <2>2. \A f \in Futures : future[f] = NoFuture \/ future[f] \in Created \/ future[f] \in Done
      BY DEF IInv, Shapes
    <2>3. QED
      BY <2>1, <2>2 DEF IInv, Shapes, TypeOK, Created, Done
  <1>2. QED
    BY <1>1, Invariance, PTL

(***************************************************************************)
(* Whatever the lengths of ticks, microseconds and milliseconds, and       *)
(* whenever a completed wait is polled: the clock has advanced by what is  *)
(* left of the duration in the units of the runtime (Clock, wait_async).   *)
(***************************************************************************)
THEOREM WaitsAreReflected == Spec => []CompletedWaitIsReflected
  <1>1. IInv => CompletedWaitIsReflected
    BY DEF IInv
  <1>2. QED
    BY <1>1, Invariance, PTL

LEMMA StepsOfTheRecord ==
    ASSUME IInv, [Next]_vars, Virtual
    PROVE  Unrecorded \/ \E dur \in Requests : Recorded(dur)
  <1>1. /\ time \in Nat /\ time <= DurMax /\ DurMax \in Nat /\ advanced \in Nat
        /\ future \in [Futures -> {NoFuture} \cup Created \cup Done]
    BY Units DEF IInv, Shapes, Duration
  <1>2. ASSUME waits' = waits, asked' = asked, advanced' = advanced, time' = time,
               Completed = {}
        PROVE  Unrecorded
    BY <1>1, <1>2 DEF Unrecorded, SatAdd, Least
  <1>3. ASSUME future' = future PROVE Completed = {}
    BY <1>3 DEF Completed
  <1>4. CASE \E dur \in Requests : Advance(dur)
    <2>1. PICK dur \in Requests : Advance(dur)
      BY <1>4
    <2>2. advanced' - advanced = dur
      BY <1>1, <2>1, Units DEF Advance
    <2>3. QED
      BY <1>3, <2>1, <2>2 DEF Advance, Unrecorded
  <1>5. CASE \E dur \in Requests : SyncWait(dur)
    BY <1>5 DEF SyncWait, RecordWait, Recorded
  <1>6. CASE \E f \in Futures, dur \in Requests : WaitAsync(f, dur)
    <2>1. PICK f \in Futures, dur \in Requests : WaitAsync(f, dur)
      BY <1>6
    <2>2. future[f].is # "created"
      BY <2>1 DEF WaitAsync
    <2>3. \A g \in Futures : g # f => future'[g] = future[g]
      BY <1>1, <2>1 DEF WaitAsync
    <2>4. Completed = {}
      BY <2>2, <2>3 DEF Completed
    <2>5. QED
      BY <1>2, <2>1, <2>4 DEF WaitAsync, history
  <1>7. CASE \E f \in Futures : PollVirtual(f) /\ future[f].is = "created"
    <2>1. PICK f \in Futures : PollVirtual(f) /\ future[f].is = "created"
      BY <1>7
    <2>2. future[f].dur \in Requests
      BY <1>1, <2>1, ShapesOf DEF IInv, Created
    <2>3. RecordWait(future[f].dur) /\ Complete(f, time, time') /\ asked' = asked
      BY <2>1 DEF PollVirtual
    <2>4. /\ future'[f].is = "done"
          /\ \A g \in Futures : g # f => future'[g] = future[g]
      BY <1>1, <2>3 DEF Complete
    <2>5. Completed = {f}
      BY <2>1, <2>4 DEF Completed
    <2>6. QED
      BY <2>2, <2>3, <2>5 DEF RecordWait, Recorded
  <1>8. CASE \E f \in Futures : DropWait(f)
    <2>1. PICK f \in Futures : DropWait(f)
      BY <1>8
    <2>2. /\ future'[f].is = "none"
          /\ \A g \in Futures : g # f => future'[g] = future[g]
      BY <1>1, <2>1 DEF DropWait, NoFuture
    <2>3. Completed = {}
      BY <2>2 DEF Completed
    <2>4. QED
      BY <1>2, <2>1, <2>3 DEF DropWait, history
  <1>9. CASE UNCHANGED vars
    BY <1>2, <1>3, <1>9 DEF vars, history
  <1>10. QED
    BY <1>4, <1>5, <1>6, <1>7, <1>8, <1>9
    DEF Next, Elapse, PollVirtual, PollTimer, PollIdle

(***************************************************************************)
(* However many waits share a virtual clock: each record is that of one    *)
(* call of wait() or of the one poll that completed a future, and moves    *)
(* the time by what was waited for; creating a future, polling it again    *)
(* and dropping it records nothing and moves nothing (VirtualWait::poll).  *)
(***************************************************************************)
THEOREM RecordsAreMadeOnce == Spec => OneRecordPerWait
  <1>1. IInv /\ [Next]_vars
          => [Virtual => Unrecorded \/ \E dur \in Requests : Recorded(dur)]_vars
    BY StepsOfTheRecord
  <1>2. QED
    BY <1>1, Invariance, PTL DEF Spec, OneRecordPerWait

\* A sequence over a set is one over a larger set.
LEMMA SeqOfMore ==
    ASSUME NEW S, NEW T, S \subseteq T
    PROVE  \A s \in Seq(S) : s \in Seq(T)
  <1> SUFFICES ASSUME NEW s \in Seq(S) PROVE s \in Seq(T)
    OBVIOUS
  <1>1. Len(s) \in Nat /\ s = [k \in 1 .. Len(s) |-> s[k]]
    OBVIOUS
  <1>2. \A k \in 1 .. Len(s) : s[k] \in T
    OBVIOUS
  <1>3. QED
    BY <1>1, <1>2

\* Saturating a sum of saturated sums loses nothing.
LEMMA SaturationAddsUp ==
    ASSUME NEW sum \in Nat, NEW dur \in Nat
    PROVE  SatAdd(Least(sum, DurMax), dur) = Least(sum + dur, DurMax)
  BY Units DEF SatAdd, Least

LEMMA NextAddsUp == IInv /\ VirtualTimeAddsUp /\ [Next]_vars => VirtualTimeAddsUp'
  <1> SUFFICES ASSUME IInv, VirtualTimeAddsUp, [Next]_vars, Virtual'
               PROVE  time' = Least(advanced' + Total(waits'), DurMax)
    BY DEF VirtualTimeAddsUp
  <1>1. Virtual
    BY SameClock DEF Virtual
  <1>2. waits \in Seq(Nat) /\ advanced \in Nat
    <2>1. waits \in Seq(Requests) /\ advanced \in Nat
      BY DEF IInv, Shapes
    <2>2. Requests \subseteq Nat
      BY Units
    <2>3. QED
      BY <2>1, <2>2, SeqOfMore
  <1>3. PICK total \in Nat :
          /\ total = Total(waits)
          /\ \A dur \in Nat : Total(Append(waits, dur)) = total + dur
    BY <1>2, TotalOfOneMore
  <1>4. time = Least(advanced + total, DurMax)
    BY <1>1, <1>3 DEF VirtualTimeAddsUp
  <1>5. ASSUME NEW dur \in Requests, RecordWait(dur)
        PROVE  time' = Least(advanced' + Total(waits'), DurMax)
    <2>1. dur \in Nat
      BY Units
    <2>2. time' = Least((advanced + total) + dur, DurMax)
      <3>1. advanced + total \in Nat
        BY <1>2
      <3>2. time' = SatAdd(Least(advanced + total, DurMax), dur)
        BY <1>4, <1>5 DEF RecordWait
      <3>3. QED
        BY <2>1, <3>1, <3>2, SaturationAddsUp
    <2>3. Total(waits') = total + dur /\ advanced' = advanced
      BY <1>3, <1>5, <2>1 DEF RecordWait
    <2>4. (advanced + total) + dur = advanced + (total + dur)
      BY <1>2, <2>1
    <2>5. QED
      BY <2>2, <2>3, <2>4
  <1>6. CASE \E dur \in Requests : Advance(dur)
    <2>1. PICK dur \in Requests : Advance(dur)
      BY <1>6
    <2>2. dur \in Nat
      BY Units
    <2>3. time' = Least((advanced + total) + dur, DurMax)
      <3>1. advanced + total \in Nat
        BY <1>2
      <3>2. time' = SatAdd(Least(advanced + total, DurMax), dur)
        BY <1>4, <2>1 DEF Advance
      <3>3. QED
        BY <2>2, <3>1, <3>2, SaturationAddsUp
    <2>4. Total(waits') = total /\ advanced' = advanced + dur
      BY <1>3, <2>1 DEF Advance
    <2>5. (advanced + total) + dur = (advanced + dur) + total
      BY <1>2, <2>2
    <2>6. QED
      BY <2>3, <2>4, <2>5
  <1>7. CASE \E dur \in Requests : SyncWait(dur)
    BY <1>5, <1>7 DEF SyncWait
  <1>8. CASE \E f \in Futures : PollVirtual(f) /\ future[f].is = "created"
    <2>1. PICK f \in Futures : PollVirtual(f) /\ future[f].is = "created"
      BY <1>8
    <2>2. future[f].dur \in Requests
      BY <2>1, ShapesOf DEF IInv, Created
    <2>3. QED
      BY <1>5, <2>1, <2>2 DEF PollVirtual
  <1>9. CASE UNCHANGED <<time, waits, advanced>>
    BY <1>3, <1>4, <1>9
  <1>10. QED
    BY <1>1, <1>6, <1>7, <1>8, <1>9
    DEF Next, Elapse, WaitAsync, PollVirtual, PollTimer, PollIdle, DropWait, vars, history

(***************************************************************************)
(* However many waits share a virtual clock, and in whatever order they    *)
(* are created, polled, polled again and dropped: its time is the sum of   *)
(* the waits it has recorded and of what it was advanced by, saturated     *)
(* (VirtualClock).                                                         *)
(***************************************************************************)
THEOREM TimeIsTheSum == Spec => []VirtualTimeAddsUp
  <1>1. Init => VirtualTimeAddsUp
    BY TotalOfNothing, Units DEF Init, VirtualTimeAddsUp, Least
  <1>2. QED
    BY <1>1, NextAddsUp, Invariance, PTL DEF Spec
=============================================================================
