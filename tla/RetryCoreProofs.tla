-------------------------- MODULE RetryCoreProofs ---------------------------
(***************************************************************************)
(* Facts about the operators of RetryCore, for every DurMax, policy, clock *)
(* and attempt limit. Both engines' proofs rest on them.                   *)
(***************************************************************************)
EXTENDS RetryCore, TLAPS

ProgressType == [attempt : Attempts, elapsed : Duration,
                 previous_delay : MaybeDuration, total_wait : Duration]

\* Where every run starts.
LEMMA StartValues == 0 \in Duration /\ 1 \in Attempts
  BY DurMaxAssumption, RetryAssumption DEF Duration, Attempts

\* Duration arithmetic stays within Duration and is what its name says.
LEMMA DurationArithmetic ==
    ASSUME NEW a \in Duration, NEW b \in Duration
    PROVE  /\ Least(a, b) \in Duration /\ Least(a, b) <= a /\ Least(a, b) <= b
           /\ Greatest(a, b) \in Duration /\ Greatest(a, b) >= a /\ Greatest(a, b) >= b
           /\ SatAdd(a, b) \in Duration /\ SatAdd(a, b) <= a + b
           /\ SatSub(a, b) \in Duration /\ SatSub(a, b) <= a
  BY DurMaxAssumption DEF Duration, Least, Greatest, SatAdd, SatSub

\* A reading of Elapsed is a Duration, no less than the watermark nor than what
\* the clock shows.
LEMMA ReadingElapsed ==
    ASSUME NEW highest \in Duration, NEW now \in Duration, NEW origin \in Duration
    PROVE  /\ Seen(now, origin) \in Duration
           /\ ReadElapsed(highest, now, origin) \in Duration
           /\ ReadElapsed(highest, now, origin) >= highest
           /\ ReadElapsed(highest, now, origin) >= Seen(now, origin)
  BY DurationArithmetic DEF Seen, ReadElapsed

\* The next reading of a clock, and the reading after a wait, are Durations.
LEMMA ReadingsAreDurations ==
    ASSUME NEW now, NEW dur, NEW waited
    PROVE  /\ Readings(now, waited) \subseteq Duration
           /\ ReadingsAfterWait(now, dur, waited) \subseteq Duration
  BY DEF Readings, ReadingsAfterWait, Horizon

\* A clock that keeps its contract never runs backwards, and has moved by at
\* least the wait when the wait is over.
LEMMA ContractReadings ==
    ASSUME ContractClock, NEW now, NEW dur, NEW waited
    PROVE  /\ \A t \in Readings(now, waited) : t >= now
           /\ \A t \in ReadingsAfterWait(now, dur, waited) : t >= now + dur
  BY DEF ContractClock, Readings, ReadingsAfterWait, WaitLength

LEMMA NextAttemptType ==
    ASSUME NEW attempt \in Attempts
    PROVE  NextAttempt(attempt) \in Attempts
  BY RetryAssumption DEF NextAttempt, Attempts, Least

\* The state the strategies see is well formed.
LEMMA StateOfType ==
    ASSUME NEW progress \in ProgressType
    PROVE  StateOf(progress) \in RetryState
  BY DEF ProgressType, StateOf, RetryState

\* The loop ends for one of the three reasons, with well-formed stats.
LEMMA EndingsType ==
    ASSUME NEW progress \in ProgressType, NEW verdict \in Verdict, NEW p,
           NEW reason \in Endings(progress, verdict, p)
    PROVE  /\ reason \in StopReason
           /\ StatsFor(progress, reason) \in RetryStats
  <1>1. reason \in StopReason
    BY DEF Endings, Verdict, StopReason
  <1>2. QED
    BY <1>1 DEF StatsFor, RetryStats, ProgressType

\* The loop goes on only while the timeout is not spent, and the delay never
\* exceeds what is left of it.
LEMMA DelaysWithinTimeout ==
    ASSUME NEW progress \in ProgressType, NEW verdict \in Verdict, NEW p \in Policy,
           NEW d \in Delays(progress, verdict, p)
    PROVE  /\ d \in Duration
           /\ ~TimeoutExceeded(Timeout[p], progress.elapsed)
           /\ Timeout[p] # None => /\ Timeout[p] \in Duration
                                   /\ progress.elapsed < Timeout[p]
                                   /\ d <= Timeout[p] - progress.elapsed
  <1> DEFINE T == Timeout[p]
             E == progress.elapsed
  <1>1. E \in Duration
    BY DEF ProgressType
  <1>2. T \in MaybeDuration
    BY RetryAssumption
  <1>3. ~TimeoutExceeded(T, E)
    BY DEF Delays
  <1>4. PICK next \in WaitAnswers(p, StateOf(progress)) : d = Clamp(next, T, E)
    BY DEF Delays
  <1>5. next \in Duration
    BY <1>4, StateOfType, RetryAssumption
  <1>6. CASE T = None
    BY <1>3, <1>4, <1>5, <1>6 DEF Clamp
  <1>7. CASE T # None
    <2>1. T \in Duration /\ E < T
      BY <1>1, <1>2, <1>3, <1>7, DurMaxAssumption DEF MaybeDuration, TimeoutExceeded, Duration
    <2>2. SatSub(T, E) = T - E /\ SatSub(T, E) \in Duration
      BY <2>1, <1>1, DurMaxAssumption DEF SatSub, Duration
    <2>3. d = Least(next, SatSub(T, E))
      BY <1>4, <1>7 DEF Clamp
    <2>4. QED
      BY <1>3, <1>5, <2>1, <2>2, <2>3, DurationArithmetic
  <1>8. QED
    BY <1>6, <1>7

\* Where the wait strategy asks for some delay there is some, as long as there
\* is a timeout to clamp it to: what is left of that is never nothing.
LEMMA DelaysAreLonger ==
    ASSUME NEW progress \in ProgressType, NEW verdict \in Verdict, NEW p \in Policy,
           NEW d \in Delays(progress, verdict, p),
           0 \notin WaitAnswers(p, StateOf(progress))
    PROVE  d # 0
  <1> DEFINE T == Timeout[p]
             E == progress.elapsed
  <1>1. PICK next \in WaitAnswers(p, StateOf(progress)) : d = Clamp(next, T, E)
    BY DEF Delays
  <1>2. next \in Duration /\ next # 0
    BY <1>1, StateOfType, RetryAssumption
  <1>3. CASE T = None
    BY <1>1, <1>2, <1>3 DEF Clamp
  <1>4. CASE T # None
    <2>1. T \in Duration /\ E < T /\ E \in Duration
      BY <1>4, DelaysWithinTimeout DEF ProgressType
    <2>2. d = Least(next, SatSub(T, E))
      BY <1>1, <1>4 DEF Clamp
    <2>3. QED
      BY <1>2, <2>1, <2>2, DurMaxAssumption DEF Least, SatSub, Duration
  <1>5. QED
    BY <1>3, <1>4
=============================================================================
