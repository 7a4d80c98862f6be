-------------------------- MODULE SyncEngineProofs --------------------------
(***************************************************************************)
(* Proofs about the synchronous engine and its callers, for every value of *)
(* the constants: any policies (strategies that may answer anything), any  *)
(* DurMax and AttemptMax, any scripts, and, unless a theorem assumes       *)
(* ContractClock, any clock. What only some policies promise is proved     *)
(* last, of the policies of Policies.                                      *)
(***************************************************************************)
EXTENDS MCSync, RetryCoreProofs, StrategiesProofs

(***************************************************************************)
(* The counters of the loop agree with its history; TypeOK alone is not    *)
(* inductive, because on_exit could have fired before.                     *)
(***************************************************************************)
Bookkeeping ==
    /\ pc \in {"Ready", "Before"} => attempt = Least(calls + 1, AttemptMax)
    /\ pc \in {"Op", "Sleep", "Done"} => attempt = Least(calls, AttemptMax)
    /\ slept = total_wait
    /\ pc \in {"Ready", "Before", "Op"} => delay = 0
    /\ StatsTellTheTruth

IInv == TypeOK /\ Bookkeeping

\* What a step of the operation's return may use.
LEMMA ProgressTyped == TypeOK => Progress \in ProgressType
  BY ReadingElapsed DEF TypeOK, Progress, ProgressType

LEMMA InitIInv == Init => IInv
  <1> SUFFICES ASSUME Init PROVE IInv
    OBVIOUS
  <1>1. TypeOK
    <2>1. /\ policy \in Policy /\ debug \in Builds
          /\ now \in Duration /\ origin \in Duration
          /\ highest \in Duration /\ total_wait \in Duration
          /\ delay \in Duration /\ slept \in Duration
          /\ attempt \in Attempts
      BY StartValues DEF Init
    <2>2. previous_delay \in MaybeDuration /\ stats \in RetryStats \cup {None}
      BY DEF Init, MaybeDuration
    <2>3. calls \in 0 .. AttemptMax + 1 /\ exits \in 0 .. 1
      BY RetryAssumption DEF Init
    <2>4. QED
      BY <2>1, <2>2, <2>3 DEF Init, TypeOK
  <1>2. Bookkeeping
    BY RetryAssumption DEF Init, Bookkeeping, StatsTellTheTruth, Least
  <1>3. QED
    BY <1>1, <1>2 DEF IInv

\* The assignments at the bottom of the loop keep the counters in step.
LEMMA AdvanceCounts ==
    ASSUME TypeOK, attempt = Least(calls, AttemptMax), NEW d \in Duration, Advance(d)
    PROVE  /\ total_wait' \in Duration
           /\ previous_delay' \in MaybeDuration
           /\ attempt' \in Attempts
           /\ attempt' = Least(calls + 1, AttemptMax)
           /\ pc' = "Before"
  <1>1. attempt' = NextAttempt(attempt) /\ attempt' \in Attempts
    BY NextAttemptType DEF Advance, TypeOK
  <1>2. NextAttempt(attempt) = Least(calls + 1, AttemptMax)
    BY RetryAssumption DEF NextAttempt, Least, TypeOK, Attempts
  <1>3. QED
    BY <1>1, <1>2, DurationArithmetic DEF Advance, TypeOK, MaybeDuration

LEMMA NextIInv == IInv /\ [Next]_vars => IInv'
  <1> SUFFICES ASSUME IInv, [Next]_vars PROVE IInv'
    OBVIOUS
  <1> USE DEF IInv
  <1>1. CASE Call
    <2>1. TypeOK'
      BY <1>1, DurMaxAssumption DEF Call, TypeOK, loop, history, Duration
    <2>2. Bookkeeping'
      BY <1>1 DEF Call, TypeOK, Bookkeeping, StatsTellTheTruth, loop, history
    <2>3. QED
      BY <2>1, <2>2
  <1>2. CASE BeginAttempt
    <2>1. calls' \in 0 .. AttemptMax + 1 /\ Least(calls', AttemptMax) = Least(calls + 1, AttemptMax)
      BY <1>2, RetryAssumption DEF BeginAttempt, TypeOK, Least
    <2>2. TypeOK'
      BY <1>2, <2>1, ReadingElapsed DEF BeginAttempt, TypeOK, loop
    <2>3. Bookkeeping'
      BY <1>2, <2>1 DEF BeginAttempt, TypeOK, Bookkeeping, StatsTellTheTruth, loop
    <2>4. QED
      BY <2>2, <2>3
  <1>3. CASE Finish
    <2>0. PICK verdict \in Verdict :
              \E reason \in Endings(Progress, verdict, policy) :
                 stats' = StatsFor(Progress, reason)
      BY <1>3 DEF Finish, FinishOn
    <2>1. PICK reason \in Endings(Progress, verdict, policy) :
              stats' = StatsFor(Progress, reason)
      BY <2>0
    <2>2. Progress \in ProgressType
      BY ProgressTyped
    <2>3. stats' \in RetryStats
      BY <2>1, <2>2, EndingsType
    <2>4. exits = 0 /\ exits' = 1
      BY <1>3 DEF Finish, FinishOn, Bookkeeping, StatsTellTheTruth
    <2>5. TypeOK'
      BY <1>3, <2>2, <2>3, <2>4 DEF Finish, FinishOn, TypeOK, ProgressType, loop
    <2>6. Bookkeeping'
      BY <1>3, <2>1, <2>4 DEF Finish, FinishOn, Bookkeeping, StatsTellTheTruth, StatsFor, Progress, loop
    <2>7. QED
      BY <2>5, <2>6
  <1>4. CASE Retry
    <2>0. PICK verdict \in Verdict :
              \E d \in Delays(Progress, verdict, policy) :
                 /\ aimed' \in BOOLEAN
                 /\ \/ d = 0 /\ Advance(0) /\ UNCHANGED delay
                    \/ d # 0 /\ delay' = d /\ pc' = "Sleep" /\ UNCHANGED loop
      BY <1>4 DEF Retry, RetryOn, TypeOK
    <2>1. PICK d \in Delays(Progress, verdict, policy) :
              /\ aimed' \in BOOLEAN
              /\ \/ d = 0 /\ Advance(0) /\ UNCHANGED delay
                 \/ d # 0 /\ delay' = d /\ pc' = "Sleep" /\ UNCHANGED loop
      BY <2>0
    <2>2. Progress \in ProgressType /\ Progress.elapsed \in Duration
      BY ProgressTyped DEF ProgressType
    <2>3. d \in Duration /\ 0 \in Duration
      BY <2>2, DelaysWithinTimeout, DurMaxAssumption DEF TypeOK, Duration
    <2>4. /\ policy' = policy /\ debug' = debug /\ now' = now
          /\ origin' = origin /\ stats' = stats /\ calls' = calls /\ slept' = slept /\ exits' = exits
          /\ highest' \in Duration /\ pc = "Op"
      BY <1>4, <2>2 DEF Retry, RetryOn
    <2>5. CASE d = 0
      <3>1. Advance(0) /\ delay' = delay
        BY <2>1, <2>5
      <3>2. SatAdd(total_wait, 0) = total_wait
        BY DurMaxAssumption DEF TypeOK, Duration, SatAdd, Least
      <3>3. attempt = Least(calls, AttemptMax)
        BY <2>4 DEF Bookkeeping
      <3>4. TypeOK'
        BY <2>1, <2>3, <2>4, <3>1, <3>3, AdvanceCounts DEF TypeOK
      <3>5. Bookkeeping'
        BY <2>3, <2>4, <3>1, <3>2, <3>3, AdvanceCounts DEF Bookkeeping, StatsTellTheTruth, Advance
      <3>6. QED
        BY <3>4, <3>5
    <2>6. CASE d # 0
      <3>1. delay' = d /\ pc' = "Sleep" /\ UNCHANGED loop
        BY <2>1, <2>6
      <3>2. TypeOK'
        BY <2>1, <2>3, <2>4, <3>1 DEF TypeOK, loop
      <3>3. Bookkeeping'
        BY <2>4, <3>1 DEF Bookkeeping, StatsTellTheTruth, loop
      <3>4. QED
        BY <3>2, <3>3
    <2>7. QED
      BY <2>5, <2>6
  <1>5. CASE WakeUp
    <2>1. now' \in Duration /\ delay \in Duration /\ 0 \in Duration
      BY <1>5, ReadingsAreDurations, DurMaxAssumption DEF WakeUp, TypeOK, Duration
    <2>2. attempt = Least(calls, AttemptMax) /\ Advance(delay)
      BY <1>5 DEF WakeUp, Bookkeeping
    <2>3. TypeOK'
      BY <1>5, <2>1, <2>2, AdvanceCounts, DurationArithmetic DEF WakeUp, TypeOK
    <2>4. Bookkeeping'
      BY <1>5, <2>1, <2>2, AdvanceCounts
      DEF WakeUp, Bookkeeping, StatsTellTheTruth, Advance
    <2>5. QED
      BY <2>3, <2>4
  <1>6. CASE AssertionPanics
    BY <1>6 DEF AssertionPanics, TypeOK, Bookkeeping, StatsTellTheTruth, loop, history
  <1>7. CASE Unwind
    <2>1. exits = 0 /\ exits' \in 0 .. 1
      BY <1>7 DEF Unwind, Bookkeeping, StatsTellTheTruth
    <2>2. QED
      BY <1>7, <2>1 DEF Unwind, TypeOK, Bookkeeping, StatsTellTheTruth, loop
  <1>8. CASE Tick
    <2>1. now' \in Duration
      BY <1>8, ReadingsAreDurations DEF Tick
    <2>2. QED
      BY <1>8, <2>1 DEF Tick, TypeOK, Bookkeeping, StatsTellTheTruth, loop, history
  <1>9. CASE UNCHANGED vars
    BY <1>9 DEF vars, TypeOK, Bookkeeping, StatsTellTheTruth, loop, history
  <1>10. QED
    BY <1>1, <1>2, <1>3, <1>4, <1>5, <1>6, <1>7, <1>8, <1>9 DEF Next, Step, Rest

LEMMA Invariance == Spec => []IInv
  BY InitIInv, NextIInv, PTL DEF Spec

\* Every variable always holds a value of its Rust type.
THEOREM TypeCorrect == Spec => []TypeOK
  <1>1. IInv => TypeOK
    BY DEF IInv
  <1>2. QED
    BY <1>1, Invariance, PTL

\* What a run returns is what happened: the attempts, the waits, one on_exit.
THEOREM StatsCorrect == Spec => []StatsTellTheTruth
  <1>1. IInv => StatsTellTheTruth
    BY DEF IInv, Bookkeeping
  <1>2. QED
    BY <1>1, Invariance, PTL

-----------------------------------------------------------------------------
(***************************************************************************)
(* The timeout, for any clock. A reading never falls below the watermark,  *)
(* and the step that continues refuses to do so at or past the timeout.    *)
(***************************************************************************)

\* Once an attempt has begun with the timeout spent it is the last one.
THEOREM BudgetNotRefunded == Spec => SpentBudgetIsFinal
  <1> DEFINE Spent == pc = "Op" /\ TimeoutExceeded(Timeout[policy], highest)
             Final == Spent => pc' \in {"Op", "Done", "Unwound"}
  <1>1. TypeOK /\ [Next]_vars => [Final]_vars
    <2> SUFFICES ASSUME TypeOK, Next, Spent PROVE pc' \in {"Op", "Done", "Unwound"}
      BY DEF vars, loop, history
    <2>1. CASE Retry
      <3>1. PICK verdict \in Verdict : \E d \in Delays(Progress, verdict, policy) : TRUE
        BY <2>1 DEF Retry, RetryOn
      <3>2. PICK d \in Delays(Progress, verdict, policy) : TRUE
        BY <3>1
      <3>3. ~TimeoutExceeded(Timeout[policy], Progress.elapsed)
        BY <3>2, ProgressTyped, DelaysWithinTimeout DEF TypeOK
      <3>4. Progress.elapsed >= highest /\ Progress.elapsed \in Duration
        BY ReadingElapsed DEF TypeOK, Progress
      <3>5. Timeout[policy] # None /\ Timeout[policy] \in Duration /\ highest >= Timeout[policy]
        BY RetryAssumption DEF TimeoutExceeded, TypeOK, MaybeDuration
      <3>6. QED
        BY <3>3, <3>4, <3>5, DurMaxAssumption DEF TimeoutExceeded, TypeOK, Duration
    <2>2. CASE ~Retry
      BY <2>2 DEF Next, Step, Call, BeginAttempt, Finish, FinishOn, WakeUp, AssertionPanics, Unwind,
                  Tick, Rest, vars
    <2>3. QED
      BY <2>1, <2>2
  <1>2. QED
    BY <1>1, TypeCorrect, PTL DEF Spec, SpentBudgetIsFinal

\* The assertion of a debug build holds wherever the loop goes on: the watermark
\* it has stored is the reading it has just made, however the clock jumps.
THEOREM DebugReadings == Spec => DebugReadsAreTrue
  <1> DEFINE GoesOn == debug /\ pc \in {"Before", "Op"} /\ pc' # pc /\ pc' # "Unwound"
             Read == GoesOn => highest' = Seen(now, origin)
  <1>1. TypeOK /\ [Next]_vars => [Read]_vars
    <2> SUFFICES ASSUME TypeOK, Next, GoesOn PROVE highest' = Seen(now, origin)
      BY DEF vars, loop, history
    <2>1. Seen(now, origin) \in Nat /\ highest \in Nat
      <3>1. Seen(now, origin) \in Duration /\ highest \in Duration
        BY ReadingElapsed DEF TypeOK
      <3>2. QED
        BY <3>1, DurMaxAssumption DEF Duration
    <2>2. ~AssertionFails(debug, highest, now, origin)
          /\ highest' = ReadElapsed(highest, now, origin)
      BY DEF Next, Step, Call, BeginAttempt, Finish, FinishOn, Retry, RetryOn, WakeUp,
             AssertionPanics, Unwind, Tick, Rest, vars, Progress
    <2>3. ~(Seen(now, origin) < highest)
      BY <2>2 DEF AssertionFails
    <2>4. QED
      BY <2>1, <2>2, <2>3 DEF ReadElapsed, Greatest
  <1>2. QED
    BY <1>1, TypeCorrect, PTL DEF Spec, DebugReadsAreTrue

-----------------------------------------------------------------------------
(***************************************************************************)
(* The timeout, for a clock that keeps its contract. What makes the sum of *)
(* the waits stay within the timeout is that the waits granted so far have *)
(* themselves passed on the clock: the total is at most the elapsed time   *)
(* against which the next delay is clamped.                                *)
(***************************************************************************)

WatermarkInv == pc # "Ready" => origin + highest <= now

BudgetInv ==
    Timeout[policy] # None =>
        /\ pc = "Ready" => total_wait = 0
        /\ pc = "Before" => origin + total_wait <= now
        /\ pc \in {"Op", "Sleep"} => total_wait <= highest
        /\ pc = "Sleep" => delay <= Timeout[policy] - highest
        /\ total_wait + delay <= Timeout[policy]

AimInv ==
    (Timeout[policy] # None /\ aimed) =>
        /\ pc # "Ready"
        /\ pc = "Before" => origin + Timeout[policy] <= now
        /\ pc = "Op" => Timeout[policy] <= highest
        /\ pc = "Sleep" => delay = Timeout[policy] - highest

\* A delay can only have been aimed at a timeout.
AimedInv == aimed => Timeout[policy] # None

TimeoutInv == WatermarkInv /\ BudgetInv /\ AimInv /\ AimedInv

LEMMA InitTimeoutInv == Init => TimeoutInv
  <1>1. Init => Timeout[policy] \in MaybeDuration
    BY RetryAssumption DEF Init
  <1>2. QED
    BY <1>1, DurMaxAssumption
    DEF Init, TimeoutInv, WatermarkInv, BudgetInv, AimInv, AimedInv, MaybeDuration, Duration

\* A step that continues the loop: the reading is up to date with the clock,
\* the delay fits what is left of the timeout, and nothing had aimed before.
LEMMA RetryKeepsTimeoutInv ==
    ASSUME ContractClock, IInv, TimeoutInv, Retry
    PROVE  TimeoutInv'
  <1> DEFINE T == Timeout[policy]
             E == Progress.elapsed
  <1>1. PICK verdict \in Verdict :
            \E d \in Delays(Progress, verdict, policy) :
               /\ aimed' = (aimed \/ (T # None /\ d = SatSub(T, E)))
               /\ \/ d = 0 /\ Advance(0) /\ UNCHANGED delay
                  \/ d # 0 /\ delay' = d /\ pc' = "Sleep" /\ UNCHANGED loop
    BY DEF Retry, RetryOn
  <1>2. PICK d \in Delays(Progress, verdict, policy) :
            /\ aimed' = (aimed \/ (T # None /\ d = SatSub(T, E)))
            /\ \/ d = 0 /\ Advance(0) /\ UNCHANGED delay
               \/ d # 0 /\ delay' = d /\ pc' = "Sleep" /\ UNCHANGED loop
    BY <1>1
  <1>3. /\ policy \in Policy /\ now \in Nat /\ origin \in Nat /\ highest \in Nat
        /\ total_wait \in Nat /\ delay = 0 /\ aimed \in BOOLEAN /\ total_wait <= DurMax
        /\ DurMax \in Nat
    BY DurMaxAssumption DEF Retry, RetryOn, IInv, TypeOK, Bookkeeping, Duration
  <1>4. /\ d \in Nat
        /\ T # None => T \in Nat /\ E < T /\ d <= T - E
    BY <1>3, ProgressTyped, DelaysWithinTimeout, DurMaxAssumption DEF IInv, Duration
  <1>5. E \in Nat /\ E >= highest /\ origin + E <= now
    <2>1. E \in Nat /\ E >= highest
      BY ReadingElapsed, DurMaxAssumption DEF IInv, TypeOK, Progress, Duration
    <2>2. origin + highest <= now
      BY DEF Retry, RetryOn, TimeoutInv, WatermarkInv
    <2>3. E = Greatest(highest, SatSub(now, origin))
      BY DEF Progress, ReadElapsed, Seen
    <2>4. QED
      BY <1>3, <2>1, <2>2, <2>3 DEF Greatest, SatSub
  <1>6. /\ policy' = policy /\ now' = now /\ origin' = origin /\ highest' = E
        /\ pc = "Op"
    BY DEF Retry, RetryOn
  <1>7. T # None => total_wait <= highest /\ total_wait <= T
    BY <1>3, <1>6 DEF TimeoutInv, BudgetInv
  <1>8. ~aimed
    BY <1>3, <1>4, <1>5, <1>6 DEF TimeoutInv, AimInv, AimedInv
  <1>9. T # None => SatSub(T, E) = T - E
    BY <1>4, <1>5 DEF SatSub
  <1>10. CASE d = 0
    <2>1. /\ pc' = "Before" /\ delay' = 0 /\ total_wait' = SatAdd(total_wait, 0)
      BY <1>2, <1>3, <1>10 DEF Advance
    <2>2. total_wait' = total_wait
      BY <2>1, <1>3 DEF SatAdd, Least
    <2>3. ~aimed'
      <3>1. T # None => d # SatSub(T, E)
        BY <1>4, <1>5, <1>9, <1>10
      <3>2. QED
        BY <1>2, <1>8, <3>1
    <2>4. QED
      BY <1>3, <1>4, <1>5, <1>6, <1>7, <2>1, <2>2, <2>3
      DEF TimeoutInv, WatermarkInv, BudgetInv, AimInv, AimedInv
  <1>11. CASE d # 0
    <2>1. pc' = "Sleep" /\ delay' = d /\ total_wait' = total_wait
      BY <1>2, <1>11 DEF loop
    <2>2. aimed' = (T # None /\ d = T - E)
      BY <1>2, <1>8, <1>9
    <2>3. QED
      BY <1>3, <1>4, <1>5, <1>6, <1>7, <2>1, <2>2
      DEF TimeoutInv, WatermarkInv, BudgetInv, AimInv, AimedInv
  <1>12. QED
    BY <1>10, <1>11

\* A wait that is over has really passed on the clock.
LEMMA WakeUpKeepsTimeoutInv ==
    ASSUME ContractClock, IInv, TimeoutInv, WakeUp
    PROVE  TimeoutInv'
  <1> DEFINE T == Timeout[policy]
  <1>1. /\ now \in Nat /\ origin \in Nat /\ highest \in Nat /\ total_wait \in Nat
        /\ delay \in Nat /\ DurMax \in Nat
    BY DurMaxAssumption DEF IInv, TypeOK, Duration
  <1>2. T # None => T \in Nat
    BY RetryAssumption, DurMaxAssumption DEF IInv, TypeOK, MaybeDuration, Duration
  <1>3. now' >= now + delay /\ now' \in Nat
    BY ContractReadings, ReadingsAreDurations, DurMaxAssumption DEF WakeUp, Duration
  <1>4. /\ pc = "Sleep" /\ pc' = "Before" /\ policy' = policy /\ origin' = origin
        /\ highest' = highest /\ aimed' = aimed /\ delay' = 0
        /\ total_wait' = SatAdd(total_wait, delay)
    BY DEF WakeUp, Advance
  <1>5. total_wait' \in Nat /\ total_wait' <= total_wait + delay
    BY <1>1, <1>4 DEF SatAdd, Least
  <1>6. WatermarkInv'
    BY <1>1, <1>3, <1>4 DEF TimeoutInv, WatermarkInv
  <1>7. BudgetInv'
    BY <1>1, <1>2, <1>3, <1>4, <1>5 DEF TimeoutInv, WatermarkInv, BudgetInv
  <1>8. AimInv' /\ AimedInv'
    BY <1>1, <1>2, <1>3, <1>4 DEF TimeoutInv, WatermarkInv, AimInv, AimedInv
  <1>9. QED
    BY <1>6, <1>7, <1>8 DEF TimeoutInv

LEMMA NextTimeoutInv ==
    ASSUME ContractClock, IInv, TimeoutInv, [Next]_vars
    PROVE  TimeoutInv'
  <1> DEFINE T == Timeout[policy]
  <1>1. /\ now \in Nat /\ origin \in Nat /\ highest \in Nat /\ total_wait \in Nat
        /\ delay \in Nat
        /\ T # None => T \in Nat
    BY RetryAssumption, DurMaxAssumption DEF IInv, TypeOK, MaybeDuration, Duration
  <1> USE DEF TimeoutInv, WatermarkInv, BudgetInv, AimInv, AimedInv
  <1>2. CASE Call
    <2>1. delay = 0
      BY <1>2 DEF Call, IInv, Bookkeeping
    <2>2. QED
      BY <1>1, <1>2, <2>1 DEF Call, loop, history
  <1>3. CASE BeginAttempt
    <2>1. highest' = Greatest(highest, SatSub(now, origin))
      BY <1>3 DEF BeginAttempt, ReadElapsed, Seen
    <2>2. origin + highest <= now
      BY <1>3 DEF BeginAttempt
    <2>3. highest' \in Nat /\ origin + highest' = now
      BY <1>1, <2>1, <2>2 DEF Greatest, SatSub
    <2>4. QED
      BY <1>1, <1>3, <2>2, <2>3 DEF BeginAttempt, loop
  <1>4. CASE Finish
    <2>1. highest' = Greatest(highest, SatSub(now, origin))
      BY <1>4 DEF Finish, FinishOn, Progress, ReadElapsed, Seen
    <2>2. origin + highest' <= now
      BY <1>1, <1>4, <2>1 DEF Finish, FinishOn, Greatest, SatSub
    <2>3. QED
      BY <1>1, <1>4, <2>2 DEF Finish, FinishOn, loop
  <1>5. CASE Retry
    BY <1>5, RetryKeepsTimeoutInv
  <1>6. CASE WakeUp
    BY <1>6, WakeUpKeepsTimeoutInv
  <1>7. CASE Tick
    <2>1. now' \in Readings(now, Granted)
      BY <1>7 DEF Tick
    <2>2. now' >= now /\ now' \in Nat
      BY <2>1, DurMaxAssumption DEF ContractClock, Readings, Horizon, Duration
    <2>3. QED
      BY <1>1, <1>7, <2>2 DEF Tick, loop, history
  <1>8. CASE AssertionPanics
    BY <1>8 DEF AssertionPanics, loop, history
  <1>9. CASE Unwind
    BY <1>9 DEF Unwind, loop
  <1>10. CASE UNCHANGED vars
    BY <1>10 DEF vars, loop, history
  <1>11. QED
    BY <1>2, <1>3, <1>4, <1>5, <1>6, <1>7, <1>8, <1>9, <1>10 DEF Next, Step, Rest

LEMMA TimeoutInvariance ==
    ASSUME ContractClock
    PROVE  Spec => []TimeoutInv
  <1>1. IInv /\ TimeoutInv /\ [Next]_vars => TimeoutInv'
    BY NextTimeoutInv
  <1>2. QED
    BY <1>1, InitTimeoutInv, Invariance, PTL DEF Spec

\* With a clock that keeps its contract, the waits of a run with a timeout
\* never add up to more than the timeout.
THEOREM WaitsBounded ==
    ASSUME ContractClock
    PROVE  Spec => []WaitWithinTimeout
  <1>1. IInv /\ TimeoutInv => WaitWithinTimeout
    <2> SUFFICES ASSUME IInv, TimeoutInv, Timeout[policy] # None
                 PROVE  Granted <= Timeout[policy]
      BY DEF WaitWithinTimeout
    <2>1. total_wait \in Nat /\ delay \in Nat /\ DurMax \in Nat /\ Timeout[policy] \in Nat
      BY RetryAssumption, DurMaxAssumption DEF IInv, TypeOK, MaybeDuration, Duration
    <2>2. QED
      BY <2>1 DEF TimeoutInv, BudgetInv, Granted, SatAdd, Least
  <1>2. QED
    BY <1>1, TimeoutInvariance, Invariance, PTL

\* With a clock that keeps its contract, exactly one attempt follows a wait
\* that the clamp aimed at the deadline.
THEOREM OneAttemptAtDeadline ==
    ASSUME ContractClock
    PROVE  Spec => FinalAttemptAtDeadline
  <1> DEFINE Aimed == pc = "Op" /\ aimed
             Final == Aimed => pc' \in {"Op", "Done", "Unwound"}
  <1>1. TypeOK /\ TimeoutInv /\ [Next]_vars => [Final]_vars
    <2> SUFFICES ASSUME TypeOK, TimeoutInv, Next, Aimed
                 PROVE  pc' \in {"Op", "Done", "Unwound"}
      BY DEF vars, loop, history
    <2>1. CASE Retry
      <3>1. PICK verdict \in Verdict : \E d \in Delays(Progress, verdict, policy) : TRUE
        BY <2>1 DEF Retry, RetryOn
      <3>2. PICK d \in Delays(Progress, verdict, policy) : TRUE
        BY <3>1
      <3>3. Timeout[policy] # None => Progress.elapsed < Timeout[policy]
                                      /\ Timeout[policy] \in Nat
        BY <3>2, ProgressTyped, DelaysWithinTimeout, DurMaxAssumption DEF TypeOK, Duration
      <3>4. Progress.elapsed >= highest /\ Progress.elapsed \in Nat /\ highest \in Nat
        BY ReadingElapsed, DurMaxAssumption DEF TypeOK, Progress, Duration
      <3>5. Timeout[policy] # None /\ Timeout[policy] <= highest
        BY DEF TimeoutInv, AimInv, AimedInv
      <3>6. QED
        BY <3>3, <3>4, <3>5
    <2>2. CASE ~Retry
      BY <2>2 DEF Next, Step, Call, BeginAttempt, Finish, FinishOn, WakeUp, AssertionPanics, Unwind,
                  Tick, Rest, vars
    <2>3. QED
      BY <2>1, <2>2
  <1>2. QED
    BY <1>1, TypeCorrect, TimeoutInvariance, PTL DEF Spec, FinalAttemptAtDeadline

-----------------------------------------------------------------------------
(***************************************************************************)
(* The promise of RetryLoop. The budget of the mapping is there only with  *)
(* a clock that keeps its contract, and so is the invariant about it.      *)
(***************************************************************************)
BudgetKept == ContractClock => TimeoutInv

LEMMA BudgetKeptInvariance == Spec => [](IInv /\ BudgetKept)
  <1>1. Init => BudgetKept
    BY InitTimeoutInv DEF BudgetKept
  <1>2. IInv /\ BudgetKept /\ [Next]_vars => BudgetKept'
    BY NextTimeoutInv DEF BudgetKept
  <1>3. QED
    BY <1>1, <1>2, Invariance, PTL DEF Spec

LEMMA InitMapsToInit == Init => Loop!Init
  <1> SUFFICES ASSUME Init PROVE Loop!Init
    OBVIOUS
  <1>1. Timeout[policy] \in MaybeDuration
    BY RetryAssumption DEF Init
  <1>2. Granted = 0
    BY DurMaxAssumption DEF Init, Granted, SatAdd, Least
  <1>3. QED
    BY <1>1, <1>2 DEF Init, Loop!Init, Loop!MaybeDuration, Loop!Duration, MaybeDuration, Duration

\* The step continues the loop: a wait is granted, out of what is left of the
\* budget, and none had been announced as the last.
LEMMA RetryMapsToBackOff == IInv /\ BudgetKept /\ Retry => Loop!BackOff
  <1> SUFFICES ASSUME IInv, BudgetKept, Retry PROVE Loop!BackOff
    OBVIOUS
  <1> DEFINE T == Timeout[policy]
             E == Progress.elapsed
  <1>1. PICK verdict \in Verdict :
            \E d \in Delays(Progress, verdict, policy) :
               /\ aimed' = (aimed \/ (T # None /\ d = SatSub(T, E)))
               /\ \/ d = 0 /\ Advance(0) /\ UNCHANGED delay
                  \/ d # 0 /\ delay' = d /\ pc' = "Sleep" /\ UNCHANGED loop
    BY DEF Retry, RetryOn
  <1>2. PICK d \in Delays(Progress, verdict, policy) :
            /\ aimed' = (aimed \/ (T # None /\ d = SatSub(T, E)))
            /\ \/ d = 0 /\ Advance(0) /\ UNCHANGED delay
               \/ d # 0 /\ delay' = d /\ pc' = "Sleep" /\ UNCHANGED loop
    BY <1>1
  <1>3. /\ policy \in Policy /\ total_wait \in Duration /\ delay = 0 /\ aimed \in BOOLEAN
        /\ pc = "Op" /\ policy' = policy /\ highest \in Duration
    BY DEF Retry, RetryOn, IInv, TypeOK, Bookkeeping
  <1>4. /\ d \in Duration
        /\ T # None => T \in Duration /\ E < T /\ d <= T - E
    BY <1>3, ProgressTyped, DelaysWithinTimeout DEF IInv
  <1>5. E \in Duration /\ E >= highest
    BY ReadingElapsed DEF IInv, TypeOK, Progress
  <1>6. Granted = total_wait
    BY <1>3, DurMaxAssumption DEF Granted, SatAdd, Least, Duration
  <1>7. Granted' = SatAdd(Granted, d) /\ pc' \in {"Before", "Sleep"}
    <2>1. CASE d = 0
      <3>1. total_wait' = total_wait /\ delay' = 0 /\ pc' = "Before"
        BY <1>2, <1>3, <2>1, DurMaxAssumption DEF Advance, SatAdd, Least, Duration
      <3>2. QED
        BY <1>3, <1>6, <2>1, <3>1 DEF Granted
    <2>2. CASE d # 0
      BY <1>2, <1>3, <1>6, <2>2 DEF loop, Granted
    <2>3. QED
      BY <2>1, <2>2
  <1>8. ContractClock /\ T # None => Granted + d <= T /\ ~aimed
    <2> SUFFICES ASSUME ContractClock, T # None PROVE Granted + d <= T /\ ~aimed
      OBVIOUS
    <2>1. total_wait <= highest /\ (aimed => T <= highest)
      BY <1>3 DEF BudgetKept, TimeoutInv, BudgetInv, AimInv
    <2>2. QED
      BY <1>3, <1>4, <1>5, <1>6, <2>1, DurMaxAssumption DEF Duration
  <1>9. ~(ContractClock /\ aimed)
    BY <1>3, <1>8 DEF BudgetKept, TimeoutInv, AimedInv
  <1>10. QED
    BY <1>3, <1>4, <1>7, <1>8, <1>9 DEF Loop!BackOff, Loop!Duration, Loop!SatAdd, Loop!Least, Duration, SatAdd, Least

LEMMA StepMapsToStep ==
    IInv /\ BudgetKept /\ [Next]_vars => [Loop!Next]_Loop!vars
  <1> SUFFICES ASSUME IInv, BudgetKept, [Next]_vars PROVE [Loop!Next]_Loop!vars
    OBVIOUS
  <1>1. CASE BeginAttempt
    <2>1. Loop!Begin
      BY <1>1 DEF BeginAttempt, Loop!Begin, loop, Granted
    <2>2. QED
      BY <2>1 DEF Loop!Next
  <1>2. CASE Finish
    <2>1. PICK verdict \in Verdict : FinishOn(verdict)
      BY <1>2 DEF Finish
    <2>2. PICK reason \in Endings(Progress, verdict, policy) : stats' = StatsFor(Progress, reason)
      BY <2>1 DEF FinishOn
    <2>3. reason \in StopReason
      BY <2>2, ProgressTyped, EndingsType DEF IInv
    <2>4. Loop!Conclude
      BY <2>1, <2>2, <2>3 DEF FinishOn, StatsFor, StopReason, Loop!Conclude, loop, Granted
    <2>5. QED
      BY <2>4 DEF Loop!Next
  <1>3. CASE Retry
    BY <1>3, RetryMapsToBackOff DEF Loop!Next
  <1>4. CASE WakeUp
    <2>1. total_wait' = Granted /\ delay' = 0 /\ Granted \in Duration
      BY <1>4, DurationArithmetic DEF WakeUp, Advance, Granted, IInv, TypeOK
    <2>2. Granted' = Granted
      BY <2>1, DurMaxAssumption DEF Granted, SatAdd, Least, Duration
    <2>3. QED
      BY <1>4, <2>2 DEF WakeUp, Advance, Loop!vars
  <1>5. CASE Unwind \/ AssertionPanics
    <2>1. Loop!Abandon
      BY <1>5 DEF Unwind, AssertionPanics, Loop!Abandon, loop, history, Granted
    <2>2. QED
      BY <2>1 DEF Loop!Next
  <1>6. CASE Call \/ Tick \/ UNCHANGED vars
    <2>1. /\ UNCHANGED <<policy, total_wait, delay, stats, aimed>>
          /\ pc' = pc \/ (pc = "Ready" /\ pc' = "Before")
      BY <1>6 DEF Call, Tick, vars, loop, history
    <2>2. UNCHANGED Loop!vars
      BY <2>1 DEF Granted, Loop!vars
    <2>3. QED
      BY <2>2
  <1>7. QED
    BY <1>1, <1>2, <1>3, <1>4, <1>5, <1>6 DEF Next, Step, Rest

\* The synchronous engine implements RetryLoop, whatever the policies and the
\* clock: attempts and waits alternate, an execution ends once; with a clock
\* that keeps its contract the waits stay within the budget, and one attempt
\* follows the last.
THEOREM ImplementsRetryLoop == Spec => Loop!Spec
  BY InitMapsToInit, StepMapsToStep, BudgetKeptInvariance, PTL DEF Spec, Loop!Spec

-----------------------------------------------------------------------------
(***************************************************************************)
(* The callers. Whatever an operation remembers or hears of, the engine    *)
(* under it is SyncEngine, so that all that is proved above holds of it.   *)
(***************************************************************************)

\* What the running attempt may come to is a verdict.
LEMMA VerdictsTyped ==
    ASSUME calls \in Nat, pc = "Op" => calls # 0,
           caller \in Callers, caller = "script" => script \in Scripts
    PROVE  pc = "Op" => Verdicts \subseteq Verdict
  <1>1. CASE caller = "script"
    <2> SUFFICES ASSUME pc = "Op" PROVE Scripted(calls) \in Verdict
      BY <1>1 DEF Verdicts
    <2>1. script \in Seq(Verdict) /\ Len(script) \in Nat \ {0}
      BY <1>1, CallersAssumption
    <2>2. Least(calls, Len(script)) \in 1 .. Len(script)
      BY <2>1 DEF Least
    <2>3. QED
      BY <2>1, <2>2 DEF Scripted
  <1>2. CASE caller # "script"
    BY <1>2, CallersAssumption DEF Verdicts, Verdict
  <1>3. QED
    BY <1>1, <1>2

\* An attempt that returns has been called.
LEMMA RunningIsCalled == IInv /\ pc = "Op" => calls \in Nat \ {0}
  <1> SUFFICES ASSUME IInv, pc = "Op" PROVE calls \in Nat \ {0}
    OBVIOUS
  <1>1. calls \in Nat /\ attempt = Least(calls, AttemptMax) /\ attempt # 0
    BY RetryAssumption DEF IInv, TypeOK, Bookkeeping, Attempts
  <1>2. QED
    BY <1>1, RetryAssumption DEF Least

\* Which caller it is, and what it has prepared, never changes.
CallerTyped == caller \in Callers /\ (caller = "script" => script \in Scripts)

LEMMA CallerStepIsEngineStep ==
    IInv /\ CallerTyped /\ [CallerNext]_allVars => [Next]_vars /\ CallerTyped'
  <1> SUFFICES ASSUME IInv, CallerTyped, [CallerNext]_allVars
               PROVE  [Next]_vars /\ CallerTyped'
    OBVIOUS
  <1>1. CallerTyped'
    BY DEF CallerTyped, CallerNext, CallerStep, OpStarts, OpReturns, SetFlag, callerVars, allVars
  <1>2. [Next]_vars
    <2>1. CASE OpStarts
      BY <2>1 DEF OpStarts, Next, Step
    <2>2. CASE OpReturns
      <3>1. Verdicts \subseteq Verdict
        BY <2>2, RunningIsCalled, VerdictsTyped DEF OpReturns, CallerTyped
      <3>2. Finish \/ Retry
        BY <2>2, <3>1 DEF OpReturns, Finish, Retry
      <3>3. QED
        BY <3>2 DEF Next, Step
    <2>3. CASE Call \/ WakeUp \/ AssertionPanics \/ Unwind \/ Tick \/ Rest
      BY <2>3 DEF Next, Step
    <2>4. CASE SetFlag \/ UNCHANGED allVars
      BY <2>4 DEF SetFlag, allVars
    <2>5. QED
      BY <2>1, <2>2, <2>3, <2>4 DEF CallerNext, CallerStep
  <1>3. QED
    BY <1>1, <1>2

LEMMA CallerInvariance == CallerSpec => [](IInv /\ CallerTyped)
  <1>1. CallerInit => IInv /\ CallerTyped
    BY InitIInv DEF CallerInit, CallerTyped
  <1>2. IInv /\ CallerTyped /\ [CallerNext]_allVars => IInv' /\ CallerTyped'
    BY CallerStepIsEngineStep, NextIInv
  <1>3. QED
    BY <1>1, <1>2, PTL DEF CallerSpec

\* An operation with a memory, a flag or a script is still an operation: every
\* behaviour of a caller's run is one of the engine.
THEOREM CallersAreEngines == CallerSpec => Spec
  <1>1. CallerInit => Init
    BY DEF CallerInit
  <1>2. IInv /\ CallerTyped /\ [CallerNext]_allVars => [Next]_vars
    BY CallerStepIsEngineStep
  <1>3. QED
    BY <1>1, <1>2, CallerInvariance, PTL DEF CallerSpec, Spec

-----------------------------------------------------------------------------
(***************************************************************************)
(* The flag. Both promises follow from where the one late attempt and the  *)
(* one late wait can be: a wait begun after the flag was set was granted   *)
(* to an attempt that had not read it, and the next attempt reads it.      *)
(***************************************************************************)
FlagInv ==
    caller = "flag" =>
        /\ cancelled \in BOOLEAN /\ loaded \in BOOLEAN
        /\ ~cancelled => ~loaded /\ lateWaits = 0
        /\ lateCalls = IF loaded THEN 1 ELSE 0
        /\ lateWaits \in {0, 1}
        /\ lateWaits = 1 /\ pc = "Op" => loaded
        /\ loaded => /\ pc \in {"Op", "Done", "Unwound"}
                     /\ pc = "Done" => stats.stop_reason = "Aborted"

\* After a fatal verdict the step ends the loop as Aborted.
LEMMA AbortEnds ==
    /\ FinishOn("Abort") => pc' = "Done" /\ stats'.stop_reason = "Aborted"
    /\ ~RetryOn("Abort")
  BY DEF FinishOn, RetryOn, Endings, Delays, StatsFor

LEMMA NextFlagInv == FlagInv /\ [CallerNext]_allVars => FlagInv'
  <1> SUFFICES ASSUME FlagInv, [CallerNext]_allVars, caller' = "flag"
               PROVE  FlagInv'
    BY DEF FlagInv
  <1>0. caller = "flag"
    BY DEF CallerNext, CallerStep, OpStarts, OpReturns, SetFlag, callerVars, allVars
  <1>1. CASE OpStarts
    <2>1. pc = "Before" /\ pc' = "Op" /\ ~loaded
      BY <1>0, <1>1 DEF OpStarts, BeginAttempt, FlagInv
    <2>2. lateCalls = 0 /\ loaded' = cancelled /\ UNCHANGED <<caller, cancelled, lateWaits>>
      BY <1>0, <1>1, <2>1 DEF OpStarts, FlagInv
    <2>3. lateCalls' = IF cancelled THEN 1 ELSE 0
      BY <1>1, <2>2 DEF OpStarts, Late, Least
    <2>4. QED
      BY <1>0, <2>1, <2>2, <2>3 DEF FlagInv
  <1>2. CASE OpReturns
    <2>1. pc = "Op" /\ UNCHANGED <<caller, cancelled, loaded, lateCalls>>
      BY <1>2 DEF OpReturns
    <2>2. CASE loaded
      <3>1. Verdicts = {"Abort"}
        BY <1>0, <2>2 DEF Verdicts
      <3>2. pc' = "Done" /\ stats'.stop_reason = "Aborted"
        BY <1>2, <3>1, AbortEnds DEF OpReturns
      <3>3. lateWaits' = lateWaits
        BY <1>2, <3>2 DEF OpReturns
      <3>4. QED
        BY <1>0, <2>1, <2>2, <3>2, <3>3 DEF FlagInv
    <2>3. CASE ~loaded
      <3>1. pc' # "Op" /\ lateWaits = 0
        BY <1>0, <1>2, <2>1, <2>3 DEF FlagInv, OpReturns, FinishOn, RetryOn, Advance
      <3>2. lateWaits' \in {0, 1} /\ (~cancelled => lateWaits' = 0)
        BY <1>2, <3>1 DEF OpReturns, Late, Least
      <3>3. QED
        BY <1>0, <2>1, <2>3, <3>1, <3>2 DEF FlagInv
    <2>4. QED
      BY <1>0, <2>2, <2>3 DEF FlagInv
  <1>3. CASE (Call \/ WakeUp \/ AssertionPanics) /\ UNCHANGED callerVars
    BY <1>0, <1>3 DEF FlagInv, Call, WakeUp, Advance, AssertionPanics, callerVars
  <1>4. CASE SetFlag
    BY <1>0, <1>4 DEF FlagInv, SetFlag, vars
  <1>5. CASE (Unwind \/ Tick \/ Rest) /\ UNCHANGED callerVars
    BY <1>0, <1>5 DEF FlagInv, Unwind, Tick, Rest, vars, callerVars
  <1>6. CASE UNCHANGED allVars
    BY <1>0, <1>6 DEF FlagInv, allVars, vars, callerVars
  <1>7. QED
    BY <1>1, <1>2, <1>3, <1>4, <1>5, <1>6 DEF CallerNext, CallerStep

LEMMA FlagInvariance == CallerSpec => []FlagInv
  <1>1. CallerInit => FlagInv
    BY DEF CallerInit, Init, FlagInv
  <1>2. QED
    BY <1>1, NextFlagInv, PTL DEF CallerSpec

\* After the flag is set at most one attempt and one wait begin, whatever the
\* policy, the clock and the moment (docs/SPEC.md:1134-1136).
THEOREM CancellationIsPrompt == CallerSpec => []CancelLatency
  <1>1. FlagInv => CancelLatency
    BY DEF FlagInv, CancelLatency
  <1>2. QED
    BY <1>1, FlagInvariance, PTL

\* An attempt that has read the flag ends the run as Aborted, whatever stop and
\* the timeout have to say (docs/SPEC.md:1132).
THEOREM CancellationIsAborted == CallerSpec => []CancelIsAborted
  <1>1. FlagInv => CancelIsAborted
    BY DEF FlagInv, CancelIsAborted
  <1>2. QED
    BY <1>1, FlagInvariance, PTL

-----------------------------------------------------------------------------
(***************************************************************************)
(* The scripts. A run goes from one attempt to the next only over an       *)
(* outcome that is to be retried.                                          *)
(***************************************************************************)
Unsettled(n) == \A k \in 1 .. n : Scripted(k) = "Retry"

ScriptInv ==
    (caller = "script" /\ calls <= AttemptMax) =>
        /\ Unsettled(calls - 1)
        /\ pc \in {"Ready", "Before", "Sleep"} => Unsettled(calls)
        /\ pc = "Done" =>
              stats.stop_reason = CASE Scripted(calls) = "Return" -> "Returned"
                                    [] Scripted(calls) = "Abort"  -> "Aborted"
                                    [] Scripted(calls) = "Retry"  -> "Exhausted"

\* The verdict and the way the loop is left go together.
LEMMA VerdictDecides ==
    ASSUME NEW verdict \in Verdict
    PROVE  /\ FinishOn(verdict) =>
                stats'.stop_reason = CASE verdict = "Return" -> "Returned"
                                       [] verdict = "Abort"  -> "Aborted"
                                       [] verdict = "Retry"  -> "Exhausted"
           /\ RetryOn(verdict) => verdict = "Retry"
  <1>1. FinishOn(verdict) =>
          stats'.stop_reason = CASE verdict = "Return" -> "Returned"
                                 [] verdict = "Abort"  -> "Aborted"
                                 [] verdict = "Retry"  -> "Exhausted"
    <2> SUFFICES ASSUME FinishOn(verdict)
                 PROVE  stats'.stop_reason = CASE verdict = "Return" -> "Returned"
                                               [] verdict = "Abort"  -> "Aborted"
                                               [] verdict = "Retry"  -> "Exhausted"
      OBVIOUS
    <2>1. PICK reason \in Endings(Progress, verdict, policy) : stats' = StatsFor(Progress, reason)
      BY DEF FinishOn
    <2>2. stats'.stop_reason = reason
      BY <2>1 DEF StatsFor
    <2>3. CASE verdict = "Return"
      BY <2>1, <2>2, <2>3 DEF Endings
    <2>4. CASE verdict = "Abort"
      BY <2>1, <2>2, <2>4 DEF Endings
    <2>5. CASE verdict = "Retry"
      BY <2>1, <2>2, <2>5 DEF Endings
    <2>6. QED
      BY <2>3, <2>4, <2>5 DEF Verdict
  <1>2. RetryOn(verdict) => verdict = "Retry"
    BY DEF RetryOn, Delays
  <1>3. QED
    BY <1>1, <1>2

LEMMA NextScriptInv ==
    IInv /\ CallerTyped /\ ScriptInv /\ [CallerNext]_allVars => ScriptInv'
  <1> SUFFICES ASSUME IInv, CallerTyped, ScriptInv, [CallerNext]_allVars,
                      caller' = "script", calls' <= AttemptMax
               PROVE  ScriptInv'
    BY DEF ScriptInv
  <1>0. /\ caller = "script" /\ script' = script
        /\ calls \in Nat /\ AttemptMax \in Nat
    BY RetryAssumption DEF IInv, TypeOK, CallerNext, CallerStep, OpStarts, OpReturns, SetFlag,
                           callerVars, allVars
  <1>a. (\A n : Scripted(n)' = Scripted(n)) /\ (\A n : Unsettled(n)' = Unsettled(n))
    BY <1>0 DEF Scripted, Unsettled
  <1>1. CASE OpStarts
    <2>1. pc = "Before" /\ pc' = "Op" /\ calls' = Least(calls + 1, AttemptMax + 1)
      BY <1>1 DEF OpStarts, BeginAttempt
    <2>2. calls <= AttemptMax /\ calls' - 1 = calls
      BY <1>0, <2>1 DEF Least
    <2>3. Unsettled(calls)
      BY <1>0, <2>1, <2>2 DEF ScriptInv
    <2>4. QED
      BY <1>a, <2>1, <2>2, <2>3 DEF ScriptInv
  <1>2. CASE OpReturns
    <2>1. pc = "Op" /\ calls' = calls
      BY <1>2 DEF OpReturns, FinishOn, RetryOn
    <2>2. Scripted(calls) \in Verdict /\ Verdicts = {Scripted(calls)}
      BY <1>0, <2>1, RunningIsCalled, VerdictsTyped DEF CallerTyped, Verdicts
    <2>3. calls <= AttemptMax /\ Unsettled(calls - 1)
      BY <1>0, <2>1 DEF ScriptInv
    <2>4. CASE FinishOn(Scripted(calls))
      <3>1. pc' = "Done"
        BY <2>4 DEF FinishOn
      <3>2. QED
        BY <1>a, <2>1, <2>2, <2>3, <2>4, <3>1, VerdictDecides DEF ScriptInv
    <2>5. CASE RetryOn(Scripted(calls))
      <3>1. pc' # "Done"
        BY <2>5 DEF RetryOn, Advance
      <3>2. Scripted(calls) = "Retry"
        BY <2>2, <2>5, VerdictDecides
      <3>3. Unsettled(calls)
        BY <1>0, <2>3, <3>2 DEF Unsettled
      <3>4. QED
        BY <1>a, <2>1, <2>3, <3>1, <3>3 DEF ScriptInv
    <2>6. QED
      BY <1>2, <2>2, <2>4, <2>5 DEF OpReturns
  <1>3. CASE ~(OpStarts \/ OpReturns)
    <2>1. /\ calls' = calls
          /\ pc' \in {"Ready", "Before", "Sleep"} => pc \in {"Ready", "Before", "Sleep"}
          /\ pc' = "Done" => pc = "Done" /\ stats' = stats
      BY <1>3 DEF CallerNext, CallerStep, Call, WakeUp, Advance, AssertionPanics, SetFlag,
                  Unwind, Tick, Rest, vars, history, allVars
    <2>2. QED
      BY <1>0, <1>a, <2>1 DEF ScriptInv
  <1>4. QED
    BY <1>1, <1>2, <1>3

\* A poller's run ends with its first settled outcome, or exhausted before it:
\* nothing it was to hear is skipped or asked for twice.
THEOREM PollersHearEachOutcome == CallerSpec => []FirstSettledOutcome
  <1>1. CallerInit => ScriptInv
    BY DEF CallerInit, Init, ScriptInv, Unsettled
  <1>2. ScriptInv => FirstSettledOutcome
    BY DEF ScriptInv, Unsettled, FirstSettledOutcome
  <1>3. QED
    BY <1>1, <1>2, NextScriptInv, CallerInvariance, PTL DEF CallerSpec

-----------------------------------------------------------------------------
(***************************************************************************)
(* What the policies of Policies promise, whatever its Limit and Deadline  *)
(* and whatever the other strategies answer.                               *)
(***************************************************************************)
\* The configurations give every policy the stop of Policies (StopAnswers <- PolicyStops).
PolicyStopsAreUsed ==
    \A p \in Policy, s \in RetryState : StopAnswers(p, s) = PolicyStops(p, s)

\* Stops that all hold are composed into a stop that holds.
LEMMA StopAllHolds ==
    ASSUME NEW left, NEW right, \A l \in left : l, \A r \in right : r
    PROVE  \A stop \in StopAll(left, right) : stop
  <1>1. \A stop \in StopAll(left, right) : \E l \in left, r \in right : stop = (l /\ r)
    BY SMT DEF StopAll
  <1>2. QED
    BY <1>1, Zenon

LEMMA StopAnyHolds ==
    ASSUME NEW left, NEW right, \A r \in right : r
    PROVE  \A stop \in StopAny(left, right) : stop
  <1>1. \A stop \in StopAny(left, right) : \E l \in left, r \in right : stop = (l \/ r)
    BY SMT DEF StopAny
  <1>2. QED
    BY <1>1, Zenon

LEMMA StopAfterAttemptsHolds ==
    ASSUME NEW max, NEW state, state.attempt >= max
    PROVE  \A stop \in StopAfterAttempts(max, state) : stop
  BY Zenon DEF StopAfterAttempts

\* From the first attempt at the limit on, every answer is to stop.
LEMMA LimitStops ==
    ASSUME PolicyStopsAreUsed, NEW p \in Policy \cap LimitedPolicies,
           Limit \in Nat \ {0}, p = "composed" => Limit # 1,
           NEW progress \in ProgressType, progress.attempt >= Limit
    PROVE  \A verdict \in Verdict : Delays(progress, verdict, p) = {}
  <1> DEFINE state == StateOf(progress)
             answers == PolicyStops(p, state)
  <1>1. /\ state \in RetryState
        /\ state.attempt >= Limit
        /\ p = "composed" => state.attempt >= 2
    BY RetryAssumption DEF StateOf, RetryState, ProgressType, Attempts
  <1>2. StopAnswers(p, state) = answers
    BY <1>1 DEF PolicyStopsAreUsed
  <1>3. CASE p \in {"attempts", "feedback", "immediate"}
    <2>1. answers = StopAfterAttempts(Limit, state)
      BY <1>3 DEF PolicyStops
    <2>2. \A stop \in answers : stop
      BY <1>1, <2>1, StopAfterAttemptsHolds
    <2>3. QED
      BY <1>2, <2>2 DEF Delays
  <1>4. CASE p = "composed"
    <2>1. answers = StopAll(StopAfterAttempts(2, state),
                            StopAny(StopAfterElapsed(Deadline, state),
                                    StopAfterAttempts(Limit, state)))
      BY <1>4 DEF PolicyStops
    <2>2. \A stop \in StopAfterAttempts(2, state) : stop
      BY <1>1, <1>4, StopAfterAttemptsHolds
    <2>3. \A stop \in StopAfterAttempts(Limit, state) : stop
      BY <1>1, StopAfterAttemptsHolds
    <2>4. \A stop \in StopAny(StopAfterElapsed(Deadline, state),
                              StopAfterAttempts(Limit, state)) : stop
      BY <2>3, StopAnyHolds
    <2>5. \A stop \in answers : stop
      BY <2>1, <2>2, <2>4, StopAllHolds
    <2>6. QED
      BY <1>2, <2>5 DEF Delays
  <1>5. QED
    BY <1>3, <1>4 DEF LimitedPolicies

\* The loop goes round only while another call is allowed.
LimitInv ==
    policy \in LimitedPolicies =>
        /\ calls <= Limit
        /\ pc \in {"Ready", "Before", "Sleep"} => calls < Limit

(***************************************************************************)
(* stop::attempts(Limit), alone, under a timeout or composed, calls the    *)
(* operation at most Limit times, on any clock and with any wait strategy. *)
(* (A composed strategy that also wants two attempts has two at least.)    *)
(***************************************************************************)
THEOREM LimitIsKept ==
    ASSUME PolicyStopsAreUsed, Limit \in Attempts, "composed" \in Policy => Limit # 1
    PROVE  Spec => []AttemptsLimited
  <1>1. Limit \in Nat \ {0} /\ Limit <= AttemptMax /\ AttemptMax \in Nat
    BY RetryAssumption DEF Attempts
  <1>2. Init => LimitInv
    BY <1>1 DEF Init, LimitInv
  <1>3. IInv /\ LimitInv /\ [Next]_vars => LimitInv'
    <2> SUFFICES ASSUME IInv, LimitInv, [Next]_vars, policy' \in LimitedPolicies
                 PROVE  /\ calls' <= Limit
                        /\ pc' \in {"Ready", "Before", "Sleep"} => calls' < Limit
      BY DEF LimitInv
    <2>1. policy' = policy /\ calls \in Nat /\ policy \in Policy
      BY DEF Next, Step, Call, BeginAttempt, Finish, FinishOn, Retry, RetryOn, WakeUp,
             AssertionPanics, Unwind, Tick, Rest, vars, IInv, TypeOK
    <2>2. CASE BeginAttempt
      BY <1>1, <2>1, <2>2 DEF BeginAttempt, LimitInv, Least
    <2>3. CASE Retry
      <3>1. PICK verdict \in Verdict : \E d \in Delays(Progress, verdict, policy) : TRUE
        BY <2>3 DEF Retry, RetryOn
      <3>2. Delays(Progress, verdict, policy) # {}
        BY <3>1
      <3>3. Progress \in ProgressType /\ Progress.attempt = attempt /\ attempt \in Nat
        BY <1>1, ProgressTyped DEF IInv, Progress, TypeOK, Attempts
      <3>4. ~(Progress.attempt >= Limit)
        BY <1>1, <2>1, <3>2, <3>3, LimitStops
      <3>5. attempt = Least(calls, AttemptMax) /\ calls' = calls
        BY <2>3 DEF Retry, RetryOn, IInv, Bookkeeping
      <3>6. QED
        BY <1>1, <2>1, <3>3, <3>4, <3>5 DEF Least
    <2>4. CASE ~(BeginAttempt \/ Retry)
      <3>1. /\ calls' = calls
            /\ pc' \in {"Ready", "Before", "Sleep"} => pc \in {"Ready", "Before", "Sleep"}
        BY <2>4 DEF Next, Step, Call, Finish, FinishOn, WakeUp, Advance, AssertionPanics, Unwind,
                    Tick, Rest, vars, history
      <3>2. QED
        BY <2>1, <3>1 DEF LimitInv
    <2>5. QED
      BY <2>2, <2>3, <2>4
  <1>4. LimitInv => AttemptsLimited
    BY DEF LimitInv, AttemptsLimited
  <1>5. QED
    BY <1>2, <1>3, <1>4, Invariance, PTL DEF Spec

\* A policy that never stops is exhausted only by its timeout.
ExhaustedInv ==
    (policy \in {"deadline", "zero"} /\ pc = "Done" /\ stats.stop_reason = "Exhausted")
        => TimeoutExceeded(Timeout[policy], highest)

LEMMA ExhaustedByTimeout ==
    ASSUME PolicyStopsAreUsed
    PROVE  Spec => []ExhaustedInv
  <1>1. Init => ExhaustedInv
    BY DEF Init, ExhaustedInv
  <1>2. IInv /\ ExhaustedInv /\ [Next]_vars => ExhaustedInv'
    <2> SUFFICES ASSUME IInv, ExhaustedInv, [Next]_vars,
                        policy' \in {"deadline", "zero"}, pc' = "Done",
                        stats'.stop_reason = "Exhausted"
                 PROVE  TimeoutExceeded(Timeout[policy'], highest')
      BY DEF ExhaustedInv
    <2>1. policy' = policy /\ policy \in Policy
      BY DEF Next, Step, Call, BeginAttempt, Finish, FinishOn, Retry, RetryOn, WakeUp,
             AssertionPanics, Unwind, Tick, Rest, vars, IInv, TypeOK
    <2>2. CASE Finish
      <3>1. PICK verdict \in Verdict : \E reason \in Endings(Progress, verdict, policy) :
                stats' = StatsFor(Progress, reason)
        BY <2>2 DEF Finish, FinishOn
      <3>2. "Exhausted" \in Endings(Progress, verdict, policy)
        BY <3>1 DEF StatsFor
      <3>3. PICK stop \in StopAnswers(policy, StateOf(Progress)) :
                stop \/ TimeoutExceeded(Timeout[policy], Progress.elapsed)
        BY <3>2 DEF Endings, Verdict
      <3>4. StateOf(Progress) \in RetryState
        BY ProgressTyped DEF IInv, StateOf, RetryState, ProgressType
      <3>5. ~stop
        <4>1. policy \in {"deadline", "zero"}
          BY <2>1
        <4>2. StopAnswers(policy, StateOf(Progress)) = {FALSE}
          BY <2>1, <3>4, <4>1 DEF PolicyStopsAreUsed, PolicyStops, StopNever
        <4>3. QED
          BY <3>3, <4>2, Zenon
      <3>6. highest' = Progress.elapsed
        BY <2>2 DEF Finish, FinishOn
      <3>7. QED
        BY <2>1, <3>3, <3>5, <3>6
    <2>3. CASE ~Finish
      <3>1. pc = "Done" /\ stats' = stats /\ highest' = highest
        BY <2>3 DEF Next, Step, Call, BeginAttempt, Retry, RetryOn, WakeUp, Advance,
                    AssertionPanics, Unwind, Tick, Rest, vars
      <3>2. QED
        BY <2>1, <3>1 DEF ExhaustedInv
    <2>4. QED
      BY <2>2, <2>3
  <1>3. QED
    BY <1>1, <1>2, Invariance, PTL DEF Spec

(***************************************************************************)
(* On a virtual clock, which only the waits move, a run that only its      *)
(* timeout stops has waited for exactly the timeout when it gives up: for  *)
(* any timeout and any wait strategy (testing-with-virtual-clock.rs).      *)
(***************************************************************************)
THEOREM BudgetExactlySpent ==
    ASSUME ContractClock, PolicyStopsAreUsed
    PROVE  Spec => []BudgetIsSpentExactly
  <1>1. IInv /\ TimeoutInv /\ ExhaustedInv => BudgetIsSpentExactly
    <2> SUFFICES ASSUME IInv, TimeoutInv, ExhaustedInv, policy \in {"deadline", "zero"},
                        pc = "Done", stats.stop_reason = "Exhausted", now = origin + slept
                 PROVE  slept = Timeout[policy]
      BY DEF BudgetIsSpentExactly
    <2>1. /\ now \in Nat /\ origin \in Nat /\ highest \in Nat /\ total_wait \in Nat
          /\ delay \in Nat
          /\ Timeout[policy] # None => Timeout[policy] \in Nat
      BY RetryAssumption, DurMaxAssumption DEF IInv, TypeOK, MaybeDuration, Duration
    <2>2. Timeout[policy] # None /\ highest >= Timeout[policy]
      BY DEF ExhaustedInv, TimeoutExceeded
    <2>3. origin + highest <= now /\ total_wait + delay <= Timeout[policy] /\ slept = total_wait
      BY <2>2 DEF TimeoutInv, WatermarkInv, BudgetInv, IInv, Bookkeeping
    <2>4. QED
      BY <2>1, <2>2, <2>3
  <1>2. QED
    BY <1>1, TimeoutInvariance, ExhaustedByTimeout, Invariance, PTL

-----------------------------------------------------------------------------
(***************************************************************************)
(* Every run ends, but for what liveness is about: each step of the loop's *)
(* own brings a run nearer to its end by a natural number that no other    *)
(* step raises. A thread that goes on taking steps takes as many of them   *)
(* as the number was at first, and no more.                                *)
(***************************************************************************)
\* How far the loop has to go when its attempts are limited: three steps to an
\* attempt, and one to begin with.
AttemptRank ==
    3 * (Limit - calls) + (CASE pc = "Op"                   -> 3
                             [] pc \in {"Ready", "Sleep"}   -> 2
                             [] pc = "Before"               -> 1
                             [] pc \in {"Done", "Unwound"}  -> 0)

AttemptRankFalls ==
    /\ AttemptRank \in Nat /\ AttemptRank' \in Nat
    /\ AttemptRank' <= AttemptRank
    /\ Step => AttemptRank' < AttemptRank

\* And when the waits run out.
BudgetRank ==
    3 * (Timeout[policy] - Granted) + (CASE pc \in {"Ready", "Sleep"}  -> 3
                                         [] pc = "Before"              -> 2
                                         [] pc = "Op"                  -> 1
                                         [] pc \in {"Done", "Unwound"} -> 0)

BudgetRankFalls ==
    /\ BudgetRank \in Nat /\ BudgetRank' \in Nat
    /\ BudgetRank' <= BudgetRank
    /\ Step => BudgetRank' < BudgetRank

\* What the steps do to the ranks' parts.
LEMMA WhereStepsLead ==
    ASSUME IInv, [Next]_vars
    PROVE  /\ policy' = policy
           /\ \/ pc = "Ready" /\ pc' = "Before" /\ UNCHANGED <<calls, Granted>>
              \/ BeginAttempt
              \/ Finish
              \/ Retry
              \/ pc = "Sleep" /\ pc' = "Before" /\ UNCHANGED <<calls, Granted>>
              \/ /\ pc \in {"Before", "Op", "Sleep"} /\ pc' = "Unwound"
                 /\ UNCHANGED <<calls, Granted>>
              \/ ~Step /\ UNCHANGED <<pc, calls, Granted>>
  <1>1. CASE Call
    BY <1>1 DEF Call, history, loop, Granted
  <1>2. CASE BeginAttempt
    BY <1>2 DEF BeginAttempt
  <1>3. CASE Finish
    BY <1>3 DEF Finish, FinishOn
  <1>4. CASE Retry
    BY <1>4 DEF Retry, RetryOn
  <1>5. CASE WakeUp
    <2>1. total_wait' = Granted /\ delay' = 0 /\ Granted \in Duration
      BY <1>5, DurationArithmetic DEF WakeUp, Advance, Granted, IInv, TypeOK
    <2>2. Granted' = Granted
      BY <2>1, DurMaxAssumption DEF Granted, SatAdd, Least, Duration
    <2>3. QED
      BY <1>5, <2>2 DEF WakeUp, Advance
  <1>6. CASE AssertionPanics \/ Unwind
    BY <1>6 DEF AssertionPanics, Unwind, history, loop, Granted
  <1>7. CASE Tick \/ Rest \/ UNCHANGED vars
    <2>1. UNCHANGED <<pc, policy, calls, total_wait, delay>>
      BY <1>7 DEF Tick, Rest, vars, history, loop
    <2>2. Step => pc' # pc
      BY DEF Step, Call, BeginAttempt, Finish, FinishOn, Retry, RetryOn, WakeUp, Advance,
             AssertionPanics
    <2>3. QED
      BY <2>1, <2>2 DEF Granted
  <1>8. QED
    BY <1>1, <1>2, <1>3, <1>4, <1>5, <1>6, <1>7 DEF Next, Step

LEMMA WhereRetryLeads ==
    ASSUME IInv, Retry
    PROVE  pc = "Op" /\ pc' \in {"Before", "Sleep"} /\ calls' = calls
  BY DEF Retry, RetryOn, Advance

(***************************************************************************)
(* A run limited by stop::attempts ends within three steps to an attempt,  *)
(* on any clock and with any wait strategy.                                *)
(***************************************************************************)
THEOREM AttemptsRunOut ==
    ASSUME PolicyStopsAreUsed, Limit \in Attempts, "composed" \in Policy => Limit # 1
    PROVE  Spec => [][(policy \in LimitedPolicies) => AttemptRankFalls]_vars
  <1>1. Limit \in Nat
    BY RetryAssumption DEF Attempts
  <1>2. ASSUME IInv, IInv', AttemptsLimited, AttemptsLimited', [Next]_vars,
               policy \in LimitedPolicies
        PROVE  AttemptRankFalls
    <2>1. /\ calls \in Nat /\ calls' \in Nat /\ calls <= Limit /\ calls' <= Limit
          /\ pc \in {"Ready", "Before", "Op", "Sleep", "Done", "Unwound"}
      BY <1>2, WhereStepsLead DEF IInv, TypeOK, AttemptsLimited
    <2>2. CASE BeginAttempt
      <3>1. pc = "Before" /\ pc' = "Op" /\ calls' = calls + 1
        BY <1>1, <2>1, <2>2, RetryAssumption DEF BeginAttempt, Least, Attempts
      <3>2. QED
        BY <1>1, <2>1, <3>1 DEF AttemptRankFalls, AttemptRank
    <2>3. CASE Finish
      <3>1. pc = "Op" /\ pc' = "Done" /\ calls' = calls
        BY <2>3 DEF Finish, FinishOn
      <3>2. QED
        BY <1>1, <2>1, <3>1 DEF AttemptRankFalls, AttemptRank
    <2>4. CASE Retry
      BY <1>1, <1>2, <2>1, <2>4, WhereRetryLeads DEF AttemptRankFalls, AttemptRank
    <2>5. CASE ~(BeginAttempt \/ Finish \/ Retry)
      <3>1. /\ calls' = calls
            /\ \/ pc \in {"Ready", "Sleep"} /\ pc' = "Before"
               \/ pc \in {"Before", "Op", "Sleep"} /\ pc' = "Unwound"
               \/ ~Step /\ pc' = pc
        BY <1>2, <2>5, WhereStepsLead
      <3>2. QED
        BY <1>1, <2>1, <3>1 DEF AttemptRankFalls, AttemptRank
    <2>6. QED
      BY <2>2, <2>3, <2>4, <2>5
  <1>3. IInv /\ IInv' /\ AttemptsLimited /\ AttemptsLimited' /\ [Next]_vars
          => [(policy \in LimitedPolicies) => AttemptRankFalls]_vars
    BY <1>2
  <1>4. QED
    BY <1>3, LimitIsKept, Invariance, PTL DEF Spec

(***************************************************************************)
(* A run with a timeout whose wait strategy never asks for no delay at all *)
(* ends within three steps to a unit of the timeout, with a clock that     *)
(* keeps its contract and whatever the stop strategy answers: each wait is *)
(* taken from what is left.                                                *)
(***************************************************************************)
THEOREM TimeRunsOut ==
    ASSUME ContractClock
    PROVE  Spec => [][(/\ Timeout[policy] # None
                       /\ \A s \in RetryState : 0 \notin WaitAnswers(policy, s))
                         => BudgetRankFalls]_vars
  <1> DEFINE Limited == /\ Timeout[policy] # None
                        /\ \A s \in RetryState : 0 \notin WaitAnswers(policy, s)
  <1>1. ASSUME IInv, IInv', TimeoutInv, WaitWithinTimeout, WaitWithinTimeout', [Next]_vars,
               Limited
        PROVE  BudgetRankFalls
    <2>1. PICK T \in Nat, g \in Nat, h \in Nat :
            /\ T = Timeout[policy] /\ T = Timeout[policy']
            /\ g = Granted /\ h = Granted' /\ g <= T /\ h <= T
      <3>1. policy' = policy /\ policy \in Policy
        BY <1>1, WhereStepsLead DEF IInv, TypeOK
      <3>2. Timeout[policy] \in Duration
        BY <1>1, <3>1, RetryAssumption DEF MaybeDuration
      <3>3. Granted \in Duration /\ Granted' \in Duration
        BY <1>1, DurationArithmetic DEF Granted, IInv, TypeOK
      <3>4. Granted <= Timeout[policy] /\ Granted' <= Timeout[policy]
        BY <1>1, <3>1 DEF WaitWithinTimeout
      <3>5. QED
        BY <3>1, <3>2, <3>3, <3>4, DurMaxAssumption DEF Duration
    <2>2. pc \in {"Ready", "Before", "Op", "Sleep", "Done", "Unwound"}
      BY <1>1 DEF IInv, TypeOK
    <2>3. CASE BeginAttempt
      <3>1. pc = "Before" /\ pc' = "Op" /\ h = g
        BY <2>1, <2>3 DEF BeginAttempt, Granted, loop
      <3>2. QED
        BY <2>1, <3>1 DEF BudgetRankFalls, BudgetRank
    <2>4. CASE Finish
      <3>1. pc = "Op" /\ pc' = "Done" /\ h = g
        BY <2>1, <2>4 DEF Finish, FinishOn, Granted, loop
      <3>2. QED
        BY <2>1, <3>1 DEF BudgetRankFalls, BudgetRank
    <2>5. CASE Retry
      <3>1. PICK verdict \in Verdict :
              \E d \in Delays(Progress, verdict, policy) :
                 \/ d = 0
                 \/ d # 0 /\ delay' = d /\ pc' = "Sleep" /\ UNCHANGED loop
        BY <2>5 DEF Retry, RetryOn
      <3>2. PICK d \in Delays(Progress, verdict, policy) :
                 \/ d = 0
                 \/ d # 0 /\ delay' = d /\ pc' = "Sleep" /\ UNCHANGED loop
        BY <3>1
      <3>3. policy \in Policy /\ Progress \in ProgressType /\ StateOf(Progress) \in RetryState
        BY <1>1, ProgressTyped, StateOfType DEF IInv, TypeOK
      <3>4. d # 0 /\ d \in Duration /\ d <= T /\ Progress.elapsed < T
        <4>0. /\ Timeout[policy] \in Duration
              /\ Progress.elapsed < Timeout[policy]
              /\ d <= Timeout[policy] - Progress.elapsed
          BY <1>1, <3>3, DelaysWithinTimeout
        <4>1. d # 0
          BY <1>1, <3>3, DelaysAreLonger
        <4>2. d \in Duration
          BY <3>3, DelaysWithinTimeout
        <4>3. d <= T - Progress.elapsed /\ Progress.elapsed \in Nat
          BY <2>1, <3>3, <4>0, DurMaxAssumption DEF ProgressType, Duration
        <4>4. QED
          BY <2>1, <4>0, <4>1, <4>2, <4>3, DurMaxAssumption DEF Duration
      <3>5. pc = "Op" /\ pc' = "Sleep" /\ delay = 0 /\ delay' = d /\ total_wait' = total_wait
            /\ total_wait \in Duration
        BY <1>1, <2>5, <3>2, <3>4 DEF Retry, RetryOn, loop, IInv, Bookkeeping, TypeOK
      <3>6. h > g
        <4>1. g = Least(total_wait, DurMax) /\ h = Least(total_wait + d, DurMax)
          BY <2>1, <3>5, DurMaxAssumption DEF Granted, SatAdd, Duration
        <4>2. total_wait < DurMax
          <5>1. total_wait <= highest /\ highest <= Progress.elapsed
            BY <1>1, <3>5, ReadingElapsed DEF TimeoutInv, BudgetInv, IInv, TypeOK, Progress
          <5>2. Progress.elapsed < T /\ T <= DurMax
            <6>1. Timeout[policy] \in Duration
              BY <1>1, <3>3, RetryAssumption DEF MaybeDuration
            <6>2. QED
              BY <2>1, <3>4, <6>1, DurMaxAssumption DEF Duration
          <5>3. highest \in Nat /\ Progress.elapsed \in Nat /\ total_wait \in Nat /\ DurMax \in Nat
            BY <1>1, <3>3, DurMaxAssumption DEF IInv, TypeOK, ProgressType, Duration
          <5>4. QED
            BY <2>1, <5>1, <5>2, <5>3
        <4>3. QED
          BY <3>4, <3>5, <4>1, <4>2, DurMaxAssumption DEF Least, Duration
      <3>7. QED
        BY <2>1, <3>5, <3>6 DEF BudgetRankFalls, BudgetRank
    <2>6. CASE ~(BeginAttempt \/ Finish \/ Retry)
      <3>1. /\ h = g
            /\ \/ pc \in {"Ready", "Sleep"} /\ pc' = "Before"
               \/ pc \in {"Before", "Op", "Sleep"} /\ pc' = "Unwound"
               \/ ~Step /\ pc' = pc
        BY <1>1, <2>1, <2>6, WhereStepsLead
      <3>2. QED
        BY <2>1, <2>2, <3>1 DEF BudgetRankFalls, BudgetRank
    <2>7. QED
      BY <2>3, <2>4, <2>5, <2>6
  <1>2. IInv /\ IInv' /\ TimeoutInv /\ WaitWithinTimeout /\ WaitWithinTimeout' /\ [Next]_vars
          => [Limited => BudgetRankFalls]_vars
    BY <1>1
  <1>3. QED
    BY <1>2, WaitsBounded, TimeoutInvariance, Invariance, PTL DEF Spec

-----------------------------------------------------------------------------
(***************************************************************************)
(* What is assumed of the policies holds of those of Policies: each is     *)
(* composed of strategies that answer, in every state of a loop, something *)
(* of their type, and so answers something of its type; and those with a   *)
(* timeout never ask for no delay at all, but for what is left of it.      *)
(***************************************************************************)
TimedPolicies == {"deadline", "feedback", "zero", "custom"}

THEOREM PoliciesAnswer ==
    ASSUME DurMax >= 2, Deadline \in Duration,
           NEW p \in DOMAIN PolicyTimeouts, NEW state \in RetryState
    PROVE  /\ PolicyTimeouts[p] \in MaybeDuration
           /\ p \in TimedPolicies => PolicyTimeouts[p] # None
           /\ PolicyStops(p, state) \in SomeStops
           /\ PolicyWaits(p, state) \in SomeWaits
           /\ p \in TimedPolicies => 0 \notin PolicyWaits(p, state)
  <1>1. /\ p \in {"attempts", "deadline", "feedback", "elapsed", "zero",
                  "immediate", "composed", "spin", "custom"}
        /\ state \in Asked
        /\ 0 \in Duration /\ 1 \in Duration /\ 2 \in Duration /\ Duration \subseteq Nat
        /\ DurMax \in Nat
    BY DurMaxAssumption, RetryAssumption
    DEF PolicyTimeouts, RetryState, Attempts, Asked, Duration
  <1>2. /\ PolicyTimeouts[p] \in MaybeDuration
        /\ p \in TimedPolicies => PolicyTimeouts[p] # None
    BY <1>1, NoneAssumption DEF PolicyTimeouts, MaybeDuration, TimedPolicies
  <1>3. PolicyStops(p, state) \in SomeStops
    <2>1. CASE p \in {"attempts", "feedback", "immediate"}
      BY <2>1, StopsAnswer DEF PolicyStops
    <2>2. CASE p \in {"deadline", "zero", "spin"}
      BY <2>2, StopsAnswer DEF PolicyStops
    <2>3. CASE p = "elapsed"
      BY <2>3, StopsAnswer DEF PolicyStops
    <2>4. CASE p = "composed"
      <3>1. /\ StopAfterAttempts(2, state) \in SomeStops
            /\ StopAfterElapsed(Deadline, state) \in SomeStops
            /\ StopAfterAttempts(Limit, state) \in SomeStops
        BY StopsAnswer
      <3>2. StopAny(StopAfterElapsed(Deadline, state), StopAfterAttempts(Limit, state))
              \in SomeStops
        BY <3>1, CombinedStopsAnswer
      <3>3. QED
        BY <2>4, <3>1, <3>2, CombinedStopsAnswer DEF PolicyStops
    <2>5. CASE p = "custom"
      <3>1. BOOLEAN \in SomeStops
        BY Zenon DEF SomeStops
      <3>2. QED
        BY <2>5, <3>1 DEF PolicyStops
    <2>6. QED
      BY <1>1, <2>1, <2>2, <2>3, <2>4, <2>5
  <1>4. WaitFixed(0) \in SomeWaits /\ WaitFixed(1) \in SomeWaits /\ WaitFixed(2) \in SomeWaits
    BY <1>1, WaitsAnswer
  <1>5. CASE p \in {"attempts", "immediate", "spin"}
    <2>1. PolicyWaits(p, state) \in {WaitFixed(2), WaitFixed(0)}
      BY <1>5 DEF PolicyWaits
    <2>2. QED
      BY <1>2, <1>3, <1>4, <1>5, <2>1 DEF TimedPolicies
  <1>6. CASE p = "elapsed"
    <2>1. PolicyWaits(p, state) = WaitChain(JitterFull(WaitFixed(1)), WaitFixed(1), 1, state)
      BY <1>6 DEF PolicyWaits
    <2>2. JitterFull(WaitFixed(1)) \in SomeWaits
      BY <1>1, <1>4, JittersKeepTheirRanges
    <2>3. PolicyWaits(p, state) \in SomeWaits
      BY <1>4, <2>1, <2>2 DEF WaitChain
    <2>4. QED
      BY <1>2, <1>3, <1>6, <2>3 DEF TimedPolicies
  <1>7. CASE p = "composed"
    <2>1. PolicyWaits(p, state) = WaitCombine(WaitLinear(0, 1, state), JitterEqual(WaitFixed(2)))
      BY <1>7 DEF PolicyWaits
    <2>2. WaitLinear(0, 1, state) \in SomeWaits
      BY <1>1, WaitsAnswer
    <2>3. JitterEqual(WaitFixed(2)) \in SomeWaits
      BY <1>1, <1>4, JittersKeepTheirRanges
    <2>4. PolicyWaits(p, state) \in SomeWaits
      BY <1>1, <2>1, <2>2, <2>3, CombinedWaitsAnswer
    <2>5. QED
      BY <1>2, <1>3, <1>7, <2>4 DEF TimedPolicies
  <1>8. CASE p = "deadline"
    <2>1. PolicyWaits(p, state) = WaitExponential(1, 2, state)
      BY <1>8 DEF PolicyWaits
    <2>2. PolicyWaits(p, state) \in SomeWaits
      BY <1>1, <2>1, WaitsAnswer
    <2>3. PICK n \in Nat : n = state.attempt - 1
      BY <1>1 DEF Asked
    <2>4. PICK power \in Nat : power = Pow(2, n) /\ power >= 1
      <3>1. Pow(2, n) \in Nat /\ (2 >= 1 => Pow(2, n) >= 1)
        BY PowType
      <3>2. QED
        BY <3>1
    <2>5. WaitExponential(1, 2, state) = { SatMul(1, power) }
      BY <2>3, <2>4 DEF WaitExponential, Greatest
    <2>6. SatMul(1, power) # 0
      BY <1>1, <2>4 DEF SatMul, Least
    <2>7. QED
      BY <1>2, <1>3, <2>1, <2>2, <2>5, <2>6
  <1>9. CASE p = "feedback"
    <2> DEFINE jittered == JitterDecorrelated(WaitFixed(1), state)
    <2>1. PolicyWaits(p, state) = WaitCapped(jittered, 2)
      BY <1>9 DEF PolicyWaits
    <2>2. jittered \in SomeWaits /\ \A w \in jittered : \E v \in WaitFixed(1) : v <= w
      BY <1>1, <1>4, JittersKeepTheirRanges
    <2> HIDE DEF jittered
    <2>3. PolicyWaits(p, state) \in SomeWaits
      BY <1>1, <1>4, <2>1, <2>2, CombinedWaitsAnswer
    <2>4. \A w \in jittered : w \in Nat /\ Least(w, 2) # 0
      BY <1>1, <2>2 DEF SomeWaits, WaitFixed, Least
    <2>5. 0 \notin WaitCapped(jittered, 2)
      BY <2>4 DEF WaitCapped
    <2>6. QED
      BY <1>2, <1>3, <2>1, <2>3, <2>5
  <1>10. CASE p = "zero"
    <2>1. PolicyWaits(p, state) = JitterAdditive(WaitFixed(1), 1)
      BY <1>10 DEF PolicyWaits
    <2>2. JitterAdditive(WaitFixed(1), 1) \in SomeWaits
          /\ \A w \in JitterAdditive(WaitFixed(1), 1) : \E v \in WaitFixed(1) : v <= w
      BY <1>1, <1>4, JittersKeepTheirRanges
    <2>3. 0 \notin JitterAdditive(WaitFixed(1), 1)
      BY <2>2 DEF WaitFixed
    <2>4. QED
      BY <1>2, <1>3, <2>1, <2>2, <2>3
  <1>11. CASE p = "custom"
    <2>1. PolicyWaits(p, state) = Duration \ {0}
      BY <1>11 DEF PolicyWaits
    <2>2. Duration \ {0} \in SomeWaits
      BY <1>1 DEF SomeWaits
    <2>3. QED
      BY <1>2, <1>3, <2>1, <2>2
  <1>12. QED
    BY <1>1, <1>5, <1>6, <1>7, <1>8, <1>9, <1>10, <1>11

\* The configurations give every policy its timeout and its wait of Policies.
PolicyWaitsAreUsed ==
    \A p \in Policy :
        /\ p \in DOMAIN PolicyTimeouts /\ Timeout[p] = PolicyTimeouts[p]
        /\ \A state \in RetryState : WaitAnswers(p, state) = PolicyWaits(p, state)

\* Every run that its timeout stops ends: BoundedTerminate, for these policies,
\* but for the fairness it needs.
THEOREM TimedPoliciesRunOut ==
    ASSUME ContractClock, PolicyWaitsAreUsed, DurMax >= 2, Deadline \in Duration
    PROVE  Spec => [][(policy \in TimedPolicies) => BudgetRankFalls]_vars
  <1> DEFINE Limited == /\ Timeout[policy] # None
                        /\ \A s \in RetryState : 0 \notin WaitAnswers(policy, s)
  <1>1. TypeOK /\ [Limited => BudgetRankFalls]_vars
          => [(policy \in TimedPolicies) => BudgetRankFalls]_vars
    <2>1. TypeOK /\ policy \in TimedPolicies => Limited
      <3> SUFFICES ASSUME TypeOK, policy \in TimedPolicies PROVE Limited
        OBVIOUS
      <3>1. policy \in Policy /\ policy \in DOMAIN PolicyTimeouts
            /\ Timeout[policy] = PolicyTimeouts[policy]
        BY DEF TypeOK, PolicyWaitsAreUsed
      <3>2. ASSUME NEW state \in RetryState
            PROVE  Timeout[policy] # None /\ 0 \notin WaitAnswers(policy, state)
        <4>1. WaitAnswers(policy, state) = PolicyWaits(policy, state)
          BY <3>1 DEF PolicyWaitsAreUsed
        <4>2. QED
          BY <3>1, <4>1, PoliciesAnswer
      <3>3. \E state \in RetryState : TRUE
        <4>1. [attempt |-> 1, elapsed |-> 0, previous_delay |-> None] \in RetryState
          BY StartValues DEF RetryState, MaybeDuration
        <4>2. QED
          BY <4>1
      <3>4. QED
        BY <3>2, <3>3
    <2>2. QED
      BY <2>1
  <1>2. Spec => [][Limited => BudgetRankFalls]_vars
    BY TimeRunsOut
  <1>3. QED
    BY <1>1, <1>2, TypeCorrect, PTL

(***************************************************************************)
(* stop::elapsed bounds a run without a timeout: it is asked about the     *)
(* elapsed time, of which each wait is a part. The waits of this policy    *)
(* are of one unit at most, so what is granted before the deadline never   *)
(* goes beyond it.                                                         *)
(***************************************************************************)
ElapsedInv ==
    policy = "elapsed" =>
        /\ pc = "Ready" => total_wait = 0
        /\ pc = "Before" => origin + total_wait <= now
        /\ pc \in {"Op", "Sleep"} => total_wait <= highest
        /\ total_wait + delay <= Deadline

\* The first wait, of full jitter, may be none.
FirstWait == IF calls = 0 \/ (calls = 1 /\ pc = "Op") THEN 1 ELSE 0

\* How far the loop has to go before stop::elapsed ends it.
ElapsedRank ==
    3 * (Deadline - Granted + FirstWait) + (CASE pc \in {"Ready", "Sleep"}  -> 3
                                              [] pc = "Before"              -> 2
                                              [] pc = "Op"                  -> 1
                                              [] pc \in {"Done", "Unwound"} -> 0)

ElapsedRankFalls ==
    /\ ElapsedRank \in Nat /\ ElapsedRank' \in Nat
    /\ ElapsedRank' <= ElapsedRank
    /\ Step => ElapsedRank' < ElapsedRank

\* A retry under this policy: the deadline has not passed, and only the first
\* attempt may be followed by no wait.
LEMMA ElapsedRetries ==
    ASSUME PolicyStopsAreUsed, PolicyWaitsAreUsed, Deadline \in Duration,
           IInv, Retry, policy = "elapsed"
    PROVE  \E d \in 0 .. 1 :
              /\ attempt > 1 => d = 1
              /\ highest' = Progress.elapsed /\ Progress.elapsed \in Nat
              /\ highest <= highest' /\ highest' < Deadline
              /\ pc = "Op" /\ delay = 0 /\ policy' = policy
              /\ UNCHANGED <<now, origin, calls>>
              /\ \/ d = 0 /\ pc' = "Before" /\ delay' = 0 /\ total_wait' = total_wait
                 \/ d # 0 /\ pc' = "Sleep" /\ delay' = d /\ total_wait' = total_wait
  <1> DEFINE state == StateOf(Progress)
  <1>1. /\ policy \in Policy /\ Progress \in ProgressType /\ state \in RetryState
        /\ total_wait \in Nat /\ total_wait <= DurMax
    BY ProgressTyped, StateOfType, DurMaxAssumption DEF IInv, TypeOK, Duration
  <1>2. /\ policy \in DOMAIN PolicyTimeouts /\ Timeout[policy] = None
        /\ StopAnswers(policy, state) = {state.elapsed >= Deadline}
        /\ WaitAnswers(policy, state) =
              WaitChain(JitterFull(WaitFixed(1)), WaitFixed(1), 1, state)
    <2>1. StopAnswers(policy, state) = PolicyStops(policy, state)
      BY <1>1 DEF PolicyStopsAreUsed
    <2>2. /\ policy \in DOMAIN PolicyTimeouts /\ Timeout[policy] = PolicyTimeouts[policy]
          /\ WaitAnswers(policy, state) = PolicyWaits(policy, state)
      BY <1>1 DEF PolicyWaitsAreUsed
    <2>3. /\ PolicyTimeouts[policy] = None
          /\ PolicyStops(policy, state) = {state.elapsed >= Deadline}
          /\ PolicyWaits(policy, state) =
                WaitChain(JitterFull(WaitFixed(1)), WaitFixed(1), 1, state)
      BY DEF PolicyTimeouts, PolicyStops, PolicyWaits, StopAfterElapsed
    <2>4. QED
      BY <2>1, <2>2, <2>3
  <1>3. JitterFull(WaitFixed(1)) \subseteq 0 .. 1 /\ WaitFixed(1) = {1}
    BY DEF JitterFull, WaitFixed, RandomIn
  <1>4. PICK verdict \in Verdict :
            \E d \in Delays(Progress, verdict, policy) :
               \/ d = 0 /\ Advance(0) /\ UNCHANGED delay
               \/ d # 0 /\ delay' = d /\ pc' = "Sleep" /\ UNCHANGED loop
    BY DEF Retry, RetryOn
  <1>5. PICK d \in Delays(Progress, verdict, policy) :
               \/ d = 0 /\ Advance(0) /\ UNCHANGED delay
               \/ d # 0 /\ delay' = d /\ pc' = "Sleep" /\ UNCHANGED loop
    BY <1>4
  <1>6. d \in WaitAnswers(policy, state) /\ ~(state.elapsed >= Deadline)
    BY <1>2, <1>5 DEF Delays, Clamp, TimeoutExceeded
  <1>7. state.attempt = attempt /\ state.elapsed = Progress.elapsed
    BY DEF StateOf, Progress
  <1>8. d \in 0 .. 1 /\ (attempt > 1 => d = 1)
    <2>1. attempt \in Nat
      BY RetryAssumption DEF IInv, TypeOK, Attempts
    <2>2. QED
      BY <1>2, <1>3, <1>6, <1>7, <2>1 DEF WaitChain
  <1>9. /\ highest' = Progress.elapsed /\ Progress.elapsed \in Nat
        /\ highest <= Progress.elapsed /\ Progress.elapsed < Deadline
    <2>1. Progress.elapsed \in Duration /\ highest' = Progress.elapsed
      BY <1>1 DEF ProgressType, Retry, RetryOn
    <2>2. highest <= Progress.elapsed
      BY ReadingElapsed DEF IInv, TypeOK, Progress
    <2>3. QED
      BY <1>6, <1>7, <2>1, <2>2, DurMaxAssumption DEF Duration
  <1>10. /\ pc = "Op" /\ delay = 0 /\ policy' = policy
         /\ UNCHANGED <<now, origin, calls>>
    BY DEF Retry, RetryOn, IInv, Bookkeeping
  <1>11. \/ d = 0 /\ pc' = "Before" /\ delay' = 0 /\ total_wait' = total_wait
         \/ d # 0 /\ pc' = "Sleep" /\ delay' = d /\ total_wait' = total_wait
    <2>1. SatAdd(total_wait, 0) = total_wait
      BY <1>1, DurMaxAssumption DEF SatAdd, Least
    <2>2. QED
      BY <1>5, <1>10, <2>1 DEF Advance, loop
  <1>12. QED
    BY <1>8, <1>9, <1>10, <1>11

LEMMA NextElapsedInv ==
    ASSUME ContractClock, PolicyStopsAreUsed, PolicyWaitsAreUsed, Deadline \in Duration,
           IInv, TimeoutInv, ElapsedInv, [Next]_vars
    PROVE  ElapsedInv'
  <1>1. /\ now \in Nat /\ origin \in Nat /\ highest \in Nat /\ total_wait \in Nat
        /\ delay \in Nat /\ Deadline \in Nat
        /\ pc # "Ready" => origin + highest <= now
    BY DurMaxAssumption DEF IInv, TypeOK, Duration, TimeoutInv, WatermarkInv
  <1>2. CASE Call
    BY <1>1, <1>2 DEF Call, loop, history, ElapsedInv
  <1>3. CASE BeginAttempt
    <2>1. /\ highest' = Greatest(highest, SatSub(now, origin))
          /\ pc = "Before" /\ pc' = "Op" /\ UNCHANGED <<policy, total_wait, delay>>
      BY <1>3 DEF BeginAttempt, ReadElapsed, Seen, loop
    <2>2. origin + highest' = now /\ highest' \in Nat
      BY <1>1, <2>1 DEF Greatest, SatSub
    <2>3. QED
      BY <1>1, <2>1, <2>2 DEF ElapsedInv
  <1>4. CASE Finish
    BY <1>1, <1>4 DEF Finish, FinishOn, loop, ElapsedInv
  <1>5. CASE Retry
    <2> SUFFICES ASSUME policy' = "elapsed" PROVE ElapsedInv'
      BY DEF ElapsedInv
    <2>1. policy = "elapsed"
      BY <1>5 DEF Retry, RetryOn
    <2>2. PICK d \in 0 .. 1 :
            /\ highest <= highest' /\ highest' < Deadline /\ highest' \in Nat
            /\ pc = "Op"
            /\ UNCHANGED <<now, origin>>
            /\ \/ d = 0 /\ pc' = "Before" /\ delay' = 0 /\ total_wait' = total_wait
               \/ d # 0 /\ pc' = "Sleep" /\ delay' = d /\ total_wait' = total_wait
      BY <1>5, <2>1, ElapsedRetries
    <2>3. total_wait <= highest
      BY <2>1, <2>2 DEF ElapsedInv
    <2>4. QED
      BY <1>1, <2>2, <2>3 DEF ElapsedInv
  <1>6. CASE WakeUp
    <2>1. now' >= now + delay /\ now' \in Nat
      BY <1>6, ContractReadings, ReadingsAreDurations, DurMaxAssumption
      DEF WakeUp, Duration, IInv, TypeOK
    <2>2. /\ pc = "Sleep" /\ pc' = "Before" /\ policy' = policy /\ origin' = origin
          /\ delay' = 0 /\ total_wait' = SatAdd(total_wait, delay)
      BY <1>6 DEF WakeUp, Advance
    <2>3. total_wait' \in Nat /\ total_wait' <= total_wait + delay
      BY <1>1, <2>2, DurMaxAssumption DEF SatAdd, Least
    <2>4. QED
      BY <1>1, <2>1, <2>2, <2>3 DEF ElapsedInv
  <1>7. CASE Tick
    <2>1. now' \in Readings(now, Granted)
      BY <1>7 DEF Tick
    <2>2. now' >= now /\ now' \in Nat
      BY <2>1, DurMaxAssumption DEF ContractClock, Readings, Horizon, Duration
    <2>3. QED
      BY <1>1, <1>7, <2>2 DEF Tick, loop, ElapsedInv
  <1>8. CASE AssertionPanics \/ Unwind
    BY <1>8 DEF AssertionPanics, Unwind, loop, ElapsedInv
  <1>9. CASE Rest \/ UNCHANGED vars
    BY <1>9 DEF Rest, vars, loop, ElapsedInv
  <1>10. QED
    BY <1>2, <1>3, <1>4, <1>5, <1>6, <1>7, <1>8, <1>9 DEF Next, Step

LEMMA BelowDeadline ==
    ASSUME Deadline \in Duration, NEW w \in Duration, NEW d \in Duration, w + d <= Deadline
    PROVE  SatAdd(w, d) = w + d /\ w + d \in Nat
  BY DurMaxAssumption DEF SatAdd, Least, Duration

(***************************************************************************)
(* A run that only stop::elapsed ends has so many steps as well, although  *)
(* its first wait may be none: with a clock that keeps its contract each   *)
(* later wait takes the elapsed time nearer to the deadline.               *)
(***************************************************************************)
THEOREM ElapsedRunsOut ==
    ASSUME ContractClock, PolicyStopsAreUsed, PolicyWaitsAreUsed, Deadline \in Duration,
           AttemptMax # 1
    PROVE  Spec => [][(policy = "elapsed") => ElapsedRankFalls]_vars
  <1>1. Init => ElapsedInv
    BY DurMaxAssumption DEF Init, ElapsedInv, Duration
  <1>2. Spec => []ElapsedInv
    <2>1. IInv /\ TimeoutInv /\ ElapsedInv /\ [Next]_vars => ElapsedInv'
      BY NextElapsedInv
    <2>2. QED
      BY <1>1, <2>1, TimeoutInvariance, Invariance, PTL DEF Spec
  <1>3. ASSUME IInv, IInv', ElapsedInv, ElapsedInv', [Next]_vars, policy = "elapsed"
        PROVE  ElapsedRankFalls
    <2>1. PICK g \in Nat, h \in Nat :
            /\ g = Granted /\ h = Granted' /\ g <= Deadline /\ h <= Deadline
            /\ g = total_wait + delay /\ h = total_wait' + delay'
      <3>1. policy' = policy
        BY <1>3, WhereStepsLead
      <3>2. /\ total_wait \in Duration /\ delay \in Duration
            /\ total_wait' \in Duration /\ delay' \in Duration
        BY <1>3 DEF IInv, TypeOK
      <3>3. total_wait + delay <= Deadline /\ total_wait' + delay' <= Deadline
        BY <1>3, <3>1 DEF ElapsedInv
      <3>4. Granted = total_wait + delay /\ Granted \in Nat
        BY <3>2, <3>3, BelowDeadline DEF Granted
      <3>5. Granted' = total_wait' + delay' /\ Granted' \in Nat
        BY <3>2, <3>3, BelowDeadline DEF Granted
      <3>6. QED
        BY <3>3, <3>4, <3>5
    <2>2. /\ pc \in {"Ready", "Before", "Op", "Sleep", "Done", "Unwound"}
          /\ calls \in Nat /\ calls' \in Nat /\ Deadline \in Nat
      BY <1>3, RetryAssumption, DurMaxAssumption DEF IInv, TypeOK, Duration
    <2>3. CASE BeginAttempt
      <3>1. /\ pc = "Before" /\ pc' = "Op" /\ h = g
            /\ calls' = Least(calls + 1, AttemptMax + 1)
        BY <2>1, <2>3 DEF BeginAttempt, Granted, loop
      <3>2. (calls = 0 <=> calls' = 1) /\ calls' # 0
        BY <2>2, <3>1, RetryAssumption DEF Least
      <3>3. FirstWait \in 0 .. 1 /\ FirstWait' = FirstWait
        BY <3>1, <3>2 DEF FirstWait
      <3>4. QED
        BY <2>1, <2>2, <3>1, <3>3 DEF ElapsedRankFalls, ElapsedRank
    <2>4. CASE Retry
      <3>1. PICK d \in 0 .. 1 :
              /\ attempt > 1 => d = 1
              /\ pc = "Op" /\ delay = 0 /\ calls' = calls
              /\ \/ d = 0 /\ pc' = "Before" /\ delay' = 0 /\ total_wait' = total_wait
                 \/ d # 0 /\ pc' = "Sleep" /\ delay' = d /\ total_wait' = total_wait
        BY <1>3, <2>4, ElapsedRetries
      <3>2. h = g + d
        <4>1. PICK w \in Nat : w = total_wait
          BY <1>3, DurMaxAssumption DEF IInv, TypeOK, Duration
        <4>2. total_wait' = w /\ delay' = d
          BY <3>1, <4>1
        <4>3. g = w + 0 /\ h = w + d
          BY <2>1, <3>1, <4>1, <4>2
        <4>4. QED
          BY <4>3
      <3>3. attempt = Least(calls, AttemptMax) /\ attempt >= 1
        <4>1. attempt = Least(calls, AttemptMax) /\ attempt \in Attempts
          BY <1>3, <3>1 DEF IInv, Bookkeeping, TypeOK
        <4>2. QED
          BY <4>1, RetryAssumption DEF Attempts
      <3>4. calls # 0 /\ (calls # 1 => d = 1)
        BY <2>2, <3>1, <3>3, RetryAssumption DEF Least
      <3>5. /\ FirstWait' = 0
            /\ FirstWait = IF calls = 1 THEN 1 ELSE 0
        BY <3>1, <3>4 DEF FirstWait
      <3>6. QED
        BY <2>1, <2>2, <3>1, <3>2, <3>4, <3>5 DEF ElapsedRankFalls, ElapsedRank
    <2>5. CASE ~(BeginAttempt \/ Retry)
      <3>1. /\ h = g /\ calls' = calls
            /\ \/ pc \in {"Ready", "Sleep"} /\ pc' = "Before"
               \/ pc = "Op" /\ pc' = "Done"
               \/ pc \in {"Before", "Op", "Sleep"} /\ pc' = "Unwound"
               \/ ~Step /\ pc' = pc
        <4>1. Finish => pc = "Op" /\ pc' = "Done" /\ calls' = calls /\ h = g
          BY <2>1 DEF Finish, FinishOn, loop
        <4>2. QED
          BY <1>3, <2>1, <2>5, <4>1, WhereStepsLead
      <3>2. FirstWait \in 0 .. 1 /\ FirstWait' \in 0 .. 1 /\ FirstWait' <= FirstWait
        BY <2>2, <3>1 DEF FirstWait
      <3>3. QED
        BY <2>1, <2>2, <3>1, <3>2 DEF ElapsedRankFalls, ElapsedRank
    <2>6. QED
      BY <2>3, <2>4, <2>5
  <1>4. IInv /\ IInv' /\ ElapsedInv /\ ElapsedInv' /\ [Next]_vars
          => [(policy = "elapsed") => ElapsedRankFalls]_vars
    BY <1>3
  <1>5. QED
    BY <1>2, <1>4, Invariance, PTL DEF Spec
=============================================================================
