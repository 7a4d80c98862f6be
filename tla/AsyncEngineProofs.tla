------------------------- MODULE AsyncEngineProofs --------------------------
(***************************************************************************)
(* Proofs about the asynchronous engine, its likeness to the synchronous   *)
(* one, and the tasks that own its future, for every value of the          *)
(* constants: any policies, any clock, any executor, any wakers, any way   *)
(* to race the future, and any bounds.                                     *)
(***************************************************************************)
EXTENDS Parity, Race, Policies, RetryCoreProofs

(***************************************************************************)
(* What the phases mean. The counter counts the calls in every phase, and  *)
(* is one ahead of them only where the next one is due; what was granted   *)
(* has been slept, but for the wait in progress; the baseline is there     *)
(* from the first poll; there is an end to report in the phase Done only.  *)
(***************************************************************************)
Counters ==
    /\ attempt = Least(IF phase = "ReadyToStart" THEN calls + 1 ELSE calls, AttemptMax)
    /\ IF phase = "Sleeping"
       THEN previous_delay \in Duration /\ total_wait = SatAdd(slept, previous_delay)
       ELSE slept = total_wait

Phases ==
    /\ origin = None => /\ highest = 0 /\ phase = "ReadyToStart"
                        /\ task \in {"idle", "dropped"}
    /\ phase = "Done" => task \in {"returned", "panicked"}
    /\ task = "returned" => phase = "Done"
    /\ task # "panicked" /\ phase # "Done" => exits = 0
    /\ phase # "Done" => stats = None
    /\ task \notin {"returned", "panicked"} => stats = None
    /\ StatsTellTheTruth

IInv == TypeOK /\ Counters /\ Phases

LEMMA ProgressTyped == TypeOK /\ origin # None => Progress \in ProgressType
  BY ReadingElapsed DEF TypeOK, Progress, ProgressType, MaybeDuration

LEMMA InitIInv == Init => IInv
  <1> SUFFICES ASSUME Init PROVE IInv
    OBVIOUS
  <1>1. TypeOK
    <2>1. /\ now \in Duration /\ highest \in Duration /\ total_wait \in Duration
          /\ slept \in Duration /\ attempt \in Attempts
      BY StartValues DEF Init
    <2>2. /\ origin \in MaybeDuration /\ previous_delay \in MaybeDuration
          /\ stats \in RetryStats \cup {None}
      BY DEF Init, MaybeDuration
    <2>3. calls \in 0 .. AttemptMax + 1 /\ exits \in 0 .. 1 /\ deadline \in 0 .. 2 * DurMax
      BY RetryAssumption, DurMaxAssumption DEF Init
    <2>4. QED
      BY <2>1, <2>2, <2>3 DEF Init, TypeOK
  <1>2. Counters
    BY RetryAssumption DEF Init, Counters, Least
  <1>3. Phases
    BY DEF Init, Phases, StatsTellTheTruth, Live
  <1>4. QED
    BY <1>1, <1>2, <1>3 DEF IInv

\* A wait is armed for no more than it was granted.
LEMMA WaitLengthBounded ==
    ASSUME NEW d \in Duration
    PROVE  WaitLength(d) \in Nat /\ WaitLength(d) <= d
  <1>1. d \in Nat /\ Grain \in Nat \ {0}
    BY DurMaxAssumption, ClockAssumption DEF Duration
  <1>2. d % Grain \in 0 .. d
    BY <1>1
  <1>3. QED
    BY <1>1, <1>2 DEF WaitLength

\* An attempt begins: the counter, one ahead of the calls, is caught up with.
LEMMA StartKeepsIInv == IInv /\ StartAttempt => IInv'
  <1> SUFFICES ASSUME IInv, StartAttempt PROVE IInv'
    OBVIOUS
  <1>1. /\ phase = "ReadyToStart" /\ phase' = "Polling" /\ task = "polling" /\ origin # None
        /\ calls' = Least(calls + 1, AttemptMax + 1)
        /\ UNCHANGED <<policy, debug, now, origin, attempt, previous_delay, total_wait, task,
                       waker, woken, deadline, timerReady, timerWaker, stats, slept, exits, aimed>>
    BY DEF StartAttempt, IInv, Phases, loop, executor, timer
  <1>2. calls' \in 0 .. AttemptMax + 1 /\ Least(calls', AttemptMax) = Least(calls + 1, AttemptMax)
    BY <1>1, RetryAssumption DEF IInv, TypeOK, Least
  <1>3. highest' \in Duration /\ opReady' \in BOOLEAN /\ opWaker' = None
    BY <1>1, ReadingElapsed DEF StartAttempt, IInv, TypeOK, MaybeDuration
  <1>4. TypeOK'
    BY <1>1, <1>2, <1>3 DEF IInv, TypeOK
  <1>5. Counters'
    BY <1>1, <1>2 DEF IInv, Counters
  <1>6. Phases'
    BY <1>1 DEF IInv, Phases, StatsTellTheTruth, Live
  <1>7. QED
    BY <1>4, <1>5, <1>6 DEF IInv

LEMMA FinishKeepsIInv == IInv /\ Finish => IInv'
  <1> SUFFICES ASSUME IInv, Finish PROVE IInv'
    OBVIOUS
  <1>1. /\ task = "polling" /\ task' = "returned" /\ phase = "Polling" /\ phase' = "Done"
        /\ origin # None /\ highest' = Progress.elapsed /\ exits' = exits + 1
        /\ UNCHANGED <<policy, debug, now, origin, attempt, previous_delay, total_wait, waker,
                       woken, opReady, opWaker, deadline, timerReady, timerWaker, calls, slept,
                       aimed>>
    BY DEF Finish, Completed, IInv, Phases, loop, executor, op, timer
  <1>2. PICK verdict \in Verdict :
            \E reason \in Endings(Progress, verdict, policy) : stats' = StatsFor(Progress, reason)
    BY DEF Finish
  <1>3. PICK reason \in Endings(Progress, verdict, policy) : stats' = StatsFor(Progress, reason)
    BY <1>2
  <1>4. Progress \in ProgressType
    BY <1>1, ProgressTyped DEF IInv
  <1>5. stats' \in RetryStats /\ highest' \in Duration
    BY <1>1, <1>3, <1>4, EndingsType DEF ProgressType
  <1>6. exits' = 1
    BY <1>1 DEF IInv, Phases
  <1>7. /\ stats'.attempts = Least(calls, AttemptMax)
        /\ stats'.total_wait = slept
        /\ stats'.total_elapsed = highest'
    BY <1>1, <1>3 DEF StatsFor, Progress, IInv, Counters
  <1>8. TypeOK'
    BY <1>1, <1>5, <1>6 DEF IInv, TypeOK
  <1>9. Counters'
    BY <1>1 DEF IInv, Counters
  <1>10. Phases'
    BY <1>1, <1>6, <1>7 DEF Phases, StatsTellTheTruth, Live
  <1>11. QED
    BY <1>8, <1>9, <1>10 DEF IInv

\* What the loop's next delay may be.
LEMMA GrantedDelay ==
    ASSUME IInv, Retry
    PROVE  \E d \in Duration :
              /\ total_wait' = SatAdd(total_wait, d) /\ previous_delay' = d
              /\ aimed' \in BOOLEAN
              /\ \/ d = 0 /\ Yield
                 \/ d # 0 /\ Sleep(d)
  <1>1. origin # None
    BY DEF Retry, Completed, IInv, Phases
  <1>2. Progress \in ProgressType
    BY <1>1, ProgressTyped DEF IInv
  <1>3. PICK verdict \in Verdict : \E d \in Delays(Progress, verdict, policy) :
            /\ total_wait' = SatAdd(total_wait, d) /\ previous_delay' = d
            /\ aimed' \in BOOLEAN
            /\ \/ d = 0 /\ Yield
               \/ d # 0 /\ Sleep(d)
    BY DEF Retry, IInv, TypeOK
  <1>4. PICK d \in Delays(Progress, verdict, policy) :
            /\ total_wait' = SatAdd(total_wait, d) /\ previous_delay' = d
            /\ aimed' \in BOOLEAN
            /\ \/ d = 0 /\ Yield
               \/ d # 0 /\ Sleep(d)
    BY <1>3
  <1>5. d \in Duration
    BY <1>2, DelaysWithinTimeout DEF IInv, TypeOK
  <1>6. QED
    BY <1>4, <1>5

LEMMA RetryKeepsIInv == IInv /\ Retry => IInv'
  <1> SUFFICES ASSUME IInv, Retry PROVE IInv'
    OBVIOUS
  <1>1. /\ task = "polling" /\ phase = "Polling" /\ origin # None
        /\ highest' = Progress.elapsed
        /\ UNCHANGED <<policy, debug, now, origin, attempt, waker, opReady, opWaker, stats,
                       calls, slept, exits>>
    BY DEF Retry, Completed, IInv, Phases, op
  <1>2. highest' \in Duration
    BY <1>1, ProgressTyped DEF IInv, ProgressType
  <1>3. PICK d \in Duration :
            /\ total_wait' = SatAdd(total_wait, d) /\ previous_delay' = d
            /\ aimed' \in BOOLEAN
            /\ \/ d = 0 /\ Yield
               \/ d # 0 /\ Sleep(d)
    BY GrantedDelay
  <1>4. total_wait' \in Duration /\ total_wait = slept
    BY <1>1, <1>3, DurationArithmetic DEF IInv, TypeOK, Counters
  <1>5. CASE d = 0 /\ Yield
    <2>1. /\ phase' = "Yielding" /\ task' = "idle" /\ woken' = TRUE
          /\ UNCHANGED <<deadline, timerReady, timerWaker>>
      BY <1>5 DEF Yield, timer
    <2>2. total_wait' = total_wait
      BY <1>3, <1>5, DurMaxAssumption DEF IInv, TypeOK, Duration, SatAdd, Least
    <2>3. TypeOK'
      BY <1>1, <1>2, <1>3, <1>4, <2>1 DEF IInv, TypeOK, MaybeDuration
    <2>4. Counters'
      BY <1>1, <1>4, <2>1, <2>2 DEF IInv, Counters
    <2>5. Phases'
      BY <1>1, <2>1 DEF IInv, Phases, StatsTellTheTruth, Live
    <2>6. QED
      BY <2>3, <2>4, <2>5 DEF IInv
  <1>6. CASE d # 0 /\ Sleep(d)
    <2>1. /\ phase' = "Sleeping" /\ task' = "polling" /\ woken' = woken
          /\ deadline' = now + WaitLength(d) /\ timerReady' = FALSE /\ timerWaker' = None
      BY <1>1, <1>6 DEF Sleep
    <2>2. deadline' \in 0 .. 2 * DurMax
      BY <2>1, WaitLengthBounded, DurMaxAssumption DEF IInv, TypeOK, Duration
    <2>3. TypeOK'
      BY <1>1, <1>2, <1>3, <1>4, <2>1, <2>2 DEF IInv, TypeOK, MaybeDuration
    <2>4. Counters'
      BY <1>1, <1>3, <1>4, <2>1 DEF IInv, Counters
    <2>5. Phases'
      BY <1>1, <2>1 DEF IInv, Phases, StatsTellTheTruth, Live
    <2>6. QED
      BY <2>3, <2>4, <2>5 DEF IInv
  <1>7. QED
    BY <1>3, <1>5, <1>6

\* A sleep or a yield is over: the counter moves on, in either.
LEMMA RestedKeepsIInv == IInv /\ (SleepOver \/ YieldOver) => IInv'
  <1> SUFFICES ASSUME IInv, SleepOver \/ YieldOver PROVE IInv'
    OBVIOUS
  <1>1. /\ phase \in {"Sleeping", "Yielding"} /\ phase' = "ReadyToStart"
        /\ task = "polling" /\ attempt' = NextAttempt(attempt)
        /\ UNCHANGED <<policy, debug, now, origin, highest, previous_delay, total_wait, task,
                       waker, woken, opReady, opWaker, deadline, timerReady, timerWaker, stats,
                       calls, exits, aimed>>
        /\ slept' = IF phase = "Sleeping" THEN SatAdd(slept, previous_delay) ELSE slept
    BY DEF SleepOver, YieldOver, elapsed, executor, op, timer, history
  <1>2. attempt' \in Attempts /\ attempt' = Least(calls + 1, AttemptMax)
    <2>1. attempt = Least(calls, AttemptMax)
      BY <1>1 DEF IInv, Counters
    <2>2. QED
      BY <1>1, <2>1, NextAttemptType, RetryAssumption DEF IInv, TypeOK, NextAttempt, Least
  <1>3. slept' = total_wait
    BY <1>1 DEF IInv, Counters
  <1>4. TypeOK'
    BY <1>1, <1>2, <1>3 DEF IInv, TypeOK
  <1>5. Counters'
    BY <1>1, <1>2, <1>3 DEF IInv, Counters
  <1>6. Phases'
    BY <1>1 DEF IInv, Phases, StatsTellTheTruth, Live
  <1>7. QED
    BY <1>4, <1>5, <1>6 DEF IInv

LEMMA NextIInv == IInv /\ [Next]_vars => IInv'
  <1> SUFFICES ASSUME IInv, [Next]_vars PROVE IInv'
    OBVIOUS
  <1> USE DEF IInv, elapsed, loop, executor, op, timer, history
  <1>1. CASE Poll
    <2>1. origin' \in MaybeDuration /\ origin' # None
      BY <1>1, NoneAssumption DEF Poll, Enter, TypeOK, MaybeDuration
    <2>2. QED
      BY <1>1, <2>1 DEF Poll, Enter, Scheduled, TypeOK, Counters, Phases, StatsTellTheTruth, Live
  <1>2. CASE OperationPending
    BY <1>2 DEF OperationPending, TypeOK, Counters, Phases, StatsTellTheTruth, Live
  <1>3. CASE SleepPending
    BY <1>3 DEF SleepPending, TypeOK, Counters, Phases, StatsTellTheTruth, Live
  <1>4. CASE AssertionPanics
    BY <1>4 DEF AssertionPanics, TypeOK, Counters, Phases, StatsTellTheTruth, Live
  <1>5. CASE Unwind
    <2>1. phase # "Done" /\ exits = 0 /\ exits' \in 0 .. 1
      BY <1>5 DEF Unwind, Phases
    <2>2. QED
      BY <1>5, <2>1 DEF Unwind, TypeOK, Counters, Phases, StatsTellTheTruth, Live
  <1>6. CASE PollAfterReady
    BY <1>6 DEF PollAfterReady, TypeOK, Counters, Phases, StatsTellTheTruth, Live
  <1>7. CASE Drop
    BY <1>7 DEF Drop, TypeOK, Counters, Phases, StatsTellTheTruth, Live
  <1>8. CASE OperationCompletes
    BY <1>8 DEF OperationCompletes, Wake, TypeOK, Counters, Phases, StatsTellTheTruth, Live
  <1>9. CASE TimerFires
    BY <1>9 DEF TimerFires, Wake, TypeOK, Counters, Phases, StatsTellTheTruth, Live
  <1>10. CASE Tick
    <2>1. now' \in Duration
      BY <1>10, ReadingsAreDurations DEF Tick
    <2>2. QED
      BY <1>10, <2>1 DEF Tick, TypeOK, Counters, Phases, StatsTellTheTruth, Live
  <1>11. CASE UNCHANGED vars
    BY <1>11 DEF vars, TypeOK, Counters, Phases, StatsTellTheTruth, Live
  <1>12. CASE StartAttempt \/ Finish \/ Retry \/ SleepOver \/ YieldOver
    BY <1>12, StartKeepsIInv, FinishKeepsIInv, RetryKeepsIInv, RestedKeepsIInv
  <1>13. QED
    BY <1>1, <1>2, <1>3, <1>4, <1>5, <1>6, <1>7, <1>8, <1>9, <1>10, <1>11, <1>12
    DEF Next, Turn, Rest

LEMMA Invariance == Spec => []IInv
  BY InitIInv, NextIInv, PTL DEF Spec

\* Every variable always holds a value of its Rust type.
THEOREM TypeCorrect == Spec => []TypeOK
  <1>1. IInv => TypeOK
    BY DEF IInv
  <1>2. QED
    BY <1>1, Invariance, PTL

\* What the future resolves to is what happened, across polls, sleeps and
\* yields; a future that is dropped has reported nothing.
THEOREM StatsCorrect == Spec => []StatsTellTheTruth
  <1>1. IInv => StatsTellTheTruth
    BY DEF IInv, Phases
  <1>2. QED
    BY <1>1, Invariance, PTL

-----------------------------------------------------------------------------
(***************************************************************************)
(* The timeout, for a clock that keeps its contract. Covered(x): by the    *)
(* next time elapsed is read, it will be x at least. It holds of the sum   *)
(* of the waits, and of the timeout itself once a wait has been aimed at   *)
(* it; that is why the sum stays within the timeout across polls, and why  *)
(* one attempt follows the last wait. While the loop sleeps, the deadline  *)
(* of the timer stands for the clock.                                      *)
(***************************************************************************)
Covered(x) ==
    /\ phase \in {"ReadyToStart", "Yielding"} => IF origin = None THEN x = 0 ELSE origin + x <= now
    /\ phase = "Polling" => x <= highest
    /\ phase = "Sleeping" => origin + x <= deadline /\ (timerReady => deadline <= now)

WatermarkInv == origin # None => origin + highest <= now

BudgetInv == Timeout[policy] # None => Covered(total_wait) /\ total_wait <= Timeout[policy]

AimInv ==
    aimed => /\ Timeout[policy] # None
             /\ origin # None /\ phase # "Yielding"
             /\ Covered(Timeout[policy])

TimeoutInv == WatermarkInv /\ BudgetInv /\ AimInv

BudgetKept == ContractClock => TimeoutInv

LEMMA InitTimeoutInv == Init => TimeoutInv
  <1> SUFFICES ASSUME Init PROVE TimeoutInv
    OBVIOUS
  <1>1. Timeout[policy] \in MaybeDuration
    BY RetryAssumption DEF Init
  <1>2. Timeout[policy] # None => 0 <= Timeout[policy]
    BY <1>1, DurMaxAssumption DEF MaybeDuration, Duration
  <1>3. QED
    BY <1>2 DEF Init, TimeoutInv, WatermarkInv, BudgetInv, AimInv, Covered

\* With a clock that keeps its contract what the watermark is set to is what the
\* clock shows.
LEMMA ReadingIsExact ==
    ASSUME IInv, WatermarkInv, origin # None
    PROVE  /\ ReadElapsed(highest, now, origin) \in Duration
           /\ origin + ReadElapsed(highest, now, origin) = now
  BY DurMaxAssumption
  DEF IInv, TypeOK, MaybeDuration, Duration, WatermarkInv, ReadElapsed, Greatest, Seen, SatSub

\* No step but Retry uncovers anything.
LEMMA CoveredIsKept ==
    ASSUME IInv, ContractClock, WatermarkInv, Next, ~Retry
    PROVE  /\ WatermarkInv'
           /\ \A x \in Duration : Covered(x) => Covered(x)'
  <1> DEFINE Kept == \A x \in Duration : Covered(x) => Covered(x)'
  <1>1. /\ now \in Nat /\ highest \in Nat /\ deadline \in Nat /\ total_wait \in Duration
        /\ origin # None => origin \in Nat
        /\ Duration \subseteq Nat
    BY DurMaxAssumption DEF IInv, TypeOK, MaybeDuration, Duration
  <1>2. CASE Poll
    <2>1. /\ task = "idle" /\ now' = now /\ highest' = highest /\ phase' = phase
          /\ deadline' = deadline /\ timerReady' = timerReady
          /\ origin' = IF origin = None THEN now ELSE origin
      BY <1>2 DEF Poll, Enter, Scheduled, timer
    <2>2. CASE origin = None
      <3>1. phase = "ReadyToStart" /\ highest = 0 /\ origin' = now /\ origin' # None
        BY <2>1, <2>2, NoneAssumption DEF IInv, Phases, TypeOK
      <3>2. QED
        BY <1>1, <2>1, <2>2, <3>1 DEF WatermarkInv, Covered
    <2>3. CASE origin # None
      BY <2>1, <2>3 DEF WatermarkInv, Covered
    <2>4. QED
      BY <2>2, <2>3
  <1>3. CASE StartAttempt
    <2>1. /\ phase = "ReadyToStart" /\ phase' = "Polling" /\ origin # None
          /\ now' = now /\ origin' = origin /\ origin + highest' = now /\ highest' \in Nat
      BY <1>1, <1>3, ReadingIsExact DEF StartAttempt, IInv, Phases
    <2>2. QED
      BY <1>1, <2>1 DEF WatermarkInv, Covered
  <1>4. CASE Finish
    <2>1. /\ phase' = "Done" /\ origin # None
          /\ now' = now /\ origin' = origin /\ origin + highest' = now /\ highest' \in Nat
      BY <1>1, <1>4, ReadingIsExact DEF Finish, Completed, Progress, IInv, Phases
    <2>2. QED
      BY <1>1, <2>1 DEF WatermarkInv, Covered
  <1>5. CASE SleepOver \/ YieldOver
    <2>1. /\ phase \in {"Sleeping", "Yielding"} /\ phase' = "ReadyToStart" /\ origin # None
          /\ phase = "Sleeping" => timerReady
          /\ now' = now /\ origin' = origin /\ highest' = highest
      BY <1>5 DEF SleepOver, YieldOver, elapsed, IInv, Phases
    <2>2. QED
      BY <1>1, <2>1 DEF WatermarkInv, Covered
  <1>6. CASE TimerFires
    <2>1. /\ phase = "Sleeping" /\ phase' = phase /\ now >= deadline
          /\ now' = now /\ origin' = origin /\ highest' = highest /\ deadline' = deadline
      BY <1>6 DEF TimerFires, elapsed, ContractClock
    <2>2. QED
      BY <1>1, <2>1 DEF WatermarkInv, Covered
  <1>7. CASE Tick
    <2>1. /\ now' \in Nat /\ now' >= now /\ phase' = phase /\ origin' = origin
          /\ highest' = highest /\ deadline' = deadline /\ timerReady' = timerReady
      BY <1>7, <1>1, ContractReadings, ReadingsAreDurations DEF Tick, elapsed, timer
    <2>2. QED
      BY <1>1, <2>1 DEF WatermarkInv, Covered
  <1>8. CASE OperationPending \/ SleepPending \/ AssertionPanics \/ Unwind \/ PollAfterReady
             \/ Drop \/ OperationCompletes \/ Rest
    <2>1. UNCHANGED <<now, origin, highest, phase, deadline, timerReady>>
      BY <1>8 DEF OperationPending, SleepPending, AssertionPanics, Unwind, PollAfterReady, Drop,
                  OperationCompletes, Rest, vars, elapsed, timer
    <2>2. QED
      BY <2>1 DEF WatermarkInv, Covered
  <1>9. QED
    BY <1>2, <1>3, <1>4, <1>5, <1>6, <1>7, <1>8 DEF Next, Turn

\* The step continues the loop: the reading is up to date with the clock, the
\* delay fits what is left of the timeout, no wait had been aimed at it before,
\* and none that is not slept can be.
LEMMA GrantUnderContract ==
    ASSUME ContractClock, IInv, TimeoutInv, Retry
    PROVE  /\ ~aimed
           /\ \E d \in Duration :
                 /\ total_wait' = SatAdd(total_wait, d)
                 /\ \/ d = 0 /\ Yield
                    \/ d # 0 /\ Sleep(d)
                 /\ IF Timeout[policy] = None THEN ~aimed'
                    ELSE /\ total_wait + d <= highest' + d
                         /\ highest' + d <= Timeout[policy]
                         /\ aimed' <=> highest' + d = Timeout[policy]
                         /\ d = 0 => ~aimed'
  <1> DEFINE T == Timeout[policy]
             E == Progress.elapsed
  <1>1. PICK verdict \in Verdict :
            \E d \in Delays(Progress, verdict, policy) :
               /\ total_wait' = SatAdd(total_wait, d)
               /\ aimed' = (aimed \/ (T # None /\ d = SatSub(T, E)))
               /\ \/ d = 0 /\ Yield
                  \/ d # 0 /\ Sleep(d)
    BY DEF Retry
  <1>2. PICK d \in Delays(Progress, verdict, policy) :
               /\ total_wait' = SatAdd(total_wait, d)
               /\ aimed' = (aimed \/ (T # None /\ d = SatSub(T, E)))
               /\ \/ d = 0 /\ Yield
                  \/ d # 0 /\ Sleep(d)
    BY <1>1
  <1>3. /\ policy \in Policy /\ phase = "Polling" /\ origin # None /\ aimed \in BOOLEAN
        /\ total_wait \in Duration /\ highest \in Duration /\ highest' = E
    BY DEF Retry, Completed, IInv, TypeOK, Phases
  <1>4. /\ d \in Duration
        /\ T # None => T \in Duration /\ E < T /\ d <= T - E
    BY <1>3, ProgressTyped, DelaysWithinTimeout DEF IInv
  <1>5. E \in Duration /\ E >= highest
    BY <1>3, ReadingElapsed DEF IInv, TypeOK, Progress, MaybeDuration
  <1>6. T # None => total_wait <= E /\ SatSub(T, E) = T - E
    BY <1>3, <1>4, <1>5, DurMaxAssumption
    DEF TimeoutInv, BudgetInv, Covered, SatSub, Duration
  <1>7. ~aimed
    BY <1>3, <1>4, <1>5, DurMaxAssumption DEF TimeoutInv, AimInv, Covered, Duration
  <1>8. CASE T = None
    BY <1>2, <1>4, <1>7, <1>8
  <1>9. CASE T # None
    <2>1. total_wait + d <= E + d /\ E + d <= T
      BY <1>3, <1>4, <1>5, <1>6, <1>9, DurMaxAssumption DEF Duration
    <2>2. (d = T - E <=> E + d = T) /\ (d = 0 => d # T - E)
      BY <1>4, <1>5, <1>9, DurMaxAssumption DEF Duration
    <2>3. aimed' <=> d = T - E
      BY <1>2, <1>6, <1>7, <1>9
    <2>4. QED
      BY <1>2, <1>3, <1>4, <1>7, <1>9, <2>1, <2>2, <2>3
  <1>10. QED
    BY <1>8, <1>9

LEMMA RetryKeepsTimeoutInv ==
    ASSUME ContractClock, IInv, TimeoutInv, Retry
    PROVE  TimeoutInv'
  <1> DEFINE T == Timeout[policy]
  <1>1. PICK d \in Duration :
            /\ total_wait' = SatAdd(total_wait, d)
            /\ \/ d = 0 /\ Yield
               \/ d # 0 /\ Sleep(d)
            /\ IF T = None THEN ~aimed'
               ELSE /\ total_wait + d <= highest' + d
                    /\ highest' + d <= T
                    /\ aimed' <=> highest' + d = T
                    /\ d = 0 => ~aimed'
    BY GrantUnderContract
  <1>2. PICK h \in Duration : highest' = h /\ origin + h = now
    BY ReadingIsExact DEF Retry, Completed, Progress, IInv, Phases, TimeoutInv
  <1>3. policy' = policy /\ now' = now /\ origin' = origin /\ origin # None
    BY DEF Retry, Completed, IInv, Phases
  <1>4. /\ now \in Nat /\ h \in Nat /\ d \in Nat /\ total_wait \in Nat /\ DurMax \in Nat
        /\ Duration \subseteq Nat
    BY DurMaxAssumption DEF IInv, TypeOK, Duration
  <1>5. origin \in Nat /\ (T # None => T \in Nat /\ T <= DurMax)
    <2>1. T \in MaybeDuration /\ origin \in Duration
      BY <1>3, RetryAssumption DEF IInv, TypeOK, MaybeDuration
    <2>2. QED
      BY <1>4, <2>1 DEF MaybeDuration, Duration
  <1>6. T # None => /\ total_wait <= h /\ h + d <= T /\ (aimed' <=> h + d = T)
                    /\ d = 0 => ~aimed'
    BY <1>1, <1>2, <1>4
  <1>7. T # None => total_wait' = total_wait + d
    BY <1>1, <1>4, <1>5, <1>6 DEF SatAdd, Least
  <1>8. WatermarkInv'
    BY <1>2, <1>3, <1>4, <1>5 DEF WatermarkInv
  <1>9. CASE d = 0 /\ Yield
    <2>1. phase' = "Yielding" /\ ~aimed'
      BY <1>1, <1>6, <1>9 DEF Yield
    <2>2. T # None => origin + (total_wait + d) <= now /\ total_wait + d <= T
      BY <1>2, <1>4, <1>5, <1>6, <1>9
    <2>3. QED
      BY <1>3, <1>7, <1>8, <2>1, <2>2 DEF TimeoutInv, BudgetInv, AimInv, Covered
  <1>10. CASE d # 0 /\ Sleep(d)
    <2>1. phase' = "Sleeping" /\ deadline' = now + d /\ timerReady' = FALSE
      BY <1>10 DEF Sleep, ContractClock, WaitLength
    <2>2. T # None => /\ origin + (total_wait + d) <= now + d /\ total_wait + d <= T
                      /\ aimed' => origin + T <= now + d
      BY <1>2, <1>4, <1>5, <1>6
    <2>3. QED
      BY <1>1, <1>3, <1>7, <1>8, <2>1, <2>2 DEF TimeoutInv, BudgetInv, AimInv, Covered
  <1>11. QED
    BY <1>1, <1>9, <1>10

LEMMA NextTimeoutInv ==
    ContractClock /\ IInv /\ TimeoutInv /\ [Next]_vars => TimeoutInv'
  <1> SUFFICES ASSUME ContractClock, IInv, TimeoutInv, [Next]_vars PROVE TimeoutInv'
    OBVIOUS
  <1>1. CASE Retry
    BY <1>1, RetryKeepsTimeoutInv
  <1>2. CASE Next /\ ~Retry
    <2>1. /\ policy' = policy /\ total_wait' = total_wait /\ aimed' = aimed
          /\ origin # None => origin' # None
          /\ phase' = "Yielding" => phase = "Yielding"
      BY <1>2, NoneAssumption
      DEF Next, Turn, Poll, Enter, StartAttempt, OperationPending, Finish, SleepPending, SleepOver,
          YieldOver, AssertionPanics, Unwind, PollAfterReady, Drop, OperationCompletes, TimerFires,
          Tick, Rest, vars, elapsed, loop, history
    <2>2. PICK w \in Duration : w = total_wait
      BY DEF IInv, TypeOK
    <2>3. PICK t : t = Timeout[policy]
      OBVIOUS
    <2>4. t \in MaybeDuration
      BY <2>3, RetryAssumption DEF IInv, TypeOK
    <2>5. WatermarkInv' /\ (Covered(w) => Covered(w)') /\ (t \in Duration => (Covered(t) => Covered(t)'))
      BY <1>2, CoveredIsKept DEF TimeoutInv
    <2>6. BudgetInv'
      BY <2>1, <2>2, <2>5 DEF TimeoutInv, BudgetInv, Covered
    <2>7. AimInv'
      BY <2>1, <2>3, <2>4, <2>5 DEF TimeoutInv, AimInv, Covered, MaybeDuration
    <2>8. QED
      BY <2>5, <2>6, <2>7 DEF TimeoutInv
  <1>3. CASE UNCHANGED vars
    BY <1>3 DEF vars, elapsed, loop, timer, history, TimeoutInv, WatermarkInv, BudgetInv, AimInv,
                Covered
  <1>4. QED
    BY <1>1, <1>2, <1>3

LEMMA BudgetKeptInvariance == Spec => [](IInv /\ BudgetKept)
  <1>1. Init => BudgetKept
    BY InitTimeoutInv DEF BudgetKept
  <1>2. IInv /\ BudgetKept /\ [Next]_vars => BudgetKept'
    BY NextTimeoutInv DEF BudgetKept
  <1>3. QED
    BY <1>1, <1>2, Invariance, PTL DEF Spec

\* "A clamped wait ends at the deadline and the loop performs one final attempt
\* there": with a clock that keeps its contract no further wait follows it.
THEOREM OneAttemptAtDeadline ==
    ASSUME ContractClock
    PROVE  Spec => FinalAttemptAtDeadline
  <1>1. IInv /\ BudgetKept /\ [Next]_vars
            => [(phase = "Polling" /\ aimed) => phase' \in {"Polling", "Done"}]_vars
    <2> SUFFICES ASSUME IInv, TimeoutInv, Next, phase = "Polling", aimed
                 PROVE  phase' \in {"Polling", "Done"}
      BY DEF BudgetKept
    <2>1. ~Retry
      BY GrantUnderContract
    <2>2. QED
      BY <2>1
      DEF Next, Turn, Poll, Enter, StartAttempt, OperationPending, Finish, SleepPending, SleepOver,
          YieldOver, AssertionPanics, Unwind, PollAfterReady, Drop, OperationCompletes, TimerFires,
          Tick, Rest, vars
  <1>2. QED
    BY <1>1, BudgetKeptInvariance, PTL DEF Spec, FinalAttemptAtDeadline

-----------------------------------------------------------------------------
\* The promise of RetryLoop.

LEMMA InitMapsToLoopInit == Init => Loop!Init
  <1> SUFFICES ASSUME Init PROVE Loop!Init
    OBVIOUS
  <1>1. Timeout[policy] \in MaybeDuration
    BY RetryAssumption DEF Init
  <1>2. QED
    BY <1>1 DEF Init, Live, Loop!Init, Loop!MaybeDuration, Loop!Duration, MaybeDuration, Duration

\* The step continues the loop: a wait is granted, out of what is left of the
\* budget, and none had been announced as the last.
LEMMA RetryMapsToBackOff == IInv /\ BudgetKept /\ Retry => Loop!BackOff
  <1> SUFFICES ASSUME IInv, BudgetKept, Retry PROVE Loop!BackOff
    OBVIOUS
  <1> DEFINE T == Timeout[policy]
  <1>1. /\ policy' = policy /\ phase = "Polling" /\ task = "polling"
        /\ phase' \in {"Sleeping", "Yielding"} /\ task' \in {"polling", "idle"}
    BY DEF Retry, Completed, Yield, Sleep
  <1>2. /\ total_wait \in Duration /\ aimed' \in BOOLEAN
        /\ T \in MaybeDuration
    BY GrantedDelay, RetryAssumption DEF IInv, TypeOK
  <1>3. CASE ~ContractClock
    <2>1. PICK d \in Duration : total_wait' = SatAdd(total_wait, d)
      BY GrantedDelay
    <2>2. QED
      BY <1>1, <1>3, <2>1
      DEF Live, Loop!BackOff, Loop!Duration, Loop!SatAdd, Loop!Least, Duration, SatAdd, Least
  <1>4. CASE ContractClock
    <2>1. ~aimed
      BY <1>4, GrantUnderContract DEF BudgetKept
    <2>2. PICK d \in Duration :
              /\ total_wait' = SatAdd(total_wait, d)
              /\ T # None => total_wait + d <= highest' + d /\ highest' + d <= T
      BY <1>4, GrantUnderContract DEF BudgetKept
    <2>3. T # None => total_wait + d <= T
      <3>1. PICK h \in Duration : highest' = h
        BY ProgressTyped DEF Retry, Completed, IInv, Phases, ProgressType
      <3>2. /\ total_wait \in Nat /\ d \in Nat /\ h \in Nat
            /\ T # None => T \in Nat
        BY <1>2, <3>1, DurMaxAssumption DEF MaybeDuration, Duration
      <3>3. T # None => total_wait + d <= h + d /\ h + d <= T
        BY <2>2, <3>1
      <3>4. QED
        BY <3>2, <3>3
    <2>4. QED
      BY <1>1, <1>2, <1>4, <2>1, <2>2, <2>3
      DEF Live, Loop!BackOff, Loop!Duration, Loop!SatAdd, Loop!Least, Duration, SatAdd, Least
  <1>5. QED
    BY <1>3, <1>4

LEMMA StepMapsToLoopStep ==
    IInv /\ BudgetKept /\ [Next]_vars => [Loop!Next]_Loop!vars
  <1> SUFFICES ASSUME IInv, BudgetKept, [Next]_vars PROVE [Loop!Next]_Loop!vars
    OBVIOUS
  <1>1. CASE StartAttempt
    <2>1. Loop!Begin
      BY <1>1 DEF StartAttempt, Loop!Begin, Live, loop
    <2>2. QED
      BY <2>1 DEF Loop!Next
  <1>2. CASE Finish
    <2>1. PICK verdict \in Verdict :
              \E reason \in Endings(Progress, verdict, policy) : stats' = StatsFor(Progress, reason)
      BY <1>2 DEF Finish
    <2>2. PICK reason \in Endings(Progress, verdict, policy) : stats' = StatsFor(Progress, reason)
      BY <2>1
    <2>3. reason \in StopReason
      BY <1>2, <2>2, ProgressTyped, EndingsType DEF Finish, Completed, IInv, Phases
    <2>4. Loop!Conclude
      BY <1>2, <2>2, <2>3 DEF Finish, Completed, StatsFor, StopReason, Loop!Conclude, Live, loop
    <2>5. QED
      BY <2>4 DEF Loop!Next
  <1>3. CASE Retry
    BY <1>3, RetryMapsToBackOff DEF Loop!Next
  <1>4. CASE Unwind \/ AssertionPanics \/ Drop
    <2>1. /\ phase # "Done" /\ Live /\ task' \in {"panicked", "dropped"} /\ phase' = phase
          /\ UNCHANGED <<policy, total_wait, aimed>>
      BY <1>4 DEF Unwind, AssertionPanics, Drop, IInv, Phases, Live, loop, history
    <2>2. Loop!Abandon
      BY <2>1 DEF Loop!Abandon, Live
    <2>3. QED
      BY <2>2 DEF Loop!Next
  <1>5. CASE SleepOver \/ YieldOver
    <2>1. /\ phase \in {"Sleeping", "Yielding"} /\ phase' = "ReadyToStart"
          /\ task = "polling" /\ task' = task
          /\ UNCHANGED <<policy, total_wait, aimed>>
      BY <1>5 DEF SleepOver, YieldOver, history
    <2>2. QED
      BY <2>1 DEF Loop!vars, Live
  <1>6. CASE Poll \/ OperationPending \/ SleepPending \/ PollAfterReady \/ OperationCompletes
             \/ TimerFires \/ Tick \/ UNCHANGED vars
    <2>1. /\ UNCHANGED <<policy, total_wait, aimed, phase, stats>>
          /\ phase = "Done" \/ task' = task \/ {task, task'} \subseteq {"idle", "polling"}
      BY <1>6 DEF Poll, Enter, OperationPending, SleepPending, PollAfterReady, OperationCompletes,
                  TimerFires, Tick, IInv, Phases, vars, loop, history
    <2>2. QED
      BY <2>1 DEF Loop!vars, Live
  <1>7. QED
    BY <1>1, <1>2, <1>3, <1>4, <1>5, <1>6 DEF Next, Turn, Rest

\* The asynchronous engine implements RetryLoop, whatever the policies, the clock,
\* the executor and the owner: however its polls are cut, attempts and waits
\* alternate, the waits stay within the budget, one attempt follows the last,
\* and the future ends once.
THEOREM ImplementsRetryLoop == Spec => Loop!Spec
  BY InitMapsToLoopInit, StepMapsToLoopStep, BudgetKeptInvariance, PTL DEF Spec, Loop!Spec

-----------------------------------------------------------------------------
(***************************************************************************)
(* The asynchronous engine is a twin of the synchronous one: the           *)
(* refinement that Parity states.                                          *)
(***************************************************************************)

(***************************************************************************)
(* What a wait in progress has to do with the record of its beginning. The *)
(* loop has counted the delay already; the clock has moved, by at least    *)
(* the wait once the timer is ready, if it only moves forward.             *)
(***************************************************************************)
SleepInv ==
    Asleep =>
        /\ before \in [now : Duration, previous_delay : MaybeDuration, total_wait : Duration]
        /\ previous_delay \in Duration \ {0}
        /\ total_wait = SatAdd(before.total_wait, previous_delay)
        /\ deadline = before.now + WaitLength(previous_delay)
        /\ Monotone => now >= before.now
        /\ Monotone /\ timerReady => now >= deadline

\* The clock is within the bound its readings are taken from.
HorizonInv == now <= Drift + total_wait

PInv == IInv /\ SleepInv /\ HorizonInv

\* What is granted only moves the bound up.
LEMMA HorizonGrows ==
    \A t \in Nat, waited \in Nat, more \in Nat :
        t <= Drift + waited /\ more >= waited => t <= Drift + more
  BY ClockAssumption

LEMMA InitPInv == ParityInit => PInv
  <1> SUFFICES ASSUME ParityInit PROVE PInv
    OBVIOUS
  <1>1. IInv
    BY InitIInv DEF ParityInit
  <1>2. SleepInv /\ HorizonInv
    BY ClockAssumption DEF ParityInit, Init, SleepInv, Asleep, HorizonInv
  <1>3. QED
    BY <1>1, <1>2 DEF PInv

LEMMA NextPInv == PInv /\ [ParityNext]_<<vars, before>> => PInv'
  <1> SUFFICES ASSUME PInv, [ParityNext]_<<vars, before>> PROVE PInv'
    OBVIOUS
  <1> USE DEF elapsed, loop, executor, op, timer, history
  <1>1. IInv /\ IInv'
    BY NextIInv DEF PInv, ParityNext, vars
  <1>h. /\ now <= Drift + total_wait
        /\ now \in Nat /\ Drift \in Nat /\ total_wait \in Nat /\ deadline \in Nat
        /\ SleepInv
        /\ Asleep => before.now \in Nat
    BY <1>1, ClockAssumption, DurMaxAssumption
    DEF PInv, HorizonInv, IInv, TypeOK, SleepInv, Duration
  <1>2. CASE ParityNext /\ Retry
    <2>1. PICK d \in Duration :
              /\ total_wait' = SatAdd(total_wait, d) /\ previous_delay' = d
              /\ \/ d = 0 /\ Yield
                 \/ d # 0 /\ Sleep(d)
      BY <1>1, <1>2, GrantedDelay
    <2>2. /\ now' = now /\ phase = "Polling" /\ total_wait \in Duration /\ now \in Duration
          /\ previous_delay \in MaybeDuration
      BY <1>1, <1>2 DEF Retry, Completed, IInv, TypeOK
    <2>3. total_wait' \in Nat /\ total_wait' >= total_wait
      BY <2>1, <2>2, DurMaxAssumption DEF SatAdd, Least, Duration
    <2>4. HorizonInv'
      BY <1>h, <2>2, <2>3, HorizonGrows DEF HorizonInv
    <2>5. SleepInv'
      <3>1. CASE d = 0 /\ Yield
        BY <3>1 DEF Yield, SleepInv, Asleep
      <3>2. CASE d # 0 /\ Sleep(d)
        <4>1. before' = Recorded
          BY <1>2, <2>2, <3>2 DEF ParityNext, Remember, Sleep
        <4>2. QED
          BY <2>1, <2>2, <3>2, <4>1, DurMaxAssumption
          DEF Sleep, SleepInv, Asleep, Recorded, Duration
      <3>3. QED
        BY <2>1, <3>1, <3>2
    <2>6. QED
      BY <1>1, <2>4, <2>5 DEF PInv
  <1>3. CASE ParityNext /\ TimerFires
    BY <1>1, <1>3 DEF ParityNext, Remember, TimerFires, PInv, SleepInv, Asleep, HorizonInv
  <1>4. CASE ParityNext /\ Tick
    <2>1. /\ now' \in Duration /\ now' <= Drift + total_wait
          /\ Monotone => now' >= now
      BY <1>4 DEF Tick, Readings, Horizon
    <2>2. /\ UNCHANGED <<phase, previous_delay, total_wait, deadline, timerReady>>
          /\ Asleep => before' = before
      BY <1>4 DEF ParityNext, Remember, Tick, Asleep
    <2>3. HorizonInv'
      BY <2>1, <2>2 DEF HorizonInv
    <2>4. now' \in Nat
      BY <2>1, DurMaxAssumption DEF Duration
    <2>5. SleepInv'
      BY <1>h, <2>1, <2>2, <2>4 DEF SleepInv, Asleep
    <2>6. QED
      BY <1>1, <2>3, <2>5 DEF PInv
  <1>5. CASE ParityNext /\ ~(Retry \/ TimerFires \/ Tick)
    <2>1. /\ UNCHANGED <<now, total_wait, previous_delay>>
          /\ phase' = "Sleeping" => /\ phase = "Sleeping"
                                    /\ UNCHANGED <<deadline, timerReady, before>>
      BY <1>5 DEF ParityNext, Remember, Next, Poll, Scheduled, Enter, Turn, StartAttempt,
         OperationPending, Finish, Completed, SleepPending, SleepOver, YieldOver,
         AssertionPanics, Unwind, PollAfterReady, Drop, OperationCompletes, Rest, vars
    <2>2. QED
      BY <1>1, <2>1 DEF PInv, SleepInv, Asleep, HorizonInv
  <1>6. CASE UNCHANGED <<vars, before>>
    BY <1>1, <1>6 DEF vars, PInv, SleepInv, Asleep, HorizonInv
  <1>7. QED
    BY <1>2, <1>3, <1>4, <1>5, <1>6

LEMMA ParityInvariance == ParitySpec => []PInv
  BY InitPInv, NextPInv, PTL DEF ParitySpec

-----------------------------------------------------------------------------
(***************************************************************************)
(* The operators of the instance, over the same constants, are those of    *)
(* the engine itself.                                                      *)
(***************************************************************************)
LEMMA TwinClock ==
    /\ Twin!Duration = Duration
    /\ \A a, b : Twin!SatAdd(a, b) = SatAdd(a, b) /\ Twin!SatSub(a, b) = SatSub(a, b)
    /\ \A t, waited : Twin!Readings(t, waited) = Readings(t, waited)
    /\ \A t, d, waited : Twin!ReadingsAfterWait(t, d, waited) = ReadingsAfterWait(t, d, waited)
  BY DEF Twin!Duration, Duration, Twin!SatAdd, SatAdd, Twin!SatSub, SatSub, Twin!Least, Least,
         Twin!Readings, Readings, Twin!ReadingsAfterWait, ReadingsAfterWait,
         Twin!Horizon, Horizon, Twin!WaitLength, WaitLength

LEMMA TwinWatermark ==
    /\ \A t, o : Twin!Seen(t, o) = Seen(t, o)
    /\ \A h, t, o : Twin!ReadElapsed(h, t, o) = ReadElapsed(h, t, o)
    /\ \A b, h, t, o : Twin!AssertionFails(b, h, t, o) <=> AssertionFails(b, h, t, o)
  BY DEF Twin!Seen, Seen, Twin!ReadElapsed, ReadElapsed, Twin!AssertionFails, AssertionFails,
         Twin!SatSub, SatSub, Twin!Greatest, Greatest

LEMMA TwinStep ==
    /\ Twin!Verdict = Verdict
    /\ \A a : Twin!NextAttempt(a) = NextAttempt(a)
    /\ \A progress, reason : Twin!StatsFor(progress, reason) = StatsFor(progress, reason)
    /\ \A progress, v, p : Twin!Endings(progress, v, p) = Endings(progress, v, p)
    /\ \A progress, v, p : Twin!Delays(progress, v, p) = Delays(progress, v, p)
  <1> USE DEF Twin!Least, Least, Twin!SatSub, SatSub
  <1>1. /\ Twin!Verdict = Verdict
        /\ \A a : Twin!NextAttempt(a) = NextAttempt(a)
        /\ \A progress, reason : Twin!StatsFor(progress, reason) = StatsFor(progress, reason)
    BY DEF Twin!Verdict, Verdict, Twin!NextAttempt, NextAttempt, Twin!StatsFor, StatsFor
  <1>2. \A progress, v, p : Twin!Endings(progress, v, p) = Endings(progress, v, p)
    BY DEF Twin!Endings, Endings, Twin!TimeoutExceeded, TimeoutExceeded, Twin!StateOf, StateOf
  <1>3. \A progress, v, p : Twin!Delays(progress, v, p) = Delays(progress, v, p)
    BY DEF Twin!Delays, Delays, Twin!TimeoutExceeded, TimeoutExceeded, Twin!StateOf, StateOf,
           Twin!Clamp, Clamp
  <1>4. QED
    BY <1>1, <1>2, <1>3

-----------------------------------------------------------------------------
(***************************************************************************)
(* Each step of the asynchronous engine is the same step of its twin, or   *)
(* none: a poll that finds its leaf future pending, a waker that moves, a  *)
(* timer that fires and the clock during a wait are nothing to the thread. *)
(***************************************************************************)
LEMMA InitMapsToInit == ParityInit => Twin!Init
  BY NoneAssumption DEF ParityInit, Init, Twin!Init, Control, Asleep

\* Where the twin is between two waits.
LEMMA AwakeControl ==
    origin # None =>
        /\ Live /\ phase \in {"ReadyToStart", "Yielding"} => Control = "Before"
        /\ Live /\ phase = "Polling" => Control = "Op"
        /\ Live /\ Asleep => Control = "Sleep"
        /\ ~Live /\ phase # "Done" => Control = "Unwound"
  BY DEF Control, At, Asleep

LEMMA TwinProgress ==
    phase = "Polling" /\ origin # None => Twin!Progress = Progress
  BY TwinWatermark DEF Twin!Progress, Progress, Asleep

LEMMA EnterMaps == PInv /\ Enter /\ Remember => Twin!Next \/ UNCHANGED Twin!vars
  <1> SUFFICES ASSUME PInv, Enter, Remember PROVE Twin!Next \/ UNCHANGED Twin!vars
    OBVIOUS
  <1>1. /\ task = "idle" /\ task' = "polling"
        /\ origin' = IF origin = None THEN now ELSE origin
        /\ UNCHANGED <<policy, debug, now, phase, highest, attempt, previous_delay, total_wait,
                       stats, calls, slept, exits, aimed>>
        /\ Asleep => before' = before
    BY DEF Enter, loop, history, Remember, Asleep
  <1>2. now # None
    BY NoneAssumption DEF PInv, IInv, TypeOK
  <1>3. CASE origin = None
    <2>1. highest = 0 /\ phase = "ReadyToStart"
      BY <1>3 DEF PInv, IInv, Phases
    <2>2. Twin!Call
      BY <1>1, <1>2, <1>3, <2>1
      DEF Twin!Call, Control, At, Asleep, Live, Twin!loop, Twin!history
    <2>3. QED
      BY <2>2 DEF Twin!Next, Twin!Step
  <1>4. CASE origin # None
    BY <1>1, <1>4 DEF Control, At, Asleep, Live, Twin!vars, Twin!loop, Twin!history
  <1>5. QED
    BY <1>3, <1>4

LEMMA StartMaps == PInv /\ StartAttempt => Twin!BeginAttempt
  <1> SUFFICES ASSUME PInv, StartAttempt PROVE Twin!BeginAttempt
    OBVIOUS
  <1>1. /\ origin # None /\ task = "polling" /\ phase = "ReadyToStart" /\ phase' = "Polling"
        /\ ~AssertionFails(debug, highest, now, origin)
        /\ highest' = ReadElapsed(highest, now, origin)
        /\ calls' = Least(calls + 1, AttemptMax + 1)
        /\ UNCHANGED <<policy, debug, now, origin, attempt, previous_delay, total_wait, task,
                       stats, slept, exits, aimed>>
    BY DEF StartAttempt, PInv, IInv, Phases, loop
  <1>2. Control = "Before" /\ Control' = "Op"
    BY <1>1 DEF Control, At, Live
  <1>3. QED
    BY <1>1, <1>2, TwinWatermark DEF Twin!BeginAttempt, Twin!loop, Asleep, Twin!Least, Least

LEMMA FinishMaps == PInv /\ Finish => Twin!Finish
  <1> SUFFICES ASSUME PInv, Finish PROVE Twin!Finish
    OBVIOUS
  <1>1. /\ origin # None /\ task = "polling" /\ phase = "Polling" /\ phase' = "Done"
        /\ ~AssertionFails(debug, highest, now, origin)
        /\ highest' = Progress.elapsed /\ exits' = exits + 1
        /\ UNCHANGED <<policy, debug, now, origin, attempt, previous_delay, total_wait,
                       calls, slept, aimed>>
    BY DEF Finish, Completed, PInv, IInv, Phases, loop
  <1>2. PICK verdict \in Verdict :
            \E reason \in Endings(Progress, verdict, policy) : stats' = StatsFor(Progress, reason)
    BY DEF Finish
  <1>3. Control = "Op" /\ Control' = "Done"
    BY <1>1 DEF Control, At, Live
  <1>4. Twin!Progress = Progress
    BY <1>1, TwinProgress
  <1>5. Twin!FinishOn(verdict)
    BY <1>1, <1>2, <1>3, <1>4, TwinWatermark, TwinStep DEF Twin!FinishOn, Twin!loop, Asleep
  <1>6. QED
    BY <1>5, TwinStep DEF Twin!Finish

\* A zero delay moves the twin's counters at once; another sends it to sleep
\* with the counters as they were.
LEMMA RetryMaps == PInv /\ Retry /\ Remember => Twin!Retry
  <1> SUFFICES ASSUME PInv, Retry, Remember PROVE Twin!Retry
    OBVIOUS
  <1> DEFINE Aim(d) == aimed' = (aimed \/ /\ Timeout[policy] # None
                                          /\ d = SatSub(Timeout[policy], Progress.elapsed))
  <1>1. /\ origin # None /\ task = "polling" /\ phase = "Polling"
        /\ ~AssertionFails(debug, highest, now, origin)
        /\ highest' = Progress.elapsed
        /\ UNCHANGED <<policy, debug, now, origin, attempt, stats, calls, slept, exits>>
    BY DEF Retry, Completed, PInv, IInv, Phases
  <1>2. PICK verdict \in Verdict :
            \E d \in Delays(Progress, verdict, policy) :
               /\ total_wait' = SatAdd(total_wait, d) /\ previous_delay' = d
               /\ Aim(d)
               /\ \/ d = 0 /\ Yield
                  \/ d # 0 /\ Sleep(d)
    BY DEF Retry
  <1>3. PICK d \in Delays(Progress, verdict, policy) :
            /\ total_wait' = SatAdd(total_wait, d) /\ previous_delay' = d
            /\ Aim(d)
            /\ \/ d = 0 /\ Yield
               \/ d # 0 /\ Sleep(d)
    BY <1>2
  <1>4. Control = "Op" /\ Twin!Progress = Progress
    BY <1>1, TwinProgress DEF Control, At, Live
  <1>5. CASE d = 0 /\ Yield
    <2>1. phase' = "Yielding" /\ task' = "idle"
      BY <1>5 DEF Yield
    <2>2. Control' = "Before" /\ ~Asleep /\ ~Asleep'
      BY <1>1, <2>1 DEF Control, At, Live, Asleep
    <2>3. Twin!Advance(0)
      BY <1>1, <1>3, <1>5, <2>1, <2>2, TwinClock, TwinStep DEF Twin!Advance
    <2>4. Twin!RetryOn(verdict)
      BY <1>1, <1>3, <1>4, <1>5, <2>2, <2>3, TwinClock, TwinWatermark, TwinStep DEF Twin!RetryOn
    <2>5. QED
      BY <2>4, TwinStep DEF Twin!Retry
  <1>6. CASE d # 0 /\ Sleep(d)
    <2>1. phase' = "Sleeping" /\ task' = task
      BY <1>6 DEF Sleep
    <2>2. Control' = "Sleep" /\ ~Asleep /\ Asleep'
      BY <1>1, <2>1 DEF Control, At, Live, Asleep
    <2>3. /\ before'.now = now /\ before'.previous_delay = previous_delay
          /\ before'.total_wait = total_wait
      BY <1>1, <2>1 DEF Remember, Recorded
    <2>4. Twin!RetryOn(verdict)
      BY <1>1, <1>3, <1>4, <1>6, <2>1, <2>2, <2>3, TwinClock, TwinWatermark, TwinStep
      DEF Twin!RetryOn, Twin!loop
    <2>5. QED
      BY <2>4, TwinStep DEF Twin!Retry
  <1>7. QED
    BY <1>3, <1>5, <1>6

\* The polled wait is over: the twin wakes up, with the clock where it is now.
LEMMA SleepOverMaps == PInv /\ SleepOver => Twin!WakeUp
  <1> SUFFICES ASSUME PInv, SleepOver PROVE Twin!WakeUp
    OBVIOUS
  <1>1. /\ origin # None /\ task = "polling" /\ phase = "Sleeping" /\ phase' = "ReadyToStart"
        /\ timerReady
        /\ attempt' = NextAttempt(attempt) /\ slept' = SatAdd(slept, previous_delay)
        /\ UNCHANGED <<policy, debug, now, origin, highest, previous_delay, total_wait, task,
                       stats, calls, exits, aimed>>
    BY DEF SleepOver, PInv, IInv, Phases, elapsed
  <1>2. /\ Asleep /\ ~Asleep' /\ Control = "Sleep" /\ Control' = "Before"
    BY <1>1 DEF Control, At, Live, Asleep
  <1>3. total_wait = SatAdd(before.total_wait, previous_delay)
    BY <1>2 DEF PInv, SleepInv
  <1>4. now \in ReadingsAfterWait(before.now, previous_delay, total_wait)
    <2>1. /\ now \in Duration /\ now <= Drift + total_wait
          /\ Monotone => now >= before.now /\ now >= before.now + WaitLength(previous_delay)
      BY <1>1, <1>2 DEF PInv, SleepInv, HorizonInv, IInv, TypeOK
    <2>2. QED
      BY <2>1 DEF ReadingsAfterWait, Readings, Horizon
  <1>5. Twin!Advance(previous_delay)
    BY <1>1, <1>2, <1>3, TwinClock, TwinStep DEF Twin!Advance
  <1>6. Twin!Granted = total_wait
    BY <1>2, <1>3, TwinClock DEF Twin!Granted
  <1>7. QED
    BY <1>1, <1>2, <1>4, <1>5, <1>6, TwinClock DEF Twin!WakeUp

LEMMA YieldOverMaps == PInv /\ YieldOver => UNCHANGED Twin!vars
  <1> SUFFICES ASSUME PInv, YieldOver PROVE UNCHANGED Twin!vars
    OBVIOUS
  <1>1. /\ origin # None /\ task = "polling" /\ phase = "Yielding" /\ phase' = "ReadyToStart"
        /\ attempt' = NextAttempt(attempt)
        /\ UNCHANGED <<policy, debug, now, origin, highest, previous_delay, total_wait, task,
                       stats, calls, slept, exits, aimed>>
    BY DEF YieldOver, PInv, IInv, Phases, elapsed, history
  <1>2. Control = "Before" /\ Control' = "Before"
    BY <1>1 DEF Control, At, Live
  <1>3. QED
    BY <1>1, <1>2 DEF Asleep, Twin!vars, Twin!loop, Twin!history

\* What leaves the twin's variables alone but for where it stands.
StandsStill ==
    /\ UNCHANGED <<policy, debug, phase, origin, highest, attempt, previous_delay, total_wait,
                   stats, calls, slept, aimed>>
    /\ now' = now \/ Asleep
    /\ Asleep => before' = before

LEMMA StandsStillMaps ==
    StandsStill =>
        /\ UNCHANGED <<Twin!loop, policy, debug, highest, stats, calls, slept, aimed>>
        /\ UNCHANGED <<IF Asleep THEN before.now ELSE now,
                       IF origin = None THEN 0 ELSE origin,
                       IF Asleep THEN previous_delay ELSE 0>>
  BY DEF StandsStill, Asleep, Twin!loop

\* A panic, or a drop at any await point: the twin unwinds where it stands, or
\* has never been called.
LEMMA LeavingMaps ==
    PInv /\ (Unwind \/ AssertionPanics \/ Drop) /\ Remember => Twin!Next \/ UNCHANGED Twin!vars
  <1> SUFFICES ASSUME PInv, Unwind \/ AssertionPanics \/ Drop, Remember
               PROVE  Twin!Next \/ UNCHANGED Twin!vars
    OBVIOUS
  <1>1. StandsStill /\ now' = now
    BY DEF StandsStill, Unwind, AssertionPanics, Drop, elapsed, loop, history, Remember, Asleep
  <1>2. Live /\ phase # "Done" /\ task' \in {"panicked", "dropped"} /\ phase' = phase
    BY DEF Unwind, AssertionPanics, Drop, Live, PInv, IInv, Phases
  <1>3. exits' = exits \/ (phase = "Polling" /\ exits' = exits + 1)
    BY DEF Unwind, AssertionPanics, Drop, history
  <1>4. CASE origin = None
    <2>1. Control = "Ready" /\ Control' = "Ready" /\ exits' = exits
      BY <1>1, <1>2, <1>3, <1>4 DEF Control, StandsStill, PInv, IInv, Phases
    <2>2. QED
      BY <1>1, <2>1, StandsStillMaps DEF Twin!vars, Twin!history
  <1>5. CASE origin # None
    <2>1. phase \in {"ReadyToStart", "Polling", "Sleeping", "Yielding"}
      BY <1>2 DEF PInv, IInv, TypeOK
    <2>2. /\ Control \in {"Before", "Op", "Sleep"} /\ Control' = "Unwound"
          /\ phase = "Polling" => Control = "Op"
      BY <1>1, <1>2, <1>5, <2>1 DEF Control, At, Live, StandsStill
    <2>3. Twin!Unwind
      BY <1>1, <1>3, <2>2, StandsStillMaps DEF Twin!Unwind
    <2>4. QED
      BY <2>3 DEF Twin!Next
  <1>6. QED
    BY <1>4, <1>5

\* Time passes for the twin while it is awake.
LEMMA TickMaps == PInv /\ Tick /\ Remember => Twin!Next \/ UNCHANGED Twin!vars
  <1> SUFFICES ASSUME PInv, Tick, Remember PROVE Twin!Next \/ UNCHANGED Twin!vars
    OBVIOUS
  <1>1. /\ Live /\ task' = task
        /\ now' \in Readings(now, total_wait) \ {now}
        /\ UNCHANGED <<policy, debug, phase, origin, highest, attempt, previous_delay,
                       total_wait, stats, calls, slept, exits, aimed>>
        /\ Asleep => before' = before
    BY DEF Tick, elapsed, loop, history, Remember, Asleep
  <1>2. Control' = Control
    BY <1>1 DEF Control, Live
  <1>3. CASE Asleep
    <2>1. StandsStill
      BY <1>1, <1>3 DEF StandsStill
    <2>2. QED
      BY <1>1, <1>2, <2>1, StandsStillMaps DEF Twin!vars, Twin!history
  <1>4. CASE ~Asleep
    <2>1. Control \in {"Ready", "Before", "Op"}
      BY <1>1, <1>4 DEF Control, At, Live, Asleep, PInv, IInv, TypeOK, Phases
    <2>2. Twin!Granted = total_wait
      BY <1>4, TwinClock, DurMaxAssumption
      DEF Twin!Granted, SatAdd, Least, PInv, IInv, TypeOK, Duration
    <2>3. Twin!Tick
      BY <1>1, <1>2, <1>4, <2>1, <2>2, TwinClock DEF Twin!Tick, Asleep, Twin!loop, Twin!history
    <2>4. QED
      BY <2>3 DEF Twin!Next
  <1>5. QED
    BY <1>3, <1>4

\* The steps of the executor and of the leaf futures that the twin knows nothing of.
LEMMA OthersMap ==
    /\ PInv /\ Remember
    /\ OperationPending \/ SleepPending \/ PollAfterReady \/ OperationCompletes \/ TimerFires
       \/ Rest
    => UNCHANGED Twin!vars
  <1> SUFFICES ASSUME PInv, Remember,
                      OperationPending \/ SleepPending \/ PollAfterReady \/ OperationCompletes
                      \/ TimerFires \/ Rest
               PROVE  UNCHANGED Twin!vars
    OBVIOUS
  <1>1. StandsStill /\ exits' = exits /\ now' = now
    BY DEF StandsStill, OperationPending, SleepPending, PollAfterReady, OperationCompletes,
           TimerFires, Rest, vars, elapsed, loop, history, Remember, Asleep
  <1>2. phase' = phase /\ origin' = origin /\ (phase = "Done" \/ (Live' <=> Live))
    BY DEF OperationPending, SleepPending, PollAfterReady, OperationCompletes, TimerFires, Rest,
           vars, elapsed, Live
  <1>3. Control' = Control
    BY <1>2 DEF Control, Live
  <1>4. QED
    BY <1>1, <1>3, StandsStillMaps DEF Twin!vars, Twin!history

LEMMA StepMapsToStep == PInv /\ [ParityNext]_<<vars, before>> => [Twin!Next]_Twin!vars
  <1> SUFFICES ASSUME PInv, [ParityNext]_<<vars, before>> PROVE [Twin!Next]_Twin!vars
    OBVIOUS
  <1>1. CASE UNCHANGED <<vars, before>>
    BY <1>1 DEF vars, elapsed, loop, history, Twin!vars, Twin!loop, Twin!history,
                Control, Live, Asleep
  <1>2. CASE ParityNext
    <2>1. Remember /\ Next
      BY <1>2 DEF ParityNext
    <2>2. CASE StartAttempt \/ Finish \/ Retry \/ SleepOver
      BY <2>1, <2>2, StartMaps, FinishMaps, RetryMaps, SleepOverMaps DEF Twin!Next, Twin!Step
    <2>3. CASE ~(StartAttempt \/ Finish \/ Retry \/ SleepOver)
      BY <2>1, <2>3, EnterMaps, YieldOverMaps, LeavingMaps, TickMaps, OthersMap
      DEF Next, Turn, Poll
    <2>4. QED
      BY <2>2, <2>3
  <1>3. QED
    BY <1>1, <1>2

\* The engines are twins: every behaviour of the asynchronous one, under any
\* executor, is a behaviour of the synchronous one.
THEOREM EnginesAreTwins == ParitySpec => ImplementsSyncEngine
  BY InitMapsToInit, StepMapsToStep, ParityInvariance, PTL
  DEF ParitySpec, ImplementsSyncEngine, Twin!Spec

-----------------------------------------------------------------------------
(***************************************************************************)
(* The retry future inside a larger task.                                  *)
(***************************************************************************)
RaceTyped ==
    /\ race \in Races /\ oneThread \in BOOLEAN
    /\ todo \subseteq Branches
    /\ fired \in BOOLEAN
    /\ listening \in Wakers \cup {None}
    /\ late \in 0 .. 2

(***************************************************************************)
(* What a branch that this poll of the task is done with has arranged: if  *)
(* nothing has woken the task since, whatever the branch waits for is      *)
(* still to come and will wake it by the waker of this poll.               *)
(***************************************************************************)
FutureHeard ==
    Live /\ task = "idle" /\ "future" \notin todo /\ ~woken =>
        \/ phase = "Polling" /\ ~opReady /\ opWaker = waker
        \/ phase = "Sleeping" /\ ~timerReady /\ timerWaker = waker

SignalHeard ==
    Live /\ race # "none" /\ "signal" \notin todo /\ ~woken => ~fired /\ listening = waker

\* poll() runs inside a poll of the task only.
Inside == task = "polling" => "future" \in todo

RInv == RaceTyped /\ Inside /\ FutureHeard /\ SignalHeard

(***************************************************************************)
(* On one thread the signal fires between two polls of the task, so the    *)
(* next one is still to poll it; an attempt begun before that stays in     *)
(* flight, or sleeps, for the rest of the poll.                            *)
(***************************************************************************)
Overdue ==
    fired /\ Live =>
        /\ IF todo = {} THEN late = 0 ELSE "signal" \in todo
        /\ late # 0 /\ "future" \in todo =>
              phase = "Polling" \/ (phase = "Sleeping" /\ ~timerReady)

LateInv ==
    /\ ~fired => late = 0
    /\ fired => race # "none"
    /\ oneThread => late \in {0, 1} /\ Overdue

-----------------------------------------------------------------------------
\* The steps of the race are the future's own, but for two that only poll it.
LEMMA RaceSteps ==
    RaceNext => \/ Next
                \/ Resume \/ PollFuture
                \/ UNCHANGED vars
                \/ SignalFires
  BY DEF RaceNext, Next, Resume, PollFuture, FutureTurn, Panics, PollSignal, Abort, SignalFires,
         OperationAnswers, TimerElapses, TimePasses, Over

LEMMA NextRaceIInv == IInv /\ [RaceNext]_raceVars => IInv'
  <1> SUFFICES ASSUME IInv, [RaceNext]_raceVars PROVE IInv'
    OBVIOUS
  <1>1. CASE Next \/ UNCHANGED vars
    BY <1>1, NextIInv
  <1>2. CASE Resume \/ SignalFires
    <2>1. waker' \in Wakers /\ woken' \in BOOLEAN
      BY <1>2 DEF Resume, Scheduled, SignalFires, Wake, IInv, TypeOK
    <2>2. QED
      BY <1>2, <2>1 DEF Resume, SignalFires, elapsed, loop, op, timer, history,
                        IInv, TypeOK, Counters, Phases, StatsTellTheTruth, Live
  <1>3. CASE PollFuture
    <2>1. origin' \in MaybeDuration /\ origin' # None
      BY <1>3, NoneAssumption DEF PollFuture, Enter, IInv, TypeOK, MaybeDuration
    <2>2. QED
      BY <1>3, <2>1 DEF PollFuture, Enter, executor, loop, op, timer, history,
                        IInv, TypeOK, Counters, Phases, StatsTellTheTruth, Live
  <1>4. QED
    BY <1>1, <1>2, <1>3, RaceSteps DEF raceVars

LEMMA InitRInv == RaceInit => RInv /\ LateInv
  <1> SUFFICES ASSUME RaceInit PROVE RInv /\ LateInv
    OBVIOUS
  <1>1. RaceTyped
    <2>1. todo \subseteq Branches /\ listening \in Wakers \cup {None}
      BY DEF RaceInit
    <2>2. late \in 0 .. 2
      BY DEF RaceInit
    <2>3. QED
      BY <2>1, <2>2 DEF RaceInit, RaceTyped
  <1>2. Inside /\ FutureHeard /\ SignalHeard
    BY DEF RaceInit, Init, Inside, FutureHeard, SignalHeard
  <1>3. LateInv
    BY DEF RaceInit, LateInv, Overdue
  <1>4. QED
    BY <1>1, <1>2, <1>3 DEF RInv

\* A turn of the loop leaves poll() or goes on; only a yield wakes the task.
LEMMA TurnsHear ==
    IInv /\ RInv /\ FutureTurn => RInv'
  <1> SUFFICES ASSUME IInv, RInv, FutureTurn PROVE RInv'
    OBVIOUS
  <1>1. /\ task = "polling" /\ "future" \in todo
        /\ todo' = CASE task' = "polling" -> todo
                     [] task' = "idle"    -> todo \ {"future"}
                     [] OTHER             -> {}
        /\ UNCHANGED <<race, oneThread, fired, listening>>
    BY DEF FutureTurn, Turn, StartAttempt, OperationPending, Finish, Retry, Completed,
           SleepPending, SleepOver, YieldOver, AssertionPanics, RInv, Inside
  <1>2. waker' = waker /\ (woken' = woken \/ woken' = TRUE)
    BY DEF FutureTurn, Turn, StartAttempt, OperationPending, Finish, Retry, Completed, Yield, Sleep,
           SleepPending, SleepOver, YieldOver, AssertionPanics, executor
  <1>3. task' = "idle" /\ ~woken' =>
            \/ phase' = "Polling" /\ ~opReady' /\ opWaker' = waker
            \/ phase' = "Sleeping" /\ ~timerReady' /\ timerWaker' = waker
    BY <1>1 DEF FutureTurn, Turn, StartAttempt, OperationPending, Finish, Retry, Completed, Yield,
           Sleep, SleepPending, SleepOver, YieldOver, AssertionPanics
  <1>4. RaceTyped'
    BY <1>1 DEF FutureTurn, RInv, RaceTyped, Branches, Least
  <1>5. Inside'
    BY <1>1 DEF Inside
  <1>6. FutureHeard'
    BY <1>2, <1>3 DEF FutureHeard
  <1>7. SignalHeard'
    BY <1>1, <1>2 DEF RInv, SignalHeard, Live
  <1>8. QED
    BY <1>4, <1>5, <1>6, <1>7 DEF RInv

\* The events wake the waker that their branch has left with them.
LEMMA EventsWake ==
    RInv /\ (SignalFires \/ OperationAnswers \/ TimerElapses) => RInv'
  <1> SUFFICES ASSUME RInv, SignalFires \/ OperationAnswers \/ TimerElapses PROVE RInv'
    OBVIOUS
  <1>1. CASE SignalFires
    <2>1. /\ fired' = TRUE /\ listening' = None /\ woken' = (woken \/ listening = waker)
          /\ UNCHANGED <<race, oneThread, todo, late, task, phase, waker, opReady, opWaker,
                         timerReady, timerWaker>>
      BY <1>1 DEF SignalFires, Wake, op, timer
    <2>2. QED
      BY <2>1 DEF RInv, RaceTyped, Branches, Inside, FutureHeard, SignalHeard, Live
  <1>2. CASE OperationAnswers
    <2>1. /\ phase = "Polling" /\ woken' = (woken \/ opWaker = waker)
          /\ UNCHANGED <<ownerVars, task, phase, waker>>
      BY <1>2 DEF OperationAnswers, OperationCompletes, Wake
    <2>2. QED
      BY <2>1 DEF ownerVars, RInv, RaceTyped, Branches, Inside, FutureHeard, SignalHeard, Live
  <1>3. CASE TimerElapses
    <2>1. /\ phase = "Sleeping" /\ woken' = (woken \/ timerWaker = waker)
          /\ UNCHANGED <<ownerVars, task, phase, waker>>
      BY <1>3 DEF TimerElapses, TimerFires, Wake
    <2>2. QED
      BY <2>1 DEF ownerVars, RInv, RaceTyped, Branches, Inside, FutureHeard, SignalHeard, Live
  <1>4. QED
    BY <1>1, <1>2, <1>3

LEMMA NextRInv == IInv /\ RInv /\ [RaceNext]_raceVars => RInv'
  <1> SUFFICES ASSUME IInv, RInv, [RaceNext]_raceVars PROVE RInv'
    OBVIOUS
  <1> USE DEF RInv, RaceTyped, Branches, Inside, FutureHeard, SignalHeard, Live
  <1>1. CASE Resume
    BY <1>1 DEF Resume, Scheduled
  <1>2. CASE PollFuture
    BY <1>2 DEF PollFuture, Enter, executor, op, timer, ownerVars
  <1>3. CASE FutureTurn
    BY <1>3, TurnsHear
  <1>4. CASE Panics \/ Abort
    BY <1>4 DEF Panics, Unwind, Abort, Drop, ownerVars
  <1>5. CASE PollSignal
    <2>1. CASE ~fired /\ listening' = waker /\ todo' = todo \ {"signal"} /\ UNCHANGED vars
      BY <1>5, <2>1 DEF PollSignal, vars, executor, op, timer, IInv, TypeOK
    <2>2. CASE Drop /\ todo' = {} /\ UNCHANGED listening
      BY <1>5, <2>2 DEF PollSignal, Drop
    <2>3. QED
      BY <1>5, <2>1, <2>2 DEF PollSignal
  <1>6. CASE SignalFires \/ OperationAnswers \/ TimerElapses
    BY <1>6, EventsWake
  <1>7. CASE TimePasses
    BY <1>7 DEF TimePasses, Tick, ownerVars, executor, op, timer
  <1>8. CASE Over \/ UNCHANGED raceVars
    <2>1. UNCHANGED <<race, oneThread, todo, fired, listening, late, phase, task, waker, woken,
                      opReady, opWaker, timerReady, timerWaker>>
      BY <1>8 DEF Over, Rest, raceVars, vars, ownerVars, executor, op, timer
    <2>2. QED
      BY <2>1
  <1>9. QED
    BY <1>1, <1>2, <1>3, <1>4, <1>5, <1>6, <1>7, <1>8 DEF RaceNext

LEMMA NextLateInv == RInv /\ LateInv /\ [RaceNext]_raceVars => LateInv'
  <1> SUFFICES ASSUME RInv, LateInv, [RaceNext]_raceVars PROVE LateInv'
    OBVIOUS
  <1> USE DEF LateInv, Overdue, Live
  <1>1. CASE Resume
    BY <1>1 DEF Resume, Branches, timer
  <1>2. CASE PollFuture
    BY <1>2 DEF PollFuture, Enter, ownerVars, timer
  <1>3. CASE FutureTurn
    <2>1. /\ task = "polling" /\ "future" \in todo
          /\ todo' = CASE task' = "polling" -> todo
                       [] task' = "idle"    -> todo \ {"future"}
                       [] OTHER             -> {}
          /\ UNCHANGED <<race, oneThread, fired>>
          /\ late' = IF fired /\ phase = "ReadyToStart" /\ phase' = "Polling"
                     THEN Least(late + 1, 2) ELSE late
      BY <1>3 DEF FutureTurn, Turn, StartAttempt, OperationPending, Finish, Retry, Completed,
                  SleepPending, SleepOver, YieldOver, AssertionPanics, RInv, Inside
    <2>2. CASE ~(fired /\ oneThread)
      BY <2>1, <2>2
    <2>3. CASE fired /\ oneThread /\ StartAttempt
      <3>1. late = 0 /\ late' = 1 /\ phase' = "Polling" /\ task' = task
        BY <2>1, <2>3 DEF StartAttempt, Least
      <3>2. QED
        BY <2>1, <2>3, <3>1
    <2>4. CASE fired /\ oneThread /\ ~StartAttempt
      <3>1. late' = late /\ (late # 0 => phase # "ReadyToStart" /\ ~SleepOver /\ ~YieldOver)
        BY <1>3, <2>1, <2>4 DEF FutureTurn, Turn, OperationPending, Finish, Retry, Completed,
               SleepPending, SleepOver, YieldOver, AssertionPanics, Yield, Sleep
      <3>2. task' = "polling" /\ late # 0 => phase' = "Sleeping" /\ ~timerReady'
        BY <1>3, <2>4, <3>1 DEF FutureTurn, Turn, OperationPending, Finish, Retry,
               SleepPending, AssertionPanics, Yield, Sleep
      <3>3. QED
        BY <2>1, <2>4, <3>1, <3>2
    <2>5. QED
      BY <2>2, <2>3, <2>4
  <1>4. CASE Panics \/ Abort
    BY <1>4 DEF Panics, Unwind, Abort, Drop, ownerVars
  <1>5. CASE PollSignal
    BY <1>5 DEF PollSignal, Drop, vars, timer
  <1>6. CASE SignalFires
    BY <1>6 DEF SignalFires, Elsewhere
  <1>7. CASE OperationAnswers
    BY <1>7 DEF OperationAnswers, Elsewhere, OperationCompletes, ownerVars, timer
  <1>8. CASE TimerElapses
    BY <1>8 DEF TimerElapses, Elsewhere, TimerFires, ownerVars
  <1>9. CASE TimePasses
    BY <1>9 DEF TimePasses, Tick, ownerVars, timer
  <1>10. CASE Over \/ UNCHANGED raceVars
    BY <1>10 DEF Over, Rest, raceVars, vars, ownerVars, timer
  <1>11. QED
    BY <1>1, <1>2, <1>3, <1>4, <1>5, <1>6, <1>7, <1>8, <1>9, <1>10 DEF RaceNext

LEMMA RaceInvariance == RaceSpec => [](IInv /\ RInv /\ LateInv)
  <1>1. RaceInit => IInv
    BY InitIInv DEF RaceInit
  <1>2. QED
    BY <1>1, NextRaceIInv, InitRInv, NextRInv, NextLateInv, PTL DEF RaceSpec

\* A task that has not been woken since its last poll ended will be, by whatever
\* any of its branches waits for: the waker of that poll is with the operation's
\* future or the clock's, and with the signal's, and none of them has completed.
THEOREM WakersAreNotLost == RaceSpec => []TaskIsWoken
  <1>1. RInv => TaskIsWoken
    BY DEF RInv, Inside, FutureHeard, SignalHeard, TaskIsWoken, Live
  <1>2. QED
    BY <1>1, RaceInvariance, PTL

\* On an executor with one thread, where no timer fires and no operation completes
\* while the task is polled, at most one attempt begins after the signal is given,
\* however short the waits. Of an executor with several threads it says nothing.
THEOREM OneAttemptOnOneThread == RaceSpec => []OneMoreAttempt
  <1>1. LateInv => OneMoreAttempt
    BY DEF LateInv, OneMoreAttempt
  <1>2. QED
    BY <1>1, RaceInvariance, PTL

\* What the future reports is what happened, in whatever task it is polled, also
\* where the race is lost and the future dropped.
THEOREM RacedStatsCorrect == RaceSpec => [](TypeOK /\ StatsTellTheTruth)
  <1>1. IInv => TypeOK /\ StatsTellTheTruth
    BY DEF IInv, Phases
  <1>2. QED
    BY <1>1, RaceInvariance, PTL

-----------------------------------------------------------------------------
\* The promise of RetryLoop: the steps of the race that are not the future's own
\* leave what it speaks of alone, or are a poll without the executor's part.
LEMMA NextRaceBudgetKept == IInv /\ BudgetKept /\ [RaceNext]_raceVars => BudgetKept'
  <1> SUFFICES ASSUME IInv, TimeoutInv, ContractClock, [RaceNext]_raceVars PROVE TimeoutInv'
    BY DEF BudgetKept
  <1>1. CASE Next \/ UNCHANGED vars
    BY <1>1, NextTimeoutInv
  <1>2. CASE Resume \/ SignalFires
    BY <1>2 DEF Resume, SignalFires, elapsed, loop, timer, history,
                TimeoutInv, WatermarkInv, BudgetInv, AimInv, Covered
  <1>3. CASE PollFuture
    <2>1. /\ UNCHANGED <<policy, now, phase, highest, deadline, timerReady, total_wait, aimed>>
          /\ origin' = IF origin = None THEN now ELSE origin
      BY <1>3 DEF PollFuture, Enter, loop, timer, history
    <2>2. CASE origin = None
      <3>1. /\ origin' = now /\ origin' # None /\ now \in Nat
            /\ phase = "ReadyToStart" /\ highest = 0 /\ ~aimed
        BY <2>1, <2>2, NoneAssumption, DurMaxAssumption
        DEF IInv, TypeOK, Phases, Duration, TimeoutInv, AimInv
      <3>2. Timeout[policy] # None => total_wait = 0 /\ total_wait <= Timeout[policy]
        BY <2>2, <3>1 DEF TimeoutInv, BudgetInv, Covered
      <3>3. QED
        BY <2>1, <3>1, <3>2 DEF TimeoutInv, WatermarkInv, BudgetInv, AimInv, Covered
    <2>3. CASE origin # None
      BY <2>1, <2>3 DEF TimeoutInv, WatermarkInv, BudgetInv, AimInv, Covered
    <2>4. QED
      BY <2>2, <2>3
  <1>4. QED
    BY <1>1, <1>2, <1>3, RaceSteps DEF raceVars

LEMMA RaceStepMapsToLoopStep ==
    IInv /\ BudgetKept /\ [RaceNext]_raceVars => [Loop!Next]_Loop!vars
  <1> SUFFICES ASSUME IInv, BudgetKept, [RaceNext]_raceVars PROVE [Loop!Next]_Loop!vars
    OBVIOUS
  <1>1. CASE Next \/ UNCHANGED vars
    BY <1>1, StepMapsToLoopStep
  <1>2. CASE Resume \/ SignalFires \/ PollFuture
    <2>1. /\ UNCHANGED <<policy, total_wait, aimed, phase, stats>>
          /\ task' = task \/ {task, task'} \subseteq {"idle", "polling"}
      BY <1>2 DEF Resume, SignalFires, PollFuture, Enter, loop, history
    <2>2. QED
      BY <2>1 DEF Loop!vars, Live
  <1>3. QED
    BY <1>1, <1>2, RaceSteps DEF raceVars

\* Raced or not, dropped wherever it is pending, the future keeps the promise of
\* RetryLoop.
THEOREM RacedLoopIsARetryLoop == RaceSpec => Loop!Spec
  <1>1. RaceInit => Loop!Init /\ BudgetKept
    BY InitMapsToLoopInit, InitTimeoutInv DEF RaceInit, BudgetKept
  <1>2. QED
    BY <1>1, RaceInvariance, NextRaceBudgetKept, RaceStepMapsToLoopStep, PTL
    DEF RaceSpec, Loop!Spec

-----------------------------------------------------------------------------
(***************************************************************************)
(* A raced future is a twin of the synchronous engine as well. Parity's    *)
(* record of the beginning of a wait is added to the race; no step of it   *)
(* reads the record.                                                       *)
(***************************************************************************)
RacedInit == RaceInit /\ before = None

RacedNext == RaceNext /\ Remember

RacedSpec == RacedInit /\ [][RacedNext]_<<raceVars, before>>

\* The steps of the race that are not the future's own leave its loop alone, but
\* that the first poll reads the baseline.
LEMMA OnlyPolled ==
    ASSUME Resume \/ SignalFires \/ PollFuture \/ UNCHANGED vars, Remember
    PROVE  /\ UNCHANGED <<policy, debug, now, phase, highest, loop, deadline, timerReady,
                          stats, history>>
           /\ Asleep => before' = before
  BY DEF Resume, SignalFires, PollFuture, Enter, Remember, Asleep, vars, elapsed, loop,
         timer, history

LEMMA RacedStep ==
    ASSUME PInv, [RacedNext]_<<raceVars, before>>
    PROVE  PInv' /\ [Twin!Next]_Twin!vars
  <1>1. CASE UNCHANGED <<raceVars, before>> \/ (RacedNext /\ Next)
    <2>1. [ParityNext]_<<vars, before>>
      BY <1>1 DEF raceVars, RacedNext, ParityNext
    <2>2. QED
      BY <2>1, NextPInv, StepMapsToStep
  <1>2. CASE RacedNext /\ ~Next
    <2>1. Remember /\ RaceNext /\ (Resume \/ SignalFires \/ PollFuture \/ UNCHANGED vars)
      BY <1>2, RaceSteps DEF RacedNext
    <2>2. /\ UNCHANGED <<policy, debug, now, phase, highest, loop, deadline, timerReady,
                         stats, history>>
          /\ Asleep => before' = before
      BY <2>1, OnlyPolled
    <2>3. PInv'
      <3>1. IInv'
        BY <2>1, NextRaceIInv DEF PInv
      <3>2. SleepInv' /\ HorizonInv'
        BY <2>2 DEF PInv, SleepInv, HorizonInv, Asleep, loop
      <3>3. QED
        BY <3>1, <3>2 DEF PInv
    <2>4. CASE PollFuture
      <3>1. Enter
        BY <2>4 DEF PollFuture
      <3>2. QED
        BY <2>1, <2>3, <3>1, EnterMaps
    <2>5. CASE ~PollFuture
      <3>1. StandsStill /\ exits' = exits
        BY <2>1, <2>2, <2>5
        DEF StandsStill, Resume, SignalFires, vars, elapsed, loop, history
      <3>2. Control' = Control
        BY <2>1, <2>5 DEF Control, Live, Resume, SignalFires, vars, elapsed
      <3>3. UNCHANGED Twin!vars
        BY <2>2, <3>1, <3>2, StandsStillMaps DEF Twin!vars, Twin!history
      <3>4. QED
        BY <2>3, <3>3
    <2>6. QED
      BY <2>4, <2>5
  <1>3. QED
    BY <1>1, <1>2

\* What races the future, and when, is nothing to the twin, which only unwinds
\* when the future is dropped.
THEOREM RacedEnginesAreTwins == RacedSpec => ImplementsSyncEngine
  <1>1. RacedInit => PInv /\ Twin!Init
    <2>1. RacedInit => ParityInit
      BY DEF RacedInit, RaceInit, ParityInit
    <2>2. QED
      BY <2>1, InitPInv, InitMapsToInit
  <1>2. PInv /\ [RacedNext]_<<raceVars, before>> => PInv' /\ [Twin!Next]_Twin!vars
    BY RacedStep
  <1>3. QED
    BY <1>1, <1>2, PTL DEF RacedSpec, ImplementsSyncEngine, Twin!Spec

-----------------------------------------------------------------------------
(***************************************************************************)
(* What is proved of every run of the blocking engine is so proved of the  *)
(* future, polled alone or raced. Sync is that run, of a caller of the     *)
(* first kind (Callers only matter to the theorems about the others).      *)
(***************************************************************************)
Sync == INSTANCE SyncEngineProofs WITH
    pc             <- Control,
    now            <- IF Asleep THEN before.now ELSE now,
    origin         <- IF origin = None THEN 0 ELSE origin,
    attempt        <- IF phase = "Yielding" THEN NextAttempt(attempt) ELSE attempt,
    previous_delay <- IF Asleep THEN before.previous_delay ELSE previous_delay,
    total_wait     <- IF Asleep THEN before.total_wait ELSE total_wait,
    delay          <- IF Asleep THEN previous_delay ELSE 0,
    Callers <- {}, Scripts <- {},
    caller <- "any", script <- <<>>, cancelled <- FALSE, loaded <- FALSE,
    lateCalls <- 0, lateWaits <- 0

\* What the theorems about it assume.
LEMMA SyncAssumptions ==
    /\ Sync!DurMaxAssumption /\ Sync!NoneAssumption /\ Sync!ClockAssumption
    /\ Sync!RetryAssumption /\ Sync!CallersAssumption
  <1>1. /\ Sync!Duration = Duration /\ Sync!MaybeDuration = MaybeDuration
        /\ Sync!RetryState = RetryState
    BY DEF Sync!Duration, Duration, Sync!MaybeDuration, MaybeDuration,
           Sync!RetryState, RetryState, Sync!Attempts, Attempts
  <1>2. QED
    BY <1>1, DurMaxAssumption, NoneAssumption, ClockAssumption, RetryAssumption
    DEF Sync!DurMaxAssumption, Sync!NoneAssumption, Sync!ClockAssumption,
        Sync!RetryAssumption, Sync!CallersAssumption

\* It is the Twin of Parity.
LEMMA SyncIsTwin ==
    /\ Twin!Init <=> Sync!Init
    /\ Twin!vars = Sync!vars /\ Twin!vars' = Sync!vars'
    /\ Twin!Next <=> Sync!Next
  <1>1. /\ Twin!Init <=> Sync!Init
        /\ Twin!vars = Sync!vars /\ Twin!vars' = Sync!vars'
    BY DEF Twin!Init, Sync!Init, Twin!vars, Sync!vars, Twin!loop, Sync!loop,
           Twin!history, Sync!history
  <1>2. Twin!Call <=> Sync!Call
    BY
    DEF Twin!Call, Sync!Call, Twin!loop, Sync!loop, Twin!history, Sync!history
  <1>3. Twin!BeginAttempt <=> Sync!BeginAttempt
    BY
    DEF Twin!BeginAttempt, Sync!BeginAttempt, Twin!loop, Sync!loop,
        Twin!AssertionFails, Sync!AssertionFails, Twin!Seen, Sync!Seen, Twin!SatSub,
        Sync!SatSub, Twin!ReadElapsed, Sync!ReadElapsed, Twin!Greatest, Sync!Greatest,
        Twin!Least, Sync!Least
  <1>4. Twin!Finish <=> Sync!Finish
    BY
    DEF Twin!Finish, Sync!Finish, Twin!FinishOn, Sync!FinishOn, Twin!loop, Sync!loop,
        Twin!Verdict, Sync!Verdict, Twin!AssertionFails, Sync!AssertionFails,
        Twin!Seen, Sync!Seen, Twin!SatSub, Sync!SatSub, Twin!ReadElapsed,
        Sync!ReadElapsed, Twin!Greatest, Sync!Greatest, Twin!Progress, Sync!Progress,
        Twin!Endings, Sync!Endings, Twin!StatsFor, Sync!StatsFor, Twin!StateOf,
        Sync!StateOf, Twin!TimeoutExceeded, Sync!TimeoutExceeded
  <1>5. Twin!Retry <=> Sync!Retry
    BY
    DEF Twin!Retry, Sync!Retry, Twin!RetryOn, Sync!RetryOn, Twin!Advance, Sync!Advance,
        Twin!loop, Sync!loop, Twin!Verdict, Sync!Verdict, Twin!AssertionFails,
        Sync!AssertionFails, Twin!Seen, Sync!Seen, Twin!SatSub, Sync!SatSub,
        Twin!SatAdd, Sync!SatAdd, Twin!ReadElapsed, Sync!ReadElapsed, Twin!Greatest,
        Sync!Greatest, Twin!Least, Sync!Least, Twin!Progress, Sync!Progress,
        Twin!Delays, Sync!Delays, Twin!Clamp, Sync!Clamp, Twin!StateOf, Sync!StateOf,
        Twin!TimeoutExceeded, Sync!TimeoutExceeded, Twin!NextAttempt, Sync!NextAttempt
  <1>6. Twin!WakeUp <=> Sync!WakeUp
    BY
    DEF Twin!WakeUp, Sync!WakeUp, Twin!Advance, Sync!Advance, Twin!SatAdd, Sync!SatAdd,
        Twin!Least, Sync!Least, Twin!NextAttempt, Sync!NextAttempt, Twin!Granted,
        Sync!Granted, Twin!ReadingsAfterWait, Sync!ReadingsAfterWait, Twin!Readings,
        Sync!Readings, Twin!Horizon, Sync!Horizon, Twin!Duration, Sync!Duration,
        Twin!WaitLength, Sync!WaitLength
  <1>7. Twin!Unwind <=> Sync!Unwind
    BY
    DEF Twin!Unwind, Sync!Unwind, Twin!loop, Sync!loop
  <1>8. Twin!AssertionPanics <=> Sync!AssertionPanics
    BY
    DEF Twin!AssertionPanics, Sync!AssertionPanics, Twin!AssertionFails,
        Sync!AssertionFails, Twin!Seen, Sync!Seen, Twin!SatSub, Sync!SatSub, Twin!loop,
        Sync!loop, Twin!history, Sync!history
  <1>9. Twin!Tick <=> Sync!Tick
    BY
    DEF Twin!Tick, Sync!Tick, Twin!Granted, Sync!Granted, Twin!SatAdd, Sync!SatAdd,
        Twin!Least, Sync!Least, Twin!Readings, Sync!Readings, Twin!Horizon,
        Sync!Horizon, Twin!Duration, Sync!Duration, Twin!loop, Sync!loop, Twin!history,
        Sync!history
  <1>10. Twin!Rest <=> Sync!Rest
    BY <1>1 DEF Twin!Rest, Sync!Rest, Twin!vars, Sync!vars, Twin!loop, Sync!loop,
           Twin!history, Sync!history
  <1>11. QED
    BY <1>1, <1>2, <1>3, <1>4, <1>5, <1>6, <1>7, <1>8, <1>9, <1>10
    DEF Twin!Next, Sync!Next, Twin!Step, Sync!Step

LEMMA FutureIsARun == ParitySpec \/ RacedSpec => Sync!Spec
  <1>1. Twin!Init => Sync!Init
    BY SyncIsTwin
  <1>2. [Twin!Next]_Twin!vars => [Sync!Next]_Sync!vars
    BY SyncIsTwin
  <1>3. ParitySpec \/ RacedSpec => Twin!Spec
    BY EnginesAreTwins, RacedEnginesAreTwins, PTL DEF ImplementsSyncEngine
  <1>4. QED
    BY <1>1, <1>2, <1>3, PTL DEF Twin!Spec, Sync!Spec

(***************************************************************************)
(* However the future is polled, raced, moved and dropped: a budget that   *)
(* is spent stays spent and a debug build goes on from no reading that it  *)
(* did not make, on any clock.                                             *)
(***************************************************************************)
THEOREM FutureNeverRefunds ==
    ParitySpec \/ RacedSpec => Sync!SpentBudgetIsFinal /\ Sync!DebugReadsAreTrue
  BY SyncAssumptions, FutureIsARun, Sync!BudgetNotRefunded, Sync!DebugReadings, PTL

LEMMA SyncClock == ContractClock => Sync!ContractClock
  BY DEF ContractClock, Sync!ContractClock

(***************************************************************************)
(* With a clock that keeps its contract, what the future has granted stays *)
(* within the timeout, and a run that only its timeout stops, on a clock   *)
(* that only its waits move, has waited for exactly the timeout.           *)
(***************************************************************************)
THEOREM FutureKeepsBudget ==
    ASSUME ContractClock, Sync!PolicyStopsAreUsed
    PROVE  ParitySpec \/ RacedSpec => [](Sync!WaitWithinTimeout /\ Sync!BudgetIsSpentExactly)
  <1>1. Sync!ContractClock
    BY SyncClock
  <1>2. QED
    BY <1>1, SyncAssumptions, FutureIsARun, Sync!WaitsBounded, Sync!BudgetExactlySpent, PTL

(***************************************************************************)
(* stop::attempts(Limit) limits the calls of a future, and with them its   *)
(* steps: polls that find nothing ready, wakers and timers are not among   *)
(* the steps that lower the rank, but nothing raises it.                   *)
(***************************************************************************)
THEOREM FutureRunsOutOfAttempts ==
    ASSUME Sync!PolicyStopsAreUsed, Limit \in Attempts, "composed" \in Policy => Limit # 1
    PROVE  ParitySpec \/ RacedSpec =>
              /\ []Sync!AttemptsLimited
              /\ [][(policy \in Sync!LimitedPolicies) => Sync!AttemptRankFalls]_Sync!vars
  <1>1. Limit \in Sync!Attempts
    BY DEF Attempts, Sync!Attempts
  <1>2. QED
    BY <1>1, SyncAssumptions, FutureIsARun, Sync!LimitIsKept, Sync!AttemptsRunOut, PTL

(***************************************************************************)
(* And with a clock that keeps its contract, a timeout or stop::elapsed    *)
(* limits the steps of a future, as far as its waits are not zero.         *)
(***************************************************************************)
THEOREM FutureRunsOutOfTime ==
    ASSUME ContractClock, Sync!PolicyStopsAreUsed, Sync!PolicyWaitsAreUsed,
           Deadline \in Duration, DurMax >= 2, AttemptMax # 1
    PROVE  ParitySpec \/ RacedSpec =>
              [][/\ (policy \in Sync!TimedPolicies) => Sync!BudgetRankFalls
                 /\ (policy = "elapsed") => Sync!ElapsedRankFalls]_Sync!vars
  <1>1. Sync!ContractClock /\ Deadline \in Sync!Duration
    BY SyncClock DEF Duration, Sync!Duration
  <1>2. Sync!Spec => [][(policy \in Sync!TimedPolicies) => Sync!BudgetRankFalls]_Sync!vars
    BY <1>1, SyncAssumptions, Sync!TimedPoliciesRunOut
  <1>3. Sync!Spec => [][(policy = "elapsed") => Sync!ElapsedRankFalls]_Sync!vars
    BY <1>1, SyncAssumptions, Sync!ElapsedRunsOut
  <1>4. QED
    BY <1>2, <1>3, FutureIsARun, PTL
=============================================================================
