---------------------------- MODULE AsyncEngine -----------------------------
(***************************************************************************)
(* The poll-driven retry loop: AsyncRun of engine/async_engine.rs, with    *)
(* the executor that polls it and the two leaf futures it waits on (the    *)
(* operation's and the clock's).                                           *)
(*                                                                         *)
(* A call of poll() is a sequence of steps, one per turn of its loop over  *)
(* `phase`; between any two of them, and between polls, time passes, the   *)
(* operation completes or the timer fires on other threads. Leaf futures   *)
(* keep the waker of the poll that last found them pending; the executor   *)
(* gives every poll a waker of its choice and listens to the latest only.  *)
(***************************************************************************)
EXTENDS RetryCore

CONSTANTS
  Wakers,           \* the wakers the executor hands out
  SpuriousPolls     \* the executor also polls unwoken, and polls after Ready

ASSUME AsyncAssumption ==
    /\ SpuriousPolls \in BOOLEAN
    /\ None \notin Wakers

VARIABLES
  policy, debug,    \* the configuration and the build, fixed for the run
  now,
  phase,            \* AsyncRun's fields, here and in the next two lines
  origin, highest,  \* Elapsed: origin is None before the first poll
  attempt, previous_delay, total_wait,
  task,             \* "idle" between polls, "polling", or how the future ended
  waker,            \* the waker of the latest poll
  woken,            \* it has been woken since that poll began
  opReady, opWaker, \* the operation's future
  deadline, timerReady, timerWaker,   \* the clock's wait future
  stats,            \* what the future resolved to
  \* History, for the properties only:
  calls,            \* operation calls begun (counted up to AttemptMax + 1)
  slept,            \* the sum of the completed waits
  exits,            \* on_exit firings
  aimed             \* a delay was cut to end exactly at the deadline

elapsed == <<origin, highest>>
loop == <<attempt, previous_delay, total_wait>>
executor == <<waker, woken>>
op == <<opReady, opWaker>>
timer == <<deadline, timerReady, timerWaker>>
history == <<calls, slept, exits, aimed>>
vars == <<policy, debug, now, phase, elapsed, loop, task, executor, op, timer, stats, history>>

\* into_run(); a new task is polled once without having been woken.
Init ==
    /\ policy \in Policy /\ debug \in Builds
    /\ now = 0
    /\ phase = "ReadyToStart"
    /\ origin = None /\ highest = 0
    /\ attempt = 1 /\ previous_delay = None /\ total_wait = 0
    /\ task = "idle"
    /\ waker \in Wakers /\ woken = TRUE
    /\ opReady = FALSE /\ opWaker = None
    /\ deadline = 0 /\ timerReady = FALSE /\ timerWaker = None
    /\ stats = None
    /\ calls = 0 /\ slept = 0 /\ exits = 0 /\ aimed = FALSE

\* Mutant: the baseline is read by every poll.
EnterRebased ==
    /\ task = "idle"
    /\ task' = "polling"
    /\ origin' = now
    /\ UNCHANGED <<policy, debug, now, phase, highest, loop, op, timer, stats, history>>

\* poll() is entered: the first call reads the baseline.
Enter ==
    /\ task = "idle"
    /\ task' = "polling"
    /\ origin' = IF origin = None THEN now ELSE origin
    /\ UNCHANGED <<policy, debug, now, phase, highest, loop, op, timer, stats, history>>

\* The executor polls a task, woken or not, with a waker of its choice.
Scheduled ==
    /\ woken \/ SpuriousPolls
    /\ waker' \in Wakers
    /\ woken' = FALSE

\* The executor calls poll(): the future is a task of its own.
Poll == Scheduled /\ Enter

\* ReadyToStart: elapsed is read, before_attempt fires, the operation is
\* called; its future may already be able to complete.
StartAttempt ==
    /\ task = "polling" /\ phase = "ReadyToStart"
    /\ ~AssertionFails(debug, highest, now, origin)
    /\ highest' = ReadElapsed(highest, now, origin)
    /\ phase' = "Polling"
    /\ opReady' \in BOOLEAN /\ opWaker' = None
    /\ calls' = Least(calls + 1, AttemptMax + 1)
    /\ UNCHANGED <<policy, debug, now, origin, loop, task, executor, timer, stats,
                   slept, exits, aimed>>

\* Mutant: the leaf keeps the first waker it was given.
OperationPendingKeepsWaker ==
    /\ task = "polling" /\ phase = "Polling"
    /\ ~opReady
    /\ opWaker' = IF opWaker = None THEN waker ELSE opWaker
    /\ task' = "idle"
    /\ UNCHANGED <<policy, debug, now, phase, elapsed, loop, executor, opReady, timer,
                   stats, history>>

\* Polling: the operation's future is pending, and so is poll().
OperationPending ==
    /\ task = "polling" /\ phase = "Polling"
    /\ ~opReady
    /\ opWaker' = waker
    /\ task' = "idle"
    /\ UNCHANGED <<policy, debug, now, phase, elapsed, loop, executor, opReady, timer,
                   stats, history>>

\* Mutant: elapsed is not read again after the operation.
ProgressBefore ==
    [attempt        |-> attempt,
     elapsed        |-> highest,
     previous_delay |-> previous_delay,
     total_wait     |-> total_wait]

\* The attempt that has just completed, with elapsed read again after it.
Progress ==
    [attempt        |-> attempt,
     elapsed        |-> ReadElapsed(highest, now, origin),
     previous_delay |-> previous_delay,
     total_wait     |-> total_wait]

\* Polling: the operation's future is ready and the elapsed reading is taken.
Completed ==
    /\ task = "polling" /\ phase = "Polling"
    /\ opReady
    /\ ~AssertionFails(debug, highest, now, origin)
    /\ highest' = Progress.elapsed

\* The step ends the loop: on_exit fires and poll() returns Ready.
Finish ==
    /\ Completed
    /\ \E verdict \in Verdict :
         \E reason \in Endings(Progress, verdict, policy) :
            stats' = StatsFor(Progress, reason)
    /\ exits' = exits + 1
    /\ phase' = "Done"
    /\ task' = "returned"
    /\ UNCHANGED <<policy, debug, now, origin, loop, executor, op, timer,
                   calls, slept, aimed>>

\* Mutants: a zero delay stays in poll(); it leaves without waking the task.
YieldNothing ==
    /\ phase' = "Yielding"
    /\ UNCHANGED <<woken, task, timer>>

YieldUnwoken ==
    /\ phase' = "Yielding"
    /\ task' = "idle"
    /\ UNCHANGED <<woken, timer>>

\* A zero delay yields: the task wakes itself and poll() returns Pending.
Yield ==
    /\ phase' = "Yielding"
    /\ woken' = TRUE
    /\ task' = "idle"
    /\ UNCHANGED timer

\* Any other delay creates the clock's wait future, to be polled next.
Sleep(d) ==
    /\ phase' = "Sleeping"
    /\ deadline' = now + WaitLength(d)
    /\ timerReady' = FALSE /\ timerWaker' = None
    /\ UNCHANGED <<woken, task>>

\* The step continues the loop. The attempt counter does not move yet.
Retry ==
    /\ Completed
    /\ \E verdict \in Verdict :
         \E d \in Delays(Progress, verdict, policy) :
            /\ total_wait' = SatAdd(total_wait, d)
            /\ previous_delay' = d
            /\ aimed' = (aimed \/ /\ Timeout[policy] # None
                                  /\ d = SatSub(Timeout[policy], Progress.elapsed))
            /\ \/ d = 0 /\ Yield
               \/ d # 0 /\ Sleep(d)
    /\ UNCHANGED <<policy, debug, now, origin, attempt, waker, op, stats,
                   calls, slept, exits>>

\* Sleeping: the wait is not over, and poll() is pending.
SleepPending ==
    /\ task = "polling" /\ phase = "Sleeping"
    /\ ~timerReady
    /\ timerWaker' = waker
    /\ task' = "idle"
    /\ UNCHANGED <<policy, debug, now, phase, elapsed, loop, executor, op, deadline,
                   timerReady, stats, history>>

\* Sleeping: the wait is over.
SleepOver ==
    /\ task = "polling" /\ phase = "Sleeping"
    /\ timerReady
    /\ attempt' = NextAttempt(attempt)
    /\ phase' = "ReadyToStart"
    /\ slept' = SatAdd(slept, previous_delay)
    /\ UNCHANGED <<policy, debug, now, elapsed, previous_delay, total_wait, task, executor,
                   op, timer, stats, calls, exits, aimed>>

\* Yielding: polled again after the yield.
YieldOver ==
    /\ task = "polling" /\ phase = "Yielding"
    /\ attempt' = NextAttempt(attempt)
    /\ phase' = "ReadyToStart"
    /\ UNCHANGED <<policy, debug, now, elapsed, previous_delay, total_wait, task,
                   executor, op, timer, stats, history>>

-----------------------------------------------------------------------------
\* A panic out of user code called by poll() (nothing but the loop's own code
\* runs after a yield); on_exit has been called only if it is what panicked.
Unwind ==
    /\ task = "polling" /\ phase # "Yielding"
    /\ task' = "panicked"
    /\ exits' \in IF phase = "Polling" /\ opReady THEN {exits, exits + 1} ELSE {exits}
    /\ UNCHANGED <<policy, debug, now, phase, elapsed, loop, executor, op, timer, stats,
                   calls, slept, aimed>>

\* The debug assertion of Elapsed::read.
AssertionPanics ==
    /\ task = "polling"
    /\ phase = "ReadyToStart" \/ (phase = "Polling" /\ opReady)
    /\ AssertionFails(debug, highest, now, origin)
    /\ task' = "panicked"
    /\ UNCHANGED <<policy, debug, now, phase, elapsed, loop, executor, op, timer, stats,
                   history>>

\* Done: polling after Ready panics.
PollAfterReady ==
    /\ task = "returned"
    /\ SpuriousPolls
    /\ task' = "panicked"
    /\ UNCHANGED <<policy, debug, now, phase, elapsed, loop, executor, op, timer, stats,
                   history>>

\* The owner drops the future, with whatever leaf future it holds.
Drop ==
    /\ task = "idle"
    /\ task' = "dropped"
    /\ opWaker' = None /\ timerWaker' = None
    /\ UNCHANGED <<policy, debug, now, phase, elapsed, loop, executor, opReady, deadline,
                   timerReady, stats, history>>

-----------------------------------------------------------------------------
\* The environment. Waking a waker that is not the latest poll's is lost.

Live == task \in {"idle", "polling"}

Wake(w) == woken' = (woken \/ w = waker)

OperationCompletes ==
    /\ Live /\ phase = "Polling"
    /\ ~opReady
    /\ opReady' = TRUE
    /\ Wake(opWaker)
    /\ opWaker' = None
    /\ UNCHANGED <<policy, debug, now, phase, elapsed, loop, task, waker, timer, stats,
                   history>>

\* A runtime's timer never fires before its deadline, by its own clock; with a
\* clock that is not monotone that says nothing about the readings.
TimerFires ==
    /\ Live /\ phase = "Sleeping"
    /\ ~timerReady
    /\ Monotone => now >= deadline
    /\ timerReady' = TRUE
    /\ Wake(timerWaker)
    /\ timerWaker' = None
    /\ UNCHANGED <<policy, debug, now, phase, elapsed, loop, task, waker, op, deadline,
                   stats, history>>

\* Time passes, or a clock that is not monotone jumps.
Tick ==
    /\ Live
    /\ now' \in Readings(now, total_wait) \ {now}
    /\ UNCHANGED <<policy, debug, phase, elapsed, loop, task, executor, op, timer, stats,
                   history>>

\* The future is gone; nothing more happens.
Rest ==
    /\ task \in {"returned", "dropped", "panicked"}
    /\ UNCHANGED vars

\* The turns of the loop in poll().
Turn ==
    \/ StartAttempt \/ OperationPending \/ Finish \/ Retry
    \/ SleepPending \/ SleepOver \/ YieldOver \/ AssertionPanics

Next ==
    \/ Poll \/ Turn \/ Unwind \/ PollAfterReady \/ Drop
    \/ OperationCompletes \/ TimerFires \/ Tick \/ Rest

Spec == Init /\ [][Next]_vars

-----------------------------------------------------------------------------
\* The variables hold values of their Rust types.
TypeOK ==
    /\ policy \in Policy /\ debug \in Builds
    /\ now \in Duration
    /\ phase \in {"ReadyToStart", "Polling", "Sleeping", "Yielding", "Done"}
    /\ origin \in MaybeDuration /\ highest \in Duration
    /\ attempt \in Attempts
    /\ previous_delay \in MaybeDuration
    /\ total_wait \in Duration
    /\ task \in {"idle", "polling", "returned", "dropped", "panicked"}
    /\ waker \in Wakers /\ woken \in BOOLEAN
    /\ opReady \in BOOLEAN /\ opWaker \in Wakers \cup {None}
    /\ deadline \in 0 .. 2 * DurMax
    /\ timerReady \in BOOLEAN /\ timerWaker \in Wakers \cup {None}
    /\ stats \in RetryStats \cup {None}
    /\ calls \in 0 .. AttemptMax + 1
    /\ slept \in Duration
    /\ exits \in 0 .. 1
    /\ aimed \in BOOLEAN

\* What the future resolves to is what happened: it counts the calls and the
\* completed waits, and on_exit fired once; polling it again afterwards, which
\* panics, changes nothing of it. A future that is alive, was dropped, or was left
\* by a panic has reported nothing; on_exit can have been called only by the step
\* that it then left by panicking, with the operation complete and never in a wait.
StatsTellTheTruth ==
    /\ phase = "Done" =>
          /\ exits = 1
          /\ stats.attempts = Least(calls, AttemptMax)
          /\ stats.total_wait = slept
          /\ stats.total_elapsed = highest
    /\ phase # "Done" =>
          /\ stats = None
          /\ exits # 0 => task = "panicked" /\ phase = "Polling" /\ opReady

\* "A clamped wait ends at the deadline and the loop performs one final attempt
\* there" (docs/SPEC.md 11.4.2).
FinalAttemptAtDeadline ==
    [][(phase = "Polling" /\ aimed) => phase' \in {"Polling", "Done"}]_vars

\* "Observed at attempt boundaries (a running operation or sleep is never
\* interrupted mid-flight)" (lib.rs, Cancellation).
CancelledBetweenAttempts ==
    [][(task = "idle" /\ task' = "dropped") => phase \notin {"Polling", "Sleeping"}]_vars

-----------------------------------------------------------------------------
\* The promise both engines make, stated of this one.
Loop == INSTANCE RetryLoop WITH
    budget  <- IF ContractClock THEN Timeout[policy] ELSE None,
    status  <- CASE phase = "Done" -> stats.stop_reason
                 [] phase # "Done" /\ task \in {"dropped", "panicked"} -> "Abandoned"
                 [] Live /\ phase = "Polling" -> "running"
                 [] OTHER -> "between",
    granted <- total_wait,
    last    <- ContractClock /\ aimed

\* The engine keeps what RetryLoop promises, and keeps it going: an attempt that
\* is due begins, and one that has begun comes to an end or is abandoned.
ImplementsFairRetryLoop == Loop!FairSpec

\* A future that is not dropped resolves (or panics).
Resolves == <>(task \in {"returned", "dropped", "panicked"})
=============================================================================
