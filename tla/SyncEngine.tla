----------------------------- MODULE SyncEngine -----------------------------
(***************************************************************************)
(* The blocking retry loop: Retry::run of engine/sync_engine.rs.           *)
(*                                                                         *)
(* One thread runs the loop; what interleaves with it is the clock, which  *)
(* moves between any two of its steps (a slow operation, a slow callback,  *)
(* a descheduled thread), and user code, which may panic wherever the loop *)
(* calls it. Control is at one of:                                         *)
(*   "Ready"    configured, .call() not yet made;                          *)
(*   "Before"   the top of the loop;                                       *)
(*   "Op"       the operation is running;                                  *)
(*   "Sleep"    in clock.wait(delay);                                      *)
(*   "Done"     .call() has returned;                                      *)
(*   "Unwound"  a panic has left the loop.                                 *)
(***************************************************************************)
EXTENDS RetryCore

VARIABLES
  policy, debug,    \* the configuration and the build, fixed for the run
  now,              \* the reading of the injected clock
  pc,
  origin, highest,  \* Elapsed
  attempt, previous_delay, total_wait,    \* the loop's locals
  delay,            \* Step::Continue's delay, while it is slept
  stats,            \* what .call() returns (None before)
  \* History, for the properties only:
  calls,            \* operation calls begun (counted up to AttemptMax + 1)
  slept,            \* the sum of the durations passed to clock.wait
  exits,            \* on_exit firings
  aimed             \* a delay was cut to end exactly at the deadline

loop == <<attempt, previous_delay, total_wait>>
history == <<calls, slept, exits, aimed>>
vars == <<policy, debug, now, pc, origin, highest, loop, delay, stats, history>>

\* How much waiting has been granted so far, the wait in progress included.
Granted == SatAdd(total_wait, delay)

Init ==
    /\ policy \in Policy /\ debug \in Builds
    /\ now = 0
    /\ pc = "Ready"
    /\ origin = 0 /\ highest = 0
    /\ attempt = 1 /\ previous_delay = None /\ total_wait = 0
    /\ delay = 0
    /\ stats = None
    /\ calls = 0 /\ slept = 0 /\ exits = 0 /\ aimed = FALSE

\* .call(): the baseline is read when execution starts, not when the builder
\* was made.
Call ==
    /\ pc = "Ready"
    /\ pc' = "Before"
    /\ origin' = now
    /\ highest' = 0
    /\ UNCHANGED <<policy, debug, now, loop, delay, stats, history>>

\* Elapsed is read, before_attempt fires and the operation is called.
BeginAttempt ==
    /\ pc = "Before"
    /\ ~AssertionFails(debug, highest, now, origin)
    /\ pc' = "Op"
    /\ highest' = ReadElapsed(highest, now, origin)
    /\ calls' = Least(calls + 1, AttemptMax + 1)
    /\ UNCHANGED <<policy, debug, now, origin, loop, delay, stats, slept, exits, aimed>>

\* The attempt that has just completed, with elapsed read again after it.
Progress ==
    [attempt        |-> attempt,
     elapsed        |-> ReadElapsed(highest, now, origin),
     previous_delay |-> previous_delay,
     total_wait     |-> total_wait]

\* The operation returns and the step ends the loop, on this verdict of the
\* classifier: on_exit fires and .call() returns.
FinishOn(verdict) ==
    /\ pc = "Op"
    /\ ~AssertionFails(debug, highest, now, origin)
    /\ \E reason \in Endings(Progress, verdict, policy) : stats' = StatsFor(Progress, reason)
    /\ highest' = Progress.elapsed
    /\ exits' = exits + 1
    /\ pc' = "Done"
    /\ UNCHANGED <<policy, debug, now, origin, loop, delay, calls, slept, aimed>>

Finish == \E verdict \in Verdict : FinishOn(verdict)

\* Mutant: the total wraps around at Duration::MAX.
AdvanceWrapping(d) ==
    /\ total_wait' = (total_wait + d) % (DurMax + 1)
    /\ previous_delay' = d
    /\ attempt' = NextAttempt(attempt)
    /\ pc' = "Before"

\* The bookkeeping at the bottom of the loop, after a delay of d.
Advance(d) ==
    /\ total_wait' = SatAdd(total_wait, d)
    /\ previous_delay' = d
    /\ attempt' = NextAttempt(attempt)
    /\ pc' = "Before"

\* The operation returns and the step continues the loop: a zero delay skips
\* the clock.
RetryOn(verdict) ==
    /\ pc = "Op"
    /\ ~AssertionFails(debug, highest, now, origin)
    /\ \E d \in Delays(Progress, verdict, policy) :
          /\ aimed' = (aimed \/ /\ Timeout[policy] # None
                                /\ d = SatSub(Timeout[policy], Progress.elapsed))
          /\ \/ /\ d = 0
                /\ Advance(0)
                /\ UNCHANGED delay
             \/ /\ d # 0
                /\ delay' = d
                /\ pc' = "Sleep"
                /\ UNCHANGED loop
    /\ highest' = Progress.elapsed
    /\ UNCHANGED <<policy, debug, now, origin, stats, calls, slept, exits>>

Retry == \E verdict \in Verdict : RetryOn(verdict)

\* clock.wait(delay) returns.
WakeUp ==
    /\ pc = "Sleep"
    /\ now' \in ReadingsAfterWait(now, delay, Granted)
    /\ slept' = SatAdd(slept, delay)
    /\ Advance(delay)
    /\ delay' = 0
    /\ UNCHANGED <<policy, debug, origin, highest, stats, calls, exits, aimed>>

\* User code called by the loop panics: a hook, the operation, the classifier,
\* a strategy or the clock. The stack unwinds and nothing is returned; on_exit
\* has been called only if it is what panicked.
Unwind ==
    /\ pc \in {"Before", "Op", "Sleep"}
    /\ pc' = "Unwound"
    /\ exits' \in IF pc = "Op" THEN {exits, exits + 1} ELSE {exits}
    /\ UNCHANGED <<policy, debug, now, origin, highest, loop, delay, stats, calls, slept, aimed>>

\* The clock has run backwards and a debug build's Elapsed::read says so.
AssertionPanics ==
    /\ pc \in {"Before", "Op"}
    /\ AssertionFails(debug, highest, now, origin)
    /\ pc' = "Unwound"
    /\ UNCHANGED <<policy, debug, now, origin, highest, loop, delay, stats, history>>

\* Time passes, or a clock that is not monotone jumps; what passes during a
\* wait is part of WakeUp.
Tick ==
    /\ pc \in {"Ready", "Before", "Op"}
    /\ now' \in Readings(now, Granted) \ {now}
    /\ UNCHANGED <<policy, debug, pc, origin, highest, loop, delay, stats, history>>

\* The loop has been left; nothing more happens.
Rest ==
    /\ pc \in {"Done", "Unwound"}
    /\ UNCHANGED vars

\* The steps of the thread that made the call.
Step == Call \/ BeginAttempt \/ Finish \/ Retry \/ WakeUp \/ AssertionPanics

Next == Step \/ Unwind \/ Tick \/ Rest

Spec == Init /\ [][Next]_vars

\* The thread is scheduled, the operation returns and so does clock.wait.
FairSpec == Spec /\ WF_vars(Step)

-----------------------------------------------------------------------------
\* The variables hold values of their Rust types.
TypeOK ==
    /\ policy \in Policy /\ debug \in Builds
    /\ now \in Duration
    /\ pc \in {"Ready", "Before", "Op", "Sleep", "Done", "Unwound"}
    /\ origin \in Duration /\ highest \in Duration
    /\ attempt \in Attempts
    /\ previous_delay \in MaybeDuration
    /\ total_wait \in Duration
    /\ delay \in Duration
    /\ stats \in RetryStats \cup {None}
    /\ calls \in 0 .. AttemptMax + 1
    /\ slept \in Duration
    /\ exits \in 0 .. 1
    /\ aimed \in BOOLEAN

\* The waits granted by a run with a timeout never add up to more than the
\* timeout, however many attempts there are and whatever the wait strategy asks
\* for: each clamp is against elapsed time, never against what was waited
\* before, so this rests on the clock keeping its contract.
WaitWithinTimeout == Timeout[policy] # None => Granted <= Timeout[policy]

\* Once an attempt has begun with the timeout spent it is the last one, even
\* if the clock then runs backwards: elapsed is a watermark, a spent budget is
\* not refunded.
SpentBudgetIsFinal ==
    [][(pc = "Op" /\ TimeoutExceeded(Timeout[policy], highest))
          => pc' \in {"Op", "Done", "Unwound"}]_vars

\* "A clamped wait ends at the deadline and the loop performs one final attempt
\* there" (docs/SPEC.md 11.4.2): with a clock that keeps its contract, no delay
\* follows the one cut to end at the deadline.
FinalAttemptAtDeadline ==
    [][(pc = "Op" /\ aimed) => pc' \in {"Op", "Done", "Unwound"}]_vars

\* What a returned run reports is what happened: it counts the operation calls
\* (up to u32::MAX) and the time the clock was made to wait (up to Duration::MAX),
\* and on_exit fired once. A run that has not returned, because it goes on or a
\* panic has left it, has reported nothing; on_exit can have been called only by
\* the step that it then left by panicking, after an attempt and never in a wait.
StatsTellTheTruth ==
    /\ pc = "Done" =>
          /\ exits = 1
          /\ stats.attempts = Least(calls, AttemptMax)
          /\ stats.total_wait = slept
          /\ stats.total_elapsed = highest
    /\ pc # "Done" =>
          /\ stats = None
          /\ exits # 0 => /\ pc = "Unwound" /\ delay = 0
                          /\ attempt = Least(calls, AttemptMax)

\* A debug build never goes on from a reading below the watermark: every
\* elapsed value its callbacks are given was really read.
DebugReadsAreTrue ==
    [][(debug /\ pc \in {"Before", "Op"} /\ pc' # pc /\ pc' # "Unwound")
          => highest' = Seen(now, origin)]_vars

-----------------------------------------------------------------------------
\* The promise both engines make, stated of this one.
Loop == INSTANCE RetryLoop WITH
    budget  <- IF ContractClock THEN Timeout[policy] ELSE None,
    status  <- CASE pc \in {"Ready", "Before", "Sleep"} -> "between"
                 [] pc = "Op"      -> "running"
                 [] pc = "Done"    -> stats.stop_reason
                 [] pc = "Unwound" -> "Abandoned",
    granted <- Granted,
    last    <- ContractClock /\ aimed

\* The engine keeps what RetryLoop promises: attempts and waits alternate, the
\* waits stay within the timeout, nothing but one attempt follows a wait cut to
\* end at the deadline; an attempt that is due begins, and one that has begun
\* comes to an end or is abandoned.
ImplementsFairRetryLoop == Loop!FairSpec

\* Every run returns or unwinds.
Terminates == <>(pc \in {"Done", "Unwound"})
=============================================================================
