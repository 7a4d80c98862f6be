----------------------------- MODULE RetryCore ------------------------------
(***************************************************************************)
(* The part of the retry loop both engines share: the elapsed-time         *)
(* watermark (engine/elapsed.rs) and the decision step that turns one      *)
(* completed attempt into "terminate" or "try again after this delay"      *)
(* (engine/step.rs). They are operators; the engines' modules own the      *)
(* variables.                                                              *)
(***************************************************************************)
EXTENDS ClockModel

CONSTANTS
  Policy,             \* the configurations a run covers
  Timeout,            \* each one's `timeout` field
  StopAnswers(_, _),  \* what a policy's Stop can answer about a RetryState
  WaitAnswers(_, _),  \* what a policy's Wait can answer about a RetryState
  AttemptMax,         \* u32::MAX
  Builds              \* whether debug_assert! is compiled in: the builds covered

Attempts == 1 .. AttemptMax

RetryState == [attempt : Attempts, elapsed : Duration, previous_delay : MaybeDuration]

ASSUME RetryAssumption ==
    /\ AttemptMax \in Nat \ {0}
    /\ Builds \subseteq BOOLEAN
    /\ \A p \in Policy : Timeout[p] \in MaybeDuration
    /\ \A p \in Policy, s \in RetryState :
          /\ StopAnswers(p, s) \in SUBSET BOOLEAN
          /\ WaitAnswers(p, s) \in SUBSET Duration

-----------------------------------------------------------------------------
\* Elapsed: the origin is the first reading, `highest` the watermark.

Seen(now, origin) == SatSub(now, origin)

\* The debug_assert! of Elapsed::read, which precedes the update.
\* Mutant: the assertion compares after the update.
AssertionFailsNever(debug, highest, now, origin) == FALSE

AssertionFails(debug, highest, now, origin) == debug /\ Seen(now, origin) < highest

\* Mutant: no watermark.
ReadElapsedUnlatched(highest, now, origin) == Seen(now, origin)

ReadElapsed(highest, now, origin) == Greatest(highest, Seen(now, origin))

-----------------------------------------------------------------------------
\* The decision step.

\* What the classifier makes of the attempt's outcome.
Verdict == {"Return", "Abort", "Retry"}

StopReason == {"Returned", "Aborted", "Exhausted"}

\* Mutants: the counter is not saturated; the counter is not moved.
NextAttemptUnsaturated(attempt) == attempt + 1

NextAttemptStuck(attempt) == attempt

NextAttempt(attempt) == Least(attempt + 1, AttemptMax)

\* Mutants: the deadline itself is not yet too late; the timeout is ignored.
TimeoutExceededLate(timeout, elapsed) == timeout # None /\ elapsed > timeout

TimeoutExceededNever(timeout, elapsed) == FALSE

TimeoutExceeded(timeout, elapsed) == timeout # None /\ elapsed >= timeout

\* Mutants: each delay is cut to the whole timeout; no delay is cut.
ClampToTimeout(delay, timeout, elapsed) ==
    IF timeout = None THEN delay ELSE Least(delay, timeout)

ClampForgotten(delay, timeout, elapsed) == delay

\* The delay is cut to what is left of the timeout.
Clamp(delay, timeout, elapsed) ==
    IF timeout = None THEN delay ELSE Least(delay, SatSub(timeout, elapsed))

\* The state the strategies are asked about, for the attempt just completed.
StateOf(progress) ==
    [attempt        |-> progress.attempt,
     elapsed        |-> progress.elapsed,
     previous_delay |-> progress.previous_delay]

RetryStats == [stop_reason   : StopReason,
               attempts      : Attempts,
               total_elapsed : Duration,
               total_wait    : Duration]

\* Mutant: the attempt that would have been next is counted.
StatsForNextAttempt(progress, reason) ==
    [stop_reason   |-> reason,
     attempts      |-> NextAttempt(progress.attempt),
     total_elapsed |-> progress.elapsed,
     total_wait    |-> progress.total_wait]

\* Step::Done's stats.
StatsFor(progress, reason) ==
    [stop_reason   |-> reason,
     attempts      |-> progress.attempt,
     total_elapsed |-> progress.elapsed,
     total_wait    |-> progress.total_wait]

\* Mutant: a timeout that has passed comes before the verdict.
EndingsTimeoutFirst(progress, verdict, p) ==
    IF TimeoutExceeded(Timeout[p], progress.elapsed) THEN {"Exhausted"}
    ELSE CASE verdict = "Return" -> {"Returned"}
           [] verdict = "Abort"  -> {"Aborted"}
           [] verdict = "Retry"  ->
                IF TRUE \in StopAnswers(p, StateOf(progress)) THEN {"Exhausted"} ELSE {}

\* The reasons for which the loop may end at this step: stop is asked only
\* once the classifier wants to retry, and is asked even if the timeout has
\* already decided.
Endings(progress, verdict, p) ==
    CASE verdict = "Return" -> {"Returned"}
      [] verdict = "Abort"  -> {"Aborted"}
      [] verdict = "Retry"  ->
           IF \E stop \in StopAnswers(p, StateOf(progress)) :
                 stop \/ TimeoutExceeded(Timeout[p], progress.elapsed)
           THEN {"Exhausted"} ELSE {}

\* Mutant: whatever is not accepted is retried.
DelaysAfterAbort(progress, verdict, p) ==
    IF /\ verdict # "Return"
       /\ \E stop \in StopAnswers(p, StateOf(progress)) :
             ~(stop \/ TimeoutExceeded(Timeout[p], progress.elapsed))
    THEN { Clamp(next, Timeout[p], progress.elapsed) :
             next \in WaitAnswers(p, StateOf(progress)) }
    ELSE {}

\* The delays after which the loop may go on (Step::Continue): the wait
\* strategy is asked only when a retry is certain.
Delays(progress, verdict, p) ==
    IF /\ verdict = "Retry"
       /\ \E stop \in StopAnswers(p, StateOf(progress)) :
             ~(stop \/ TimeoutExceeded(Timeout[p], progress.elapsed))
    THEN { Clamp(next, Timeout[p], progress.elapsed) :
             next \in WaitAnswers(p, StateOf(progress)) }
    ELSE {}
=============================================================================
