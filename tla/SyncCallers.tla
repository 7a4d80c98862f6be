---------------------------- MODULE SyncCallers -----------------------------
(***************************************************************************)
(* The blocking engine with the operations people hand it, which remember  *)
(* something from one attempt to the next or hear of the world outside.    *)
(* A caller is one of:                                                     *)
(*   "any"      an operation and a classifier that may give any verdict;   *)
(*   "flag"     an operation that loads an AtomicBool as it starts and     *)
(*              returns a cancel error if it is set, with a predicate that *)
(*              takes this error for fatal (examples/sync-cancel.rs);      *)
(*   "script"   a poller of prepared outcomes that repeats the last one    *)
(*              (examples/polling-terminal-failure.rs, custom-outcome.rs). *)
(* With the default classifier the cancel error is an error like any other *)
(* and promises nothing: that is a caller of the first kind.               *)
(***************************************************************************)
EXTENDS SyncEngine, Sequences

CONSTANTS
  Callers,          \* those a run covers
  Scripts           \* the outcomes prepared, by the verdicts they lead to

ASSUME CallersAssumption ==
    /\ Callers \subseteq {"any", "flag", "script"}
    /\ \A s \in Scripts : s \in Seq(Verdict) /\ s # <<>>

VARIABLES
  caller, script,   \* fixed for the run
  cancelled,        \* the flag, as this thread sees it
  loaded,           \* what the current attempt has read of it
  lateCalls,        \* history: operation calls begun after it was set, and
  lateWaits         \* waits, each counted up to 2

callerVars == <<caller, script, cancelled, loaded, lateCalls, lateWaits>>
allVars == <<vars, callerVars>>

CallerInit ==
    /\ Init
    /\ caller \in Callers
    /\ script \in IF caller = "script" THEN Scripts ELSE {<<>>}
    /\ cancelled = FALSE /\ loaded = FALSE
    /\ lateCalls = 0 /\ lateWaits = 0

\* The outcome prepared for the k-th call, the last one over and over.
Scripted(k) == script[Least(k, Len(script))]

\* What the running attempt may come to.
Verdicts ==
    CASE caller = "any"    -> Verdict
      [] caller = "flag"   -> IF loaded THEN {"Abort"} ELSE Verdict
      [] caller = "script" -> {Scripted(calls)}

Late(count) == IF cancelled THEN Least(count + 1, 2) ELSE count

\* Another thread (a watchdog, a signal handler) or the operation itself sets
\* the flag, at any time.
SetFlag ==
    /\ caller = "flag"
    /\ pc \notin {"Done", "Unwound"}
    /\ ~cancelled
    /\ cancelled' = TRUE
    /\ UNCHANGED <<vars, caller, script, loaded, lateCalls, lateWaits>>

\* The operation starts, and loads the flag first of all.
OpStarts ==
    /\ BeginAttempt
    /\ loaded' = cancelled
    /\ lateCalls' = Late(lateCalls)
    /\ UNCHANGED <<caller, script, cancelled, lateWaits>>

OpReturns ==
    /\ pc = "Op"
    /\ \E verdict \in Verdicts : FinishOn(verdict) \/ RetryOn(verdict)
    /\ lateWaits' = IF pc' = "Sleep" THEN Late(lateWaits) ELSE lateWaits
    /\ UNCHANGED <<caller, script, cancelled, loaded, lateCalls>>

\* The steps of the thread that made the call.
CallerStep ==
    \/ OpStarts
    \/ OpReturns
    \/ (Call \/ WakeUp \/ AssertionPanics) /\ UNCHANGED callerVars

CallerNext ==
    \/ CallerStep
    \/ SetFlag
    \/ (Unwind \/ Tick \/ Rest) /\ UNCHANGED callerVars

CallerSpec == CallerInit /\ [][CallerNext]_allVars

CallerFairSpec == CallerSpec /\ WF_allVars(CallerStep)

-----------------------------------------------------------------------------
\* "The maximum latency between flag-set and termination is one sleep duration
\* plus one operation execution time" (docs/SPEC.md:1134-1136): after the flag is
\* set no second wait and no second attempt begin, however the flag falls between
\* the check in the operation and the loop's own steps.
CancelLatency == caller = "flag" => lateCalls <= 1 /\ lateWaits <= 1

\* An attempt that has read the flag is the last one and ends the run as Aborted,
\* also when the timeout has passed or the stop strategy has had enough by then
\* ("terminate immediately as RetryError::Aborted", docs/SPEC.md:1132).
CancelIsAborted ==
    caller = "flag" /\ loaded =>
        /\ pc \in {"Op", "Done", "Unwound"}
        /\ pc = "Done" => stats.stop_reason = "Aborted"

\* With a terminal cancel error the flag ends every run, also one that nothing
\* else would.
FlagEndsTheRun == (caller = "flag" /\ cancelled) ~> pc \in {"Done", "Unwound"}

\* A poller's run ends with its first settled outcome and no call after it, or
\* is exhausted before it has come that far: no outcome is skipped, none is asked
\* for twice.
FirstSettledOutcome ==
    (caller = "script" /\ calls <= AttemptMax) =>
        /\ \A k \in 1 .. calls - 1 : Scripted(k) = "Retry"
        /\ pc = "Done" =>
              stats.stop_reason = CASE Scripted(calls) = "Return" -> "Returned"
                                    [] Scripted(calls) = "Abort"  -> "Aborted"
                                    [] Scripted(calls) = "Retry"  -> "Exhausted"
=============================================================================
