------------------------------ MODULE Policies ------------------------------
(***************************************************************************)
(* The policies the runs cover, built from the strategies of the crate;    *)
(* between them they use every one. A run's configuration picks a subset.  *)
(*                                                                         *)
(*   attempts   stop::attempts, fixed wait, no timeout                     *)
(*   deadline   stop::never under a timeout, exponential wait              *)
(*   feedback   stop::attempts and a timeout, capped decorrelated jitter,  *)
(*              which is fed the previous delay                            *)
(*   elapsed    stop::elapsed, full jitter then none (chained)             *)
(*   zero       a zero timeout, additive jitter                            *)
(*   immediate  stop::attempts, no delay                                   *)
(*   composed   attempts AND (elapsed OR attempts), combined linear and    *)
(*              equal-jitter waits                                         *)
(*   spin       stop::never, no delay, no timeout                          *)
(*   custom     a stop and a wait of the user's under a timeout, which may *)
(*              give any answer (waits of at least one unit)               *)
(***************************************************************************)
EXTENDS Strategies

CONSTANTS
  Deadline,     \* the timeout of the policies that have one
  Limit         \* the max of stop::attempts

PolicyTimeouts ==
    [p \in {"attempts", "deadline", "feedback", "elapsed", "zero",
            "immediate", "composed", "spin", "custom"} |->
        CASE p \in {"deadline", "feedback", "custom"} -> Deadline
          [] p = "zero" -> 0
          [] OTHER -> None]

PolicyStops(p, state) ==
    CASE p \in {"attempts", "feedback", "immediate"} -> StopAfterAttempts(Limit, state)
      [] p \in {"deadline", "zero", "spin"} -> StopNever
      [] p = "elapsed" -> StopAfterElapsed(Deadline, state)
      [] p = "composed" ->
           StopAll(StopAfterAttempts(2, state),
                   StopAny(StopAfterElapsed(Deadline, state),
                           StopAfterAttempts(Limit, state)))
      [] p = "custom" -> BOOLEAN

PolicyWaits(p, state) ==
    CASE p = "attempts" -> WaitFixed(2)
      [] p = "deadline" -> WaitExponential(1, 2, state)
      [] p = "feedback" -> WaitCapped(JitterDecorrelated(WaitFixed(1), state), 2)
      [] p = "elapsed" -> WaitChain(JitterFull(WaitFixed(1)), WaitFixed(1), 1, state)
      [] p = "zero" -> JitterAdditive(WaitFixed(1), 1)
      [] p \in {"immediate", "spin"} -> WaitFixed(0)
      [] p = "composed" -> WaitCombine(WaitLinear(0, 1, state), JitterEqual(WaitFixed(2)))
      [] p = "custom" -> Duration \ {0}

\* The same, with a fixed wait so long that two of them are more than a Duration.
\* (A clock that keeps its contract has no reading at which the second would be over:
\* it is for the others.)
PolicyLongWaits(p, state) ==
    IF p = "attempts" THEN WaitFixed(DurMax \div 2 + 1) ELSE PolicyWaits(p, state)
=============================================================================
