------------------------------- MODULE MCSync -------------------------------
(***************************************************************************)
(* The synchronous engine and its callers for TLC: small policies and      *)
(* scripts, and what those policies promise.                               *)
(***************************************************************************)
EXTENDS SyncCallers, Policies

\* Those of the examples: settles well, fails terminally, never settles.
MCScripts == { <<"Retry", "Retry", "Return">>, <<"Retry", "Abort", "Retry">>, <<"Retry">> }

\* "Virtual time advanced to exactly the budget" (testing-with-virtual-clock.rs):
\* a run that only its timeout stops, on a clock that only its waits move, has
\* waited for exactly the timeout when it gives up.
BudgetIsSpentExactly ==
    (/\ policy \in {"deadline", "zero"}
     /\ pc = "Done" /\ stats.stop_reason = "Exhausted"
     /\ now = origin + slept)
        => slept = Timeout[policy]

LimitedPolicies == {"attempts", "feedback", "immediate", "composed"}

\* stop::attempts(Limit) means at most Limit calls of the operation.
AttemptsLimited == policy \in LimitedPolicies => calls <= Limit

\* Every run that is limited by attempts ends, on any clock.
LimitedTerminate == policy \in LimitedPolicies => Terminates

\* Every run ends that is limited by attempts or by elapsed time: only a policy
\* with neither ("spin") may go on for ever.
BoundedTerminate == policy # "spin" => Terminates
=============================================================================
