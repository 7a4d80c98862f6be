---------------------------- MODULE Classifiers -----------------------------
(***************************************************************************)
(* How a completed outcome becomes a verdict, and how the verdict of the   *)
(* last attempt becomes what the caller receives.                          *)
(*                                                                         *)
(* An outcome is a record of its arm and the payload in it: Ok and Err of  *)
(* a Result, Some and None of an Option, Break and Continue of a           *)
(* ControlFlow. A verdict carries a payload or, to retry, the whole        *)
(* outcome.                                                                *)
(***************************************************************************)

VerdictReturn(value) == [verdict |-> "Return", carries |-> value]
VerdictRetry(outcome) == [verdict |-> "Retry", carries |-> outcome]
VerdictAbort(value) == [verdict |-> "Abort", carries |-> value]

\* Outcome::classify of Result, Option and ControlFlow: no arm is fatal.
Classify(outcome) ==
    IF outcome.arm \in {"Ok", "Some", "Break"}
    THEN VerdictReturn(outcome.value)
    ELSE VerdictRetry(outcome)

\* A matcher is the set of payloads it accepts; that of result(..) is the
\* set of whole outcomes.
ShouldRetry(predicate, outcome) ==
    CASE predicate.on = "any_error" -> outcome.arm = "Err"
      [] predicate.on = "error"     -> outcome.arm = "Err" /\ outcome.value \in predicate.matcher
      [] predicate.on = "ok"        -> outcome.arm = "Ok" /\ outcome.value \in predicate.matcher
      [] predicate.on = "result"    -> outcome \in predicate.matcher

\* Accept: an Ok is returned, an Err aborts with the bare error.
Accept(outcome) ==
    IF outcome.arm = "Ok" THEN VerdictReturn(outcome.value) ELSE VerdictAbort(outcome.value)

When(predicate, outcome) ==
    IF ShouldRetry(predicate, outcome) THEN VerdictRetry(outcome) ELSE Accept(outcome)

\* Mutant: the predicate is not inverted.
UntilNotInverted(predicate, outcome) ==
    IF ShouldRetry(predicate, outcome) THEN VerdictRetry(outcome) ELSE Accept(outcome)

Until(predicate, outcome) ==
    IF ShouldRetry(predicate, outcome) THEN Accept(outcome) ELSE VerdictRetry(outcome)

\* The classifier slot: the default, a predicate under when or until, or a
\* closure, given by its verdicts.
Decide(classifier, outcome) ==
    CASE classifier.by = "default" -> Classify(outcome)
      [] classifier.by = "when"    -> When(classifier.predicate, outcome)
      [] classifier.by = "until"   -> Until(classifier.predicate, outcome)
      [] classifier.by = "decide"  -> classifier.closure[outcome]

-----------------------------------------------------------------------------
\* The result of call(): Ok, or a RetryError.

ResultOk(value) == [result |-> "Ok", value |-> value]
Aborted(last) == [result |-> "Aborted", last |-> last]
Exhausted(last) == [result |-> "Exhausted", last |-> last]

\* RetryError::last and last_error, as the set of what they retain.
LastOutcome(error) == IF error.result = "Exhausted" THEN { error.last } ELSE {}

LastError(error) ==
    IF error.result = "Aborted" THEN { error.last }
    ELSE { last.value : last \in { o \in { error.last } : o.arm = "Err" } }
=============================================================================
