---------------------------- MODULE MCCallbacks -----------------------------
(***************************************************************************)
(* Outcomes, strategies and classifiers for Callbacks.                     *)
(***************************************************************************)
EXTENDS Callbacks

MCProbe == {[arm |-> "Ok", value |-> "ready"], [arm |-> "Err", value |-> "transient"]}
MCOutcomes == [arm : {"Ok"}, value : {"ready", "not yet"}] \cup [arm : {"Err"}, value : {"transient", "fatal"}]
MCPolling == [arm : {"Some"}, value : {"ready"}] \cup [arm : {"None"}, value : {"nothing"}]

MCDefaultStop == [how |-> "any", parts |-> <<"attempts">>]
MCStops == { [how |-> how, parts |-> <<"attempts", "elapsed">>] : how \in {"any", "all"} }

MCDefaultWait == <<"exponential">>
MCWaits == { <<"fixed", "linear">> }

MCDefaultClassifier == [by |-> "default"]
MCIsReady == [by |-> "until", predicate |-> [on |-> "ok", matcher |-> {"ready"}]]
MCClassifiers ==
    { [MCIsReady EXCEPT !.by = by] : by \in {"when", "until"} }
    \cup { [by |-> "when", predicate |-> [on |-> "error", matcher |-> {"transient"}]],
           [by |-> "when", predicate |-> [on |-> "any_error"]],
           [by |-> "until", predicate |-> [on |-> "result", matcher |-> [arm : {"Ok", "Err"}, value : {"ready", "fatal"}]]],
           [by |-> "decide", closure |->
               [o \in MCOutcomes |-> CASE o.value = "fatal" -> VerdictAbort(o.value)
                                       [] o.arm = "Ok"      -> VerdictReturn(o.value)
                                       [] OTHER             -> VerdictRetry(o)]] }

\* One polls an Option with chains of hooks and a composed stop strategy; one
\* probes a Result with every kind of classifier; one configures a policy and
\* overrides it.
MCUsers ==
    { [outcomes |-> MCPolling, classifiers |-> {}, policyMethods |-> {},
       methods |-> {"before", "after", "exit", "stop"}, requests |-> 3, attempts |-> 3],
      [outcomes |-> MCOutcomes, classifiers |-> MCClassifiers, policyMethods |-> {},
       methods |-> {"classifier", "exit"}, requests |-> 2, attempts |-> 2],
      [outcomes |-> MCProbe, classifiers |-> {MCIsReady},
       policyMethods |-> {"stop", "wait", "classifier", "timeout"},
       methods |-> {"stop", "wait", "classifier", "timeout", "clock", "before"},
       requests |-> 2, attempts |-> 2] }
=============================================================================
