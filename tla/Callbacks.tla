----------------------------- MODULE Callbacks ------------------------------
(***************************************************************************)
(* Everything of the user's that an execution calls, one call at a time:   *)
(* the chains of hooks, the operation, the classifier, the parts of the    *)
(* stop and of the wait strategy, the clock. Any of them may panic. Before *)
(* it the builder is configured, from a policy or from the defaults; after *)
(* it the policy can be used again.                                        *)
(*                                                                         *)
(* Time is left out (SyncEngine and AsyncEngine have it): whether the      *)
(* timeout has passed is a free choice whenever one is set.                *)
(***************************************************************************)
EXTENDS Classifiers, Naturals, SequencesExt

CONSTANTS
  Users,              \* who uses the library, and for what (see below)
  DefaultStop, DefaultWait,
  Stops,              \* stop strategies: how the parts combine, and the parts
  Waits,              \* wait strategies: the parts whose answers are added
  DefaultClassifier,
  Clocks, SystemClock,
  Timeouts, None

\* A user is a record of
\*   outcomes       what the operation can return,
\*   classifiers    what decide, when and until are given,
\*   policyMethods  the methods of RetryPolicy that are called, and
\*   methods        those of Retry and AsyncRetry,
\*   requests       bound: how many calls there are of each, and
\*   attempts       bound: from here on the stop strategy answers yes.
ASSUME UsersAssumption ==
    \A u \in Users :
        /\ u.policyMethods \subseteq {"stop", "wait", "classifier", "timeout"}
        /\ u.methods \subseteq {"stop", "wait", "classifier", "timeout", "clock",
                                "before", "after", "exit"}
        /\ u.requests \in Nat
        /\ u.attempts \in Nat \ {0}

\* Their parts are named. A stop strategy has at least one.
ASSUME StrategiesAssumption ==
    /\ Stops \cup {DefaultStop} \subseteq [how : {"any", "all"}, parts : Seq(STRING) \ {<<>>}]
    /\ Waits \cup {DefaultWait} \subseteq Seq(STRING)

VARIABLES
  user,       \* one of them
  policy,     \* the slots of the RetryPolicy
  builder,    \* the slots of the Retry or AsyncRetry
  engine,     \* "sync" or "async"
  stage,      \* where the execution is
  queue,      \* the callees of this stage still to be called
  attempt,
  outcome,    \* what the last attempt returned
  late,       \* the timeout has passed, as seen after the last attempt
  answers,    \* the answers of the parts of the stop strategy
  result,     \* what call() returns, and the reason in its stats
  policyRequests, requests,   \* history: the builder methods called
  trace                       \* history: the calls this execution has made, by attempt

configVars == <<user, policy, builder, engine, policyRequests, requests>>
vars == <<configVars, stage, queue, attempt, outcome, late, answers, result, trace>>

NoResult == [result |-> "none"]
NoOutcome == [arm |-> "none"]

Defaults ==
    [stop |-> DefaultStop, wait |-> DefaultWait, classifier |-> DefaultClassifier, timeout |-> None]

\* from_parts: the four slots, the system clock and no hooks.
FromParts(slots) ==
    [stop |-> slots.stop, wait |-> slots.wait, classifier |-> slots.classifier,
     timeout |-> slots.timeout, clock |-> SystemClock,
     before |-> <<>>, after |-> <<>>, exit |-> <<>>]

\* What each builder method can be given. Hooks are numbered as they come.
Arguments(slot, config) ==
    CASE slot = "stop"       -> Stops
      [] slot = "wait"       -> Waits
      [] slot = "classifier" -> user.classifiers
      [] slot = "timeout"    -> Timeouts
      [] slot = "clock"      -> Clocks
      [] slot \in {"before", "after", "exit"} -> { Len(config[slot]) + 1 }

\* A method fills its slot and hands the others on; a hook joins its chain.

\* Mutant: a new hook goes to the front.
ConfiguredInFront(config, slot, value) ==
    IF slot \in {"before", "after", "exit"}
    THEN [config EXCEPT ![slot] = <<value>> \o @]
    ELSE [config EXCEPT ![slot] = value]

Configured(config, slot, value) ==
    IF slot \in {"before", "after", "exit"}
    THEN [config EXCEPT ![slot] = Append(@, value)]
    ELSE [config EXCEPT ![slot] = value]

-----------------------------------------------------------------------------
Init ==
    /\ user \in Users
    /\ policy = Defaults
    /\ builder = FromParts(Defaults)
    /\ engine \in {"sync", "async"}
    /\ stage = "policy"
    /\ queue = <<>>
    /\ attempt = 1
    /\ outcome = NoOutcome
    /\ late = FALSE
    /\ answers = <<>>
    /\ result = NoResult
    /\ policyRequests = <<>>
    /\ requests = <<>>
    /\ trace = << <<>> >>

\* RetryPolicy::stop, wait, when, until, decide, timeout.
ConfigurePolicy ==
    /\ stage = "policy"
    /\ Len(policyRequests) < user.requests
    /\ \E slot \in user.policyMethods : \E value \in Arguments(slot, policy) :
          /\ policy' = Configured(policy, slot, value)
          /\ policyRequests' = Append(policyRequests, <<slot, value>>)
    /\ UNCHANGED <<user, builder, engine, stage, queue, attempt, outcome, late, answers, result, requests, trace>>

\* RetryPolicy::retry and retry_async borrow the policy; nothing of an
\* earlier execution is left. A policy without requests stands for the free
\* functions and the extension traits, which start from the same defaults.
Lend ==
    /\ stage \in {"policy", "done", "unwound", "cancelled"}
    /\ stage' = "building"
    /\ builder' = FromParts(policy)
    /\ engine' \in {"sync", "async"}
    /\ requests' = <<>>
    /\ trace' = << <<>> >>
    /\ result' = NoResult
    /\ outcome' = NoOutcome
    /\ attempt' = 1
    /\ UNCHANGED <<user, policy, queue, late, answers, policyRequests>>

Configure ==
    /\ stage = "building"
    /\ Len(requests) < user.requests
    /\ \E slot \in user.methods : \E value \in Arguments(slot, builder) :
          /\ builder' = Configured(builder, slot, value)
          /\ requests' = Append(requests, <<slot, value>>)
    /\ UNCHANGED <<user, policy, engine, stage, queue, attempt, outcome, late, answers, result, policyRequests, trace>>

\* call(), or the first poll of the future: on to the first attempt.
Call ==
    /\ stage = "building"
    /\ stage' = "before"
    /\ queue' = builder.before
    /\ UNCHANGED <<configVars, attempt, outcome, late, answers, result, trace>>

-----------------------------------------------------------------------------
Calling(entry) == trace' = [trace EXCEPT ![attempt] = Append(@, entry)]

\* A hook is called with a view of the attempt.
CallHook ==
    /\ stage \in {"before", "after", "exit"}
    /\ queue # <<>>
    /\ Calling([at |-> stage, callee |-> Head(queue),
                sees |-> CASE stage = "before" -> NoOutcome
                           [] stage = "after"  -> outcome
                           [] stage = "exit"   -> result])
    /\ queue' = Tail(queue)
    /\ UNCHANGED <<configVars, stage, attempt, outcome, late, answers, result>>

CallOp ==
    /\ stage = "before"
    /\ queue = <<>>
    /\ Calling([at |-> "op", callee |-> "op", sees |-> NoOutcome])
    /\ stage' = "running"
    /\ UNCHANGED <<configVars, queue, attempt, outcome, late, answers, result>>

OpReturns ==
    /\ stage = "running"
    /\ outcome' \in user.outcomes
    /\ stage' = "after"
    /\ queue' = builder.after
    /\ UNCHANGED <<configVars, attempt, late, answers, result, trace>>

Conclude(end) ==
    /\ stage' = "exit"
    /\ queue' = builder.exit
    /\ result' = end

CallClassifier ==
    /\ stage = "after"
    /\ queue = <<>>
    /\ Calling([at |-> "classify", callee |-> builder.classifier, sees |-> outcome])
    /\ LET v == Decide(builder.classifier, outcome) IN
          \/ /\ v.verdict = "Return"
             /\ Conclude(ResultOk(v.carries))
             /\ UNCHANGED <<late, answers>>
          \/ /\ v.verdict = "Abort"
             /\ Conclude(Aborted(v.carries))
             /\ UNCHANGED <<late, answers>>
          \/ /\ v.verdict = "Retry"
             /\ stage' = "stop"
             /\ queue' = builder.stop.parts
             /\ answers' = <<>>
             /\ late' \in { passed \in BOOLEAN : passed => builder.timeout # None }
             /\ UNCHANGED result
    /\ UNCHANGED <<configVars, attempt, outcome>>

CallStop ==
    /\ stage = "stop"
    /\ queue # <<>>
    /\ Calling([at |-> "stop", callee |-> Head(queue), sees |-> NoOutcome])
    /\ \E answer \in BOOLEAN :
          /\ attempt >= user.attempts => answer
          /\ answers' = Append(answers, answer)
    /\ queue' = Tail(queue)
    /\ UNCHANGED <<configVars, stage, attempt, outcome, late, result>>

\* Mutant: the answers do not count.
ShouldStopIgnored == FALSE

\* or and and: every part has been asked by now.
ShouldStop ==
    CASE builder.stop.how = "any" -> \E k \in DOMAIN answers : answers[k]
      [] builder.stop.how = "all" -> \A k \in DOMAIN answers : answers[k]

\* Mutant: a refused retry is reported as a fatal outcome.
StopDecidedAborting ==
    /\ stage = "stop"
    /\ queue = <<>>
    /\ \/ /\ ShouldStop \/ late
          /\ Conclude(Aborted(outcome.value))
       \/ /\ ~(ShouldStop \/ late)
          /\ stage' = "wait"
          /\ queue' = builder.wait
          /\ UNCHANGED result
    /\ UNCHANGED <<configVars, attempt, outcome, late, answers, trace>>

StopDecided ==
    /\ stage = "stop"
    /\ queue = <<>>
    /\ \/ /\ ShouldStop \/ late
          /\ Conclude(Exhausted(outcome))
       \/ /\ ~(ShouldStop \/ late)
          /\ stage' = "wait"
          /\ queue' = builder.wait
          /\ UNCHANGED result
    /\ UNCHANGED <<configVars, attempt, outcome, late, answers, trace>>

CallWait ==
    /\ stage = "wait"
    /\ queue # <<>>
    /\ Calling([at |-> "wait", callee |-> Head(queue), sees |-> NoOutcome])
    /\ queue' = Tail(queue)
    /\ UNCHANGED <<configVars, stage, attempt, outcome, late, answers, result>>

NextAttempt ==
    /\ stage' = "before"
    /\ queue' = builder.before
    /\ attempt' = attempt + 1
    /\ trace' = Append(trace, <<>>)

\* A delay that is not zero goes to the clock.
Sleep ==
    /\ stage = "wait"
    /\ queue = <<>>
    /\ Calling([at |-> "clock", callee |-> builder.clock, sees |-> NoOutcome])
    /\ stage' = "resting"
    /\ UNCHANGED <<configVars, queue, attempt, outcome, late, answers, result>>

\* A delay of zero does not: the asynchronous engine yields once, the
\* synchronous one goes on.
SkipSleep ==
    /\ stage = "wait"
    /\ queue = <<>>
    /\ \/ /\ engine = "sync"
          /\ NextAttempt
       \/ /\ engine = "async"
          /\ stage' = "resting"
          /\ UNCHANGED <<queue, attempt, trace>>
    /\ UNCHANGED <<configVars, outcome, late, answers, result>>

Rested ==
    /\ stage = "resting"
    /\ NextAttempt
    /\ UNCHANGED <<configVars, outcome, late, answers, result>>

Return ==
    /\ stage = "exit"
    /\ queue = <<>>
    /\ stage' = "done"
    /\ UNCHANGED <<configVars, queue, attempt, outcome, late, answers, result, trace>>

\* The next callee panics instead of coming back: a hook, the operation, the
\* classifier, a part of a strategy, the clock. What was left to call is not
\* called.
Panic ==
    /\ \/ stage \in {"before", "running", "after", "wait"}
       \/ stage \in {"stop", "exit"} /\ queue # <<>>
       \/ stage = "resting" /\ Last(trace[attempt]).at = "clock"
    /\ stage' = "unwound"
    /\ queue' = <<>>
    /\ result' = NoResult
    /\ UNCHANGED <<configVars, attempt, outcome, late, answers, trace>>

\* The future is dropped while it is pending.
Cancel ==
    /\ engine = "async"
    /\ stage \in {"running", "resting"}
    /\ stage' = "cancelled"
    /\ UNCHANGED <<configVars, queue, attempt, outcome, late, answers, result, trace>>

Next ==
    \/ ConfigurePolicy \/ Lend \/ Configure \/ Call
    \/ CallHook \/ CallOp \/ OpReturns \/ CallClassifier
    \/ CallStop \/ StopDecided \/ CallWait \/ Sleep \/ SkipSleep \/ Rested
    \/ Return \/ Panic \/ Cancel

Spec == Init /\ [][Next]_vars

-----------------------------------------------------------------------------
\* Hooks are told apart by their place in the chain.
Hooks == 1 .. user.requests

(***************************************************************************)
(* Type correctness.                                                       *)
(***************************************************************************)
TypeOK ==
    /\ user \in Users
    /\ policy.stop \in Stops \cup {DefaultStop}
    /\ policy.wait \in Waits \cup {DefaultWait}
    /\ policy.timeout \in Timeouts \cup {None}
    /\ builder.clock \in Clocks \cup {SystemClock}
    /\ \A slot \in {"before", "after", "exit"} : builder[slot] \in Seq(Hooks)
    /\ engine \in {"sync", "async"}
    /\ attempt \in 1 .. user.attempts
    /\ outcome \in user.outcomes \cup {NoOutcome}
    /\ late \in BOOLEAN
    /\ answers \in Seq(BOOLEAN)
    /\ stage \in {"policy", "building", "before", "running", "after", "stop", "wait",
                   "resting", "exit", "done", "unwound", "cancelled"}

-----------------------------------------------------------------------------
\* What the user asked for, as opposed to what the builder holds.

PlacesOf(slot, history) == { k \in DOMAIN history : history[k][1] = slot }

LastAsked(slot, history, otherwise) ==
    LET places == PlacesOf(slot, history)
    IN  IF places = {} THEN otherwise ELSE history[Max(places)][2]

\* The last value given to a slot: of the builder, of the policy, the default.
Asked(slot) ==
    LastAsked(slot, requests,
        LastAsked(slot, policyRequests,
            IF slot = "clock" THEN SystemClock ELSE Defaults[slot]))

All(at, callees) == [k \in DOMAIN callees |-> <<at, callees[k]>>]

Chain(slot) == [k \in 1 .. Cardinality(PlacesOf(slot, requests)) |-> <<slot, k>>]

Tried == Chain("before") \o << <<"op", "op">> >> \o Chain("after")
            \o << <<"classify", Asked("classifier")>> >>

StopAsked == Tried \o All("stop", Asked("stop").parts)

WaitAsked == StopAsked \o All("wait", Asked("wait"))

\* The calls of an attempt that ends the execution, and of one that does not.
LastScripts == { Tried \o Chain("exit"), StopAsked \o Chain("exit") }

RetryScripts == { WaitAsked, Append(WaitAsked, <<"clock", Asked("clock")>>) }

CallsOf(a) == [k \in DOMAIN trace[a] |-> <<trace[a][k].at, trace[a][k].callee>>]

Executing == stage \notin {"policy", "building"}

(***************************************************************************)
(* Calls are made in one order. Hooks run in the order of registration,    *)
(* whatever was configured in between; the classifier follows the hooks,   *)
(* the stop strategy the classifier; both sides of a composed strategy are *)
(* asked; the wait strategy and the clock are asked only when a retry is   *)
(* certain; exit hooks come last and once; and everything asked is what    *)
(* was last configured, in the builder or else in the policy, also when    *)
(* the policy is used again. A panic or a drop cuts this order short and   *)
(* changes nothing of it (step, Retry::run, HookChain, the builders).      *)
(***************************************************************************)
CallsInOrder ==
    Executing =>
        /\ \A a \in 1 .. attempt - 1 : CallsOf(a) \in RetryScripts
        /\ \E script \in LastScripts \cup RetryScripts : IsPrefix(CallsOf(attempt), script)
        /\ stage = "done" => CallsOf(attempt) \in LastScripts

(***************************************************************************)
(* The caller and the exit hooks learn the same end, and it is the one the *)
(* configured classifier gives the last outcome: an accepted payload is    *)
(* returned, a fatal one aborts, and a retry that was refused is exhausted *)
(* with the whole outcome. After hooks have seen that outcome as it was    *)
(* (step, Exit, RetryError).                                               *)
(***************************************************************************)
EndIsTheLastVerdict ==
    stage = "done" =>
        LET v == Decide(Asked("classifier"), outcome) IN
        /\ v.verdict = "Return" <=> result.result = "Ok"
        /\ v.verdict = "Abort" <=> result.result = "Aborted"
        /\ result.result = "Ok" => result.value = v.carries
        /\ result.result = "Aborted" => LastError(result) = {v.carries}
        /\ result.result = "Exhausted" => LastOutcome(result) = {outcome}
        /\ \A a \in 1 .. attempt : \A k \in DOMAIN trace[a] :
              /\ trace[a][k].at = "exit" => trace[a][k].sees = result /\ a = attempt
              /\ trace[a][k].at = "after" /\ a = attempt => trace[a][k].sees = outcome

(***************************************************************************)
(* "until(ok(is_ready)): a matching Ok returns while any Err keeps         *)
(* polling"; "when(ok(m)): a non-matching Ok returns and an Err aborts";   *)
(* and on the default path no error aborts (predicate::ok, Outcome).       *)
(***************************************************************************)
PredicatesSteer ==
    stage = "done" =>
        LET c == Asked("classifier") IN
        /\ c.by = "default" => result.result # "Aborted"
        /\ c.by = "until" /\ c.predicate.on = "ok" =>
              /\ result.result # "Aborted"
              /\ result.result = "Ok" => result.value \in c.predicate.matcher
        /\ c.by = "when" /\ c.predicate.on = "ok" =>
              /\ outcome.arm = "Err" => result.result = "Aborted"
              /\ result.result = "Ok" => result.value \notin c.predicate.matcher
=============================================================================
