# A verification development for relentless

`relentless` is a library of composable retry policies: an operation is called
until a classifier accepts or rejects its outcome, a stop strategy gives up or
a timeout is spent, and between the calls a wait strategy says how long to
wait on an injected clock. Two engines drive the loop, a blocking one and a
poll-driven one.

This directory holds TLA+ models of that loop, the TLC configurations that
check them on small instances, and theorems about them that TLAPS checks for
every value of the constants. `PROJECT.json` maps every definition to the
lines it models and lists the hazards the properties are for.

## 1. Inventory

| Part | Source (under `src/src`) | State | Operations |
|---|---|---|---|
| Synchronous engine | `engine/sync_engine.rs` | `attempt`, `previous_delay`, `total_wait` on the stack of `run` | `call` |
| Asynchronous engine | `engine/async_engine.rs` | the fields of `AsyncRun`: `phase`, the same counters, `elapsed` | `poll`, drop |
| Decision step | `engine/step.rs` | none | `step` |
| Elapsed watermark | `engine/elapsed.rs` | `origin`, `highest` | `start`, `read` |
| Clocks | `clock/` | the time; for `VirtualClock` a cell and a record of waits | `now`, `wait`, `wait_async` and the future's `poll`, `advance` |
| Stop strategies | `stop/` | none (a user's may have some) | `should_stop` |
| Wait strategies | `wait/strategies.rs`, `wait/composition.rs` | none | `next_wait` |
| Jitter | `wait/jitter.rs` | a 64-bit generator state per instance, a global nonce counter | `next_wait`, `with_seed`, `with_nonce`, `clone` |
| Classifiers | `decision.rs`, `predicate/` | none | `decide`, `should_retry` |
| Hooks | `engine/hooks.rs` | the chain of closures at each of three points | `call`, `chain_*` |
| Builders, policy | `policy/mod.rs`, `defaults.rs`, the builder halves of the engines | one slot per configurable part | the setters, `retry`, `retry_async` |
| Results | `engine/error.rs`, `engine/stats.rs`, `engine/termination.rs`, `state.rs` | none | accessors, formatting |
| Callers of the blocking engine | `../examples/sync-cancel.rs`, `polling-terminal-failure.rs`, `custom-outcome.rs` | a cancel flag, the position in a script | the operation, the watchdog |
| Owners of the future | `../examples/async-cancel.rs` | the branches of a task, the signal | poll, signal, drop, abort |

How they interact. `.call()` reads a baseline from the clock. Each attempt
reads elapsed time, fires `before_attempt`, calls the operation, reads elapsed
time again and hands the outcome to `step`, which fires `after_attempt`, asks
the classifier, then (only if it wants to retry) the stop strategy and the
timeout, then (only if they do not object) the wait strategy, and clamps the
delay to what is left of the timeout. A zero delay skips the clock. `step`
either ends the loop, having fired `on_exit`, or returns the delay, and the
engine waits, by blocking or by polling the clock's future.

What is hard:

* *time is read, then used*: the clock moves between the read and its use, and
  a clock may run backwards, stand still, or wait for less than it was told;
* *poll boundaries*: `poll` leaves and re-enters the loop in any phase, with
  another waker each time, woken or not; the future may be dropped in any
  phase, or polled after it has returned;
* *yield*: with a zero delay nobody but the loop itself can wake the task, and
  nobody else in the task, or on its thread, has a turn before it leaves `poll`;
* *cancellation*: a flag set between the operation's check and the next wait, a
  signal that races an attempt, a wait, a yield or the end of the run;
* *two loops*: the engines share `step` but not the loop around it, and users
  rely on their doing the same;
* *counters at their limit*: `u32::MAX` attempts, `Duration::MAX` of waits;
* *panics* out of hooks, operations, strategies, clocks, and out of the
  library's own debug assertion;
* *liveness*: a run bounded by elapsed time alone ends only if every wait
  brings the deadline nearer; a run bounded by nothing must still give the
  executor its thread back.

What makes each part correct is stated as the properties of section 4.

## 2. The modules

| Module | Models |
|---|---|
| `Durations` | `core::time::Duration`: a bounded quantity with saturating arithmetic; `None` |
| `ClockModel` | what an injected clock may return and how long its waits last; its contract, and clocks that break it |
| `Strategies` | the stop and wait strategies, the combinators, the jitter ranges, as sets of possible answers |
| `RetryCore` | `Elapsed` and `step` as operators: `ReadElapsed`, `AssertionFails`, `Endings`, `Delays`, `Clamp`, `StatsFor` |
| `SyncEngine` | `Retry::run`, one action per stretch of the loop between two points where time passes or user code runs |
| `AsyncEngine` | `AsyncRun::poll`, one action per turn of its loop over `phase`, with the executor, the wakers and the two leaf futures |
| `RetryLoop` | the abstract specification both engines implement |
| `Policies` | the nine policies the runs use |
| `Parity` | the asynchronous engine as an implementation of the synchronous one |
| `SyncCallers` | the blocking engine with operations that have a memory: the cancel flag and the scripted pollers of the examples |
| `Race` | the asynchronous engine as one branch of a task that races it against a signal (`select!`, `timeout`, abort), with the executor's threads |
| `MCSync`, `MCAsync`, `MCRace` | the above with those policies, for TLC |
| `Callbacks` | every call of user code, one at a time: hook chains, operation, classifier, stop, wait, clock; the builders and the policy that configure them |
| `Classifiers` | outcomes, predicates, `when`/`until`/`decide`, verdicts and what of them `RetryError` keeps, as operators |
| `JitterRng` | the generator of `Jittered`, its seeds and nonces, clones, and the threads that share an instance |
| `ClockAdapters` | the clocks of the crate with the units of their runtimes, and `VirtualClock` with its wait futures |
| `WaitMath` | the square-and-multiply loop of the exponential backoff, with overflow |
| `MCCallbacks`, `MCJitter` | inputs for `Callbacks`; small words and the bitwise operators for `JitterRng` |
| `StrategiesProofs` | induction over the natural numbers, powers, and what the strategies can answer |
| `RetryCoreProofs` | lemmas about the arithmetic, the readings and the step |
| `SyncEngineProofs`, `AsyncEngineProofs` | theorems about the engines, their callers and their owners, and the two engines as twins |
| `CallbacksProofs`, `JitterRngProofs`, `ClockAdaptersProofs`, `WaitMathProofs` | theorems about the other machines |

`SyncEngine` and `AsyncEngine` extend `RetryCore`, as the two engines of the
library share `step` and `Elapsed`; everything that concerns a decision is
written once.

**State.** In `SyncEngine`, `attempt`, `previous_delay`, `total_wait` are the
locals of `run`, `origin` and `highest` the fields of `Elapsed`, `delay` is
the delay of `Step::Continue` while it is slept, and `pc` says where the
thread is. In `AsyncEngine`, `phase` is `AsyncRun::phase`; `opReady` and
`opWaker` are the operation's future, `deadline`, `timerReady` and
`timerWaker` the clock's; `waker` is the waker of the latest poll and `woken`
whether it has been woken since. `now` is the reading of the injected clock,
`policy` the configuration, `debug` whether debug assertions are compiled in. `calls`, `slept`, `exits` and `aimed` are
history: properties read them, no guard does.

**Actions.** The bodies of the loop are cut where something else can happen:
the clock may move (`Tick`) between any two actions, and in the asynchronous
engine the operation may complete, the timer may fire, and between polls the
executor may poll again or the owner may drop the future. The decision step is
one action together with the engine's handling of it (`Finish`, `Retry`), as
neither time (it is not read again) nor other threads can influence it; a
panic of user code called by it is `Unwind` from the state before it, with
`on_exit` fired or not.

**Composition.** `SyncCallers` and `Race` reuse the engines' actions whole.
`SyncCallers!OpReturns` is the engine's `FinishOn` or `RetryOn` with the
verdict the caller's outcome leads to, `Verdicts`; `loaded` is what the
operation of the current attempt read of the flag, `cancelled` the flag as this
thread sees it (it is stored and loaded `Relaxed`; the time a store needs to
arrive is before `SetFlag`). In `Race` a poll of the task puts every branch in
`todo`, and polling a branch, whose waker is the task's, takes it out: the
future by the engine's own `Turn`s, the signal by `PollSignal`, which drops the
future if the signal is there. `oneThread` says that signals, timers and
operations share the task's thread, as on a `current_thread` runtime: they then
happen only between its polls (`Elsewhere`). `select!` polls in either order,
`timeout` polls the future first.

`Parity` reads the asynchronous engine as the synchronous one: `phase` as `pc`,
a future that is dropped as a run that unwinds. A blocking wait is one step
there and many here, so `before` remembers the reading and the counters at its
start and shows them until it is over. The mapping lets nothing be hidden but
polls, wakers and leaf futures: the same policy, readings, watermark, counters,
calls, waits and stats, in the same order. What is stated of `SyncEngine` alone
(waits within the timeout, one attempt at the deadline, a spent budget, a
counter that counts calls) holds of `AsyncEngine` through it and is not stated
twice; what only a future can do wrong is stated of it: that nothing is
reported when it is dropped or panics (`StatsTellTheTruth`), and in `Race` that it is
woken and gives its thread back.

**The other machines.** `Callbacks` is the same loop at another grain: time is
gone (whether the timeout has passed is a free choice) and every single call of
user code is an action, so that the order of calls, what each callee sees, and
a panic between any two of them can be talked about. Its history `trace` has,
for each attempt, the calls made in it, and is compared with scripts written
from what the user *asked for* (`requests`, `policyRequests`: `Asked` is the
last request for a slot, else the policy's, else the default), not from what
the builder holds; `user` says which setters
the execution may use and how many attempts it may come to. In `JitterRng`,
`jittered` holds the instances, `counter` is `JITTER_NONCE_COUNTER`, `call` what
each thread does inside `next_wait`, and `target` the platform compiled for:
where it has 64-bit atomics a draw is one `FetchAdd`, elsewhere `Load` and
`Store` of a `Cell`, and then the type is not `Sync` and one thread at a time
holds it (`Shareable`). In `ClockAdapters`, `adapter` is the clock in use,
`time` the hardware's (or the virtual cell), `future` the wait futures, `waits`
the record of `VirtualClock`; `advanced` and `asked` are history, what `advance`
and the blocking `wait` were given. A poll of `VirtualClock`'s future is one
action, `PollVirtual`, whether the future is fresh, done or polled again. In `WaitMath`, one step is one turn of
`pow_nonnegative_f64`, and its result is compared with the operator
`WaitExponential` of `Strategies`, so the engines' abstraction of the backoff is
itself checked; `AnswersInRange` does the same for jitter. `Pow`, the exact
power the answer is measured by, is a recursive function.

**Data.** An outcome is reduced to the verdict the classifier gives it, which
may be any of the three for any attempt, in the engines: every classifier and
every operation is covered. In `Callbacks` it is an arm with a payload, and
predicates are sets of payloads. A strategy is the *set* of answers it may give to a `RetryState`,
so jitter is covered without its generator, and `custom` stands for any
user-written strategy, stateful ones included. Durations are whole numbers up
to `DurMax`; the base of an exponential wait is a whole number.

## 3. The clock

`Monotone` and `Grain` select which half of the contract in `clock/mod.rs`
the clock keeps. With `Monotone` false `now` may take any value at any time.
With `Grain` above 1 a wait is rounded down to a multiple of `Grain`, as
`GlooClock` (milliseconds) and `EmbassyClock` (microseconds) do; with a
`Grain` above `DurMax` waiting moves nothing, a clock that stands still.
`ContractClock` is `Monotone` with `Grain = 1`. The clocks the crate ships are
modelled one by one in `ClockAdapters`.

Time that passes outside the granted waits is bounded by `Drift`: the reading
never exceeds `Drift` plus the waits granted so far. A wait that would end
past `DurMax` never ends (the real one lasts longer than any machine).

## 4. What the runs check

| Run | Clock | Properties |
|---|---|---|
| `SyncContract` | keeps its contract | `TypeOK`, `WaitWithinTimeout`, `AttemptsLimited`, `FinalAttemptAtDeadline`, `ImplementsFairRetryLoop`, `BoundedTerminate`; of callers: `CancelLatency`, `CancelIsAborted`, `FlagEndsTheRun`, `FirstSettledOutcome`, `BudgetIsSpentExactly` |
| `SyncBackwards` | jumps, truncates; debug and release | `StatsTellTheTruth`, `SpentBudgetIsFinal`, `DebugReadsAreTrue`, `LimitedTerminate` |
| `AsyncContract` | keeps its contract | `TypeOK`, `StatsTellTheTruth`, `ImplementsSyncEngine` |
| `AsyncBackwards` | jumps, truncates; debug and release | `ImplementsSyncEngine` |
| `AsyncRace` | keeps its contract | `TaskIsWoken`, `OneMoreAttempt`, `TaskYields`, `SignalEndsTheRace`, `BoundedResolve`, `ImplementsFairRetryLoop` |
| `AsyncTruncated` | truncates its waits | `FinalAttemptAtDeadline` is **violated** |
| `AsyncCancel` | keeps its contract | `CancelledBetweenAttempts` is **violated** |
| `CallbackOrder` | left out | `TypeOK`, `CallsInOrder`, `EndIsTheLastVerdict`, `PredicatesSteer` |
| `JitterShared` | none | `TypeOK`, `DistinctDraws`, `SameOriginSameSequence`, `FreshInstancesDiffer`, `AnswersInRange` |
| `JitterStdNonce` | the wall clock, in the nonce | `FreshInstancesDiffer` is **violated** |
| `Adapters` | each clock of the crate | `TypeOK`, `CompletedWaitIsReflected`, `VirtualTimeAddsUp`, `OneRecordPerWait` |
| `WaitPower` | none | `OverflowIsDeserved`, `DelayIsThePower` |

The passing runs show: what each engine guarantees with a sound clock; that
the watermark protects the budget from a clock that jumps back, alone in a
release build, with the assertion's help in a debug build; that the
asynchronous engine gives the thread back and is woken when it must be; what
user code sees, in which order; that the two engines are interchangeable, on
sound clocks and on broken ones; that a flag or a signal ends a run promptly,
with the end it should have, whatever the policy; that jitter instances shared, cloned or seeded
draw what they should; that each shipped clock has moved by what it was asked
when its wait completes; that the backoff's power loop overflows only when the
delay does.

`RetryLoop` is what both engines promise: attempts and waits alternate, the
waits add up to no more than the budget, a wait may be announced as the last
and then nothing but one attempt follows it, and an execution ends once. The
refinement mapping reads `granted` off `total_wait` and `last` off `aimed`
(the delay was cut to end exactly at the deadline); with a clock that breaks
its contract the budget promise is void and the mapping says so. The mappings
stand in `SyncEngine` and `AsyncEngine` (`Loop`).

**Bounds.** `AttemptMax` 3 or 4 makes the saturation of the attempt counter
happen; `DurMax` is 4 to 16. A single delay is seen to saturate in `WaitPower`.
`total_wait` saturates at `DurMax` in `SyncBackwards` and `AsyncBackwards` only,
where the policy `attempts` has waits of more than half of it
(`PolicyLongWaits`): on a clock that keeps its contract the second of them would
never be over, on the clocks of these two runs, and on a `VirtualClock`, it is.
`Deadline` 2 to 4 against waits from 1 to
`DurMax` makes delays fall short of, on, and beyond the deadline, with
`Drift` of slow operations in between; `Limit` is above, at and below what the
deadline allows. Two wakers are enough for a waker to be stale. `calls` is
counted up to `AttemptMax + 1`, `lateCalls`, `lateWaits` and `late` up to 2, one
more than their properties allow.

`Callers` are any operation, a flag and scripts; the `Scripts` are those of the
examples by their verdicts: one that settles, one that fails terminally with
something after it, one that never settles and is repeated. `Races` are none,
`select!` (a token and a channel are the same to it) and `timeout`. `AsyncRace`
has all nine policies with `DurMax` 4 and `Deadline` 2: enough for a zero delay,
a sleep, and a wait that ends on the deadline.

In `Callbacks`, each of three users may make two or three builder calls
(`requests`), giving chains of up to three hooks with anything configured in
between; from the user's `attempts` on the stop strategy answers yes, so that
two attempts with every mix of answers are seen. `JitterRng` uses words of 4
values with an odd increment: the stream has full period, as SplitMix64's has,
and nonces, seeds and states do collide if the code lets them; durations up to
5 make ranges as wide as a word occur, where `max + 1` wraps, and wider ones. `MaxDraws` bounds the draws of an
instance, `MaxNonces` the nonces; two instances and two threads are enough for
a shared and a cloned generator. In `ClockAdapters` the milliseconds,
microseconds and ticks are a few nanoseconds long and do not divide each other;
what a completed wait is compared with is what it is `Owed`: the part of the
request the adapter hands on, `Kept`, whole milliseconds for `GlooClock` and whole
microseconds for `EmbassyClock` (what the dropped rest leads to is
`AsyncTruncated`), or, if that is less, the `Longest` wait the platform has: the
largest timeout of a browser, the last tick of Embassy, what Tokio has left before
its last instant (`InstantMax`) or the far future it waits for beyond it
(`FarFuture`). Waits beyond these are asked for, and end no earlier. `SystemClock` has an `anchor` that
its first reading sets, before or after other threads have begun to wait.
`MaxTime` bounds the hardware's time, `MaxVirtual` the recorded waits and
`advance`. `WaitMath` has bases and attempts up to 8, against `FloatMax` 100.

**Fairness.** `SyncCallers!CallerFairSpec`: the thread is scheduled, the
operation and `clock.wait` return (`WF(CallerStep)`); nobody is bound to set a
flag. `Race!RaceSpec`: a poll of the task that runs goes on (`WF` of its turns)
and the executor polls a task that has been woken (`WF`; it need not poll
otherwise). What else happens is given its turn between two polls, again and
again, and that is `SF`: a task that wakes itself at each poll disables timers
and signals on a one-thread executor over and over, never for good. So a poll
that never ended would keep them from happening for ever, and `SF` does not
help it. An operation is bound to complete only if nothing races the future
(`race = "none"`): a cancelled one may hang. Nothing is assumed of user
strategies, of the choice of wakers, of spurious polls, and nobody is bound to
drop or abort. The engines' own steps need no more than this from a caller:
`ImplementsFairRetryLoop` is checked under it in both.

`BoundedTerminate` and `BoundedResolve` claim the end of every run that is
limited by attempts or by elapsed time: all but `spin` (never stops, never
waits), which must still return from each poll (`TaskYields`) and end when a
signal says so (`SignalEndsTheRace`). `LimitedTerminate` claims the end of the
runs limited by attempts whatever the clock does; a limit on elapsed time alone
is worth nothing on a clock that does not advance.

**Divergences found.** `AsyncTruncated`: the specification says a clamped wait
ends at the deadline and one final attempt is made there; with the shipped
`GlooClock` the timer is armed for whole milliseconds and the deadline is not
reached, so further delays and attempts follow. `AsyncCancel`: the crate
documentation says a running operation or sleep is never interrupted
mid-flight; dropping the asynchronous future drops whichever of the two it
holds, as the documentation's own bullet on async cancellation says a few lines
below: it is the general sentence that is too wide, not the code. `JitterStdNonce`: with `std` the nonce is the counter xor the wall
clock, which is not unique, as `with_nonce` documents it to be.

Read in the source, without a run of their own: without `std` a clone may
receive the nonce that `with_nonce` gave the original, where `docs/SPEC.md`
3.3.4 says it diverges; the clock can be set twice, which 6.3.2 rules out; and
builders that borrow from a policy take overrides, which 6.3.1 says and
"Compile-fail guarantees" denies. The models follow the code in all three.

## 5. What is proved

Every safety invariant and action property that a passing run checks is proved
for every value of the constants; what is left to TLC is named at the end of
this section. The theorems assume what the modules assume of their constants and
nothing else, except where a hypothesis is named here.

**The strategies** (`StrategiesProofs`; any `DurMax`). The induction theorems of
the library take an operator as a parameter, which the provers cannot
instantiate. `NumbersAreReached` says induction of *sets* instead: a set that has
0 and the successor of each of its numbers has every natural number, as
otherwise the least one missing (well-foundedness of `<`) would have a
predecessor in it. Each induction below defines the set of the numbers its claim
holds of. `PowersExist` and `PowersAgree` make a recursive function of it
(`Pow`), and `PowCases`, `PowType`, `PowOfSquare` are its laws.
`JittersKeepTheirRanges`: the four jitters answer durations, in the ranges their
documentation states, whatever wait they are wrapped around; `WaitsAnswer`,
`StopsAnswer` and their counterparts for the combinators say that no strategy of
the library is ever without an answer.

**The decision step** (`RetryCoreProofs`; any `Policy`, `Timeout`,
`StopAnswers`, `WaitAnswers`, `DurMax`, `AttemptMax`, `Drift`, `Grain`,
`Builds`). The saturating arithmetic stays in `Duration`; a reading of elapsed
time is never below the watermark; a delay the step grants is at most what is
left of the timeout and is granted only before the deadline
(`DelaysWithinTimeout`).

**The synchronous engine** (`SyncEngineProofs`, the same constants).

* For any clock: `TypeCorrect`, `StatsCorrect`, `BudgetNotRefunded`,
  `DebugReadings`. The inductive invariant is `IInv`: `TypeOK` and `Bookkeeping`, which ties the
  attempt counter to the number of calls at each control point and `total_wait`
  to the time slept. `TypeOK` alone is not inductive (`exits` could already be 1
  when `on_exit` fires). `StatsCorrect` speaks of every run: one that has returned
  reports what happened, saturations included; one that has not, panicked or
  not, has reported nothing, and `on_exit` has been called before a panic only at
  the end of an attempt.
* Under `ContractClock`: `WaitsBounded` and `OneAttemptAtDeadline`. The
  strengthening is `TimeoutInv`: the watermark is a true reading (`origin +
  highest <= now`), what has been granted has been waited (so that granted waits
  stay below elapsed time plus the wait in progress), and a delay aimed at the
  deadline ends at or after it.
* `ImplementsRetryLoop`: `Spec => Loop!Spec`, for any clock. Each action maps to
  a step of `RetryLoop` or to none; that the promised waits stay in the budget
  comes from `TimeoutInv`, which holds where the mapping claims it, on a clock
  that keeps its contract.
* `LimitIsKept`: at most `Limit` calls. The policies are those of `Policies`
  (`PolicyStopsAreUsed`, as every configuration has it), `Limit` is a `u32` of at
  least 1 as `stop::attempts` asserts, and the composed policy, which also asks
  for two attempts, is not combined with a limit of 1. The invariant
  (`LimitInv`) is that the loop goes round only while another call is allowed;
  it needs `Bookkeeping`, as the strategy counts in `attempt` and the promise in
  calls.
* `BudgetExactlySpent`: under `ContractClock`, a run that only its timeout ends
  and that nothing but its waits moved the clock of has waited for exactly the
  timeout. `TimeoutInv` is one half (no more), `ExhaustedByTimeout` the other:
  such a run is exhausted only by a reading at or past the deadline.
* `AttemptsRunOut`, `TimeRunsOut`, `TimedPoliciesRunOut`, `ElapsedRunsOut`: what of
  termination is safety. `AttemptRank` (three steps to a call that is left),
  `BudgetRank` (three to a unit of the timeout that has not been granted) and
  `ElapsedRank` (the same, to the deadline of `stop::elapsed`) are natural numbers
  that every `Step` of the engine lowers and nothing raises. A run limited by
  attempts takes at most `3 * Limit + 2` steps, on any clock. A run with a timeout
  runs out of steps under `ContractClock` if its waits are never zero
  (`TimedPolicies`: `deadline`, `feedback`, `zero`, `custom`; that a wait which is not
  zero is never clamped to zero is `DelaysAreLonger`). The policy `elapsed` may wait
  not at all after its first attempt; for this one round the rank has a reserve,
  and `AttemptMax` has to be more than 1, or the counter would stay at the first
  attempt. So every policy but `spin` runs out of steps; what `BoundedTerminate`
  adds is that a thread which can step does.
* `PoliciesAnswer`: the nine configured policies satisfy what the engines assume
  of the answers of any policy (`RetryAssumption`), so that assumption is met by
  the library's own strategies.

**Its callers** (`SyncEngineProofs`, any `Callers` and `Scripts`, any clock).
Every run of a caller is a behaviour of `SyncEngine` (`CallersAreEngines`), so
all of the above holds of the runs `SyncContract` and `SyncBackwards` check; and
`CancellationIsPrompt`, `CancellationIsAborted`, `PollersHearEachOutcome`.
`FlagInv` says where a late attempt and a late wait can be: the one attempt
that begins after the flag is set has read it, and the one wait that does was
granted to an attempt that had not. `ScriptInv` says that whatever has been
heard before the current call was to be retried.

**The asynchronous engine** (`AsyncEngineProofs`; any executor, any wakers).

* For any clock: `TypeCorrect`, `StatsCorrect`. The invariant adds `Counters`
  (the attempt counter is ahead of the calls in `ReadyToStart` only, and a
  granted wait is not yet slept in `Sleeping` only) and `Phases` (which phases
  go with which state of the future, and where `on_exit` can have fired) to
  `TypeOK`: a poll may leave the loop in the middle, and what the report will
  say has to be right in every phase it can be left in.
* Under `ContractClock`: `OneAttemptAtDeadline`, from the same three facts as in
  the synchronous engine, where `Covered` says by what a granted wait is paid
  for in each phase: by time gone, or by a timer that is not due yet.
* `ImplementsRetryLoop`, for any clock.

**The engines are twins** (`AsyncEngineProofs`): `EnginesAreTwins` is
`ParitySpec => Twin!Spec`, for any clock and policies. Each turn of a poll is
one step of the synchronous engine or none. `SleepInv` says what the wait in
progress has to do with the record of its beginning (the loop has counted the
delay, and if the clock only moves forward it has moved by at least the wait
once the timer is ready), which is what the single step `WakeUp` there needs
when the wait is over here; `HorizonInv` keeps the readings within the bound
that `SyncEngine` takes them from. With it the theorems about `SyncEngine!Spec`
are theorems about the asynchronous engine, raced or alone (see below): `Sync`
instantiates `SyncEngineProofs` with the mapping, and `FutureNeverRefunds`,
`FutureKeepsBudget`, `FutureRunsOutOfAttempts` and `FutureRunsOutOfTime` state its
results of the future (a poll that finds nothing ready is not a step of the loop;
it leaves the ranks alone). Their hypotheses are those of the theorems they come
from.

**Owners of the future** (`AsyncEngineProofs`; any executor, branches polled in any
order, one thread or many).

* `WakersAreNotLost`: a task that sleeps has left the waker of its last poll
  with everything it waits for. `FutureHeard` and `SignalHeard` say this for a
  branch once it has been polled (it is no longer in `todo`) and unless the
  task has been woken since; the phase says which leaf future holds the waker.
* `OneAttemptOnOneThread`, for an executor with one thread, where timers and
  operations do not complete while the task is polled (on several threads more
  attempts may begin, and nothing is claimed): the invariant `LateInv` says that
  there, where the signal is only given between polls, the poll that follows still has
  it to poll, and that an attempt begun in that poll before the signal's turn
  cannot be followed by another (`Overdue`): it is in flight, or asleep before
  its timer.
* `RacedStatsCorrect` and `RacedLoopIsARetryLoop`: as the steps of a race are
  steps of the future (`RaceSteps`), what was proved of it alone holds.
* `RacedEnginesAreTwins`: `RacedSpec`, which is the safety part of `RaceSpec` with
  the record `before` of `Parity` added, implements `SyncEngine` by the same
  mapping. Of the race's own steps only the first poll of the future is a step of
  the twin (`Call`).

**Callbacks** (`CallbacksProofs`; any users, outcomes, predicates, strategies,
lengths of chains, numbers of attempts). `TypeCorrect`, `CallsKeepTheOrder`,
`EndIsTheVerdict`, `PredicatesSteerTheEnd`. The properties compare the calls
with what was *asked for*; the invariant compares them with what the builder
*holds*, and `PolicyInv` and `BuilderInv` say that the two agree: each slot has
its last request, each chain one hook per request, in order. `MadeInv` is then
the heart: what has been called in this attempt, followed by what the queue
still holds, is the script up to the current stage (a panic or a drop leaves a
prefix), and `PastInv` says that every attempt before it ran its whole script.
`StopInv` keeps the answers of a composed strategy with the parts that gave
them, `VerdictInv` the end with the verdict on the last outcome, `SightInv` what
hooks saw with both. `StrategiesAssumption` is that the parts of strategies have
names and that a stop strategy has at least one part. TLC found the invariant
true of every reachable state of `CallbackOrder` before it was proved.

**The generator** (`JitterRngProofs`; any word size, threads, instances, seeds).

* `DrawsAreDistinct`, `SeedPinsSequence`. The `k`-th state drawn from a
  generator started at `s` is `After(s, k)`, `s + k * Gamma` modulo the word, and
  `StreamInv` is that every instance has drawn just these, from the start its
  label gives. `UserInv` is why threads cannot disturb it: where a draw is a
  `Load` and a `Store`, one thread at a time has the instance, and the value it
  has loaded is still there. The draws then differ because `Gamma` has full
  period (`GammaAssumption`, which an odd number modulo a power of two has).
* `FreshInstancesKeepApart`, on targets whose nonces are those of the counter:
  instances of one seed differ in their `n`-th state, for each `n`. (They walk one
  cycle of states, so one does come, later, to where another has been.) Where the wall clock is mixed into it the property is false
  (`JitterStdNonce`), and the hypothesis cannot be dropped. `NonceInv` says that
  the counter has passed every nonce given out and gave none twice;
  `XorAssumption` (xor cancels) makes different nonces different starts. The
  counter does not come round: `MaxNonces` is at most the largest word.
* `AnswersKeepTheRange`, for every word and every duration: each kind of jitter
  answers what `Strategies` allows it, so the engines' proofs, which take any of
  those answers, cover the generator.
* `TypeCorrect`. `DrawsInv` counts the threads that have still to draw
  (finitely many, `IsFiniteSet(Threads)`), as the bound is tested when a call
  begins and met when it ends.

**The adapters** (`ClockAdaptersProofs`; any lengths of ticks, microseconds and
milliseconds, any ceilings). `TypeCorrect`, `WaitsAreReflected`,
`RecordsAreMadeOnce`. `TimerInv` says that the timer of a wait in progress is
armed for a moment whose *reading* is late enough; the lemmas before it are
about the roundings on the way there (up to a tick, down to a reading), and
that the two together lose nothing. `AnchorInv` says that the anchor of
`SystemClock` is set before anybody waits. `TimeIsTheSum`: the virtual clock
reads the sum of its record and of what it was advanced by. `RecordsAreMadeOnce`
follows from the steps: one that is not `Unrecorded` (time, record and requests as
they were) is `Recorded` (one future completed, or one blocking wait, time moved
by what it asked for, saturated, and one entry made of it). The record has any
length, so the laws of `Total` (it is no more than the sum when it saturates, and
appending a wait adds it) are inductions over it; the invariant is the property
itself, together with `IInv`, which bounds a wait by what may be asked for.

**The power loop** (`WaitMathProofs`; any base, initial delay and attempt, any
largest float that is at least the longest duration). `BackoffIsExponential`:
`product * factor ^ exponent` is the power asked for in every turn, so what the
loop ends with is that power. `NoEarlyOverflow`: squaring runs ahead of the
result, and a square beyond the floats is harmless only because it will be used.
The invariant (`LoopInv`) is that between two turns there is something left to
do and that neither factor nor product is 0, so that such a square is a divisor
of the power.

**Only model-checked.** Liveness (`BoundedTerminate`, `LimitedTerminate`,
`BoundedResolve`, `TaskYields`, `SignalEndsTheRace`, `FlagEndsTheRun`,
`ImplementsFairRetryLoop`): fairness and `ENABLED` are out of the proof system's
reach. The safety part of the last one is proved of both engines, and so is that
of the first three: the ranks. No property is model-checked only because of data:
the inductions are those of `StrategiesProofs` and `ClockAdaptersProofs`.

## 6. Not modelled

Formatting, `Debug`, forwarding impls, feature gates and type inference: no
state. The rounding of `f64`, so fractional bases and the last digits of large
delays. The quality of SplitMix64's mixing, beyond that its output is a
function of its state. A waker call or a strategy that re-enters the future
(the borrow checker forbids it).

## 7. Plan

Done: the core (durations, strategies, the step, both engines, `RetryLoop`),
the callbacks and builders, the jitter generator, the clock adapters, the
power loop; the engines as twins, the callers of one and the owners of the
other; the theorems of section 5: every invariant and action property of the
runs, the refinements of `RetryLoop` by both engines and of the synchronous
engine by the asynchronous one, what follows of the one from the other, and the
safety half of termination.

Left: fractional bases of the exponential backoff, which need a model of rounding
in `f64` before anything can be said of them.

New properties of parts already modelled belong in the runs there are: each
run asks one question of one part of the system, on one kind of clock.
