-------------------------------- MODULE Race --------------------------------
(***************************************************************************)
(* The retry future inside a larger task, whose owner may be racing it     *)
(* against a signal: tokio::select! with a CancellationToken or a channel, *)
(* tokio::time::timeout (examples/async-cancel.rs). The task has one waker *)
(* for all its branches; each poll of it polls the branches, and the first *)
(* that is ready settles the race. If that is the signal, the retry future *)
(* is dropped in whatever phase it is pending.                             *)
(*                                                                         *)
(* The library has no part in this but to be pending when it should: what  *)
(* is at stake is that a loop that always has something to do still lets   *)
(* the other branch be polled and the signal be sent.                      *)
(***************************************************************************)
EXTENDS AsyncEngine

CONSTANT Races      \* how the owner waits: "none", "select", "timeout"

ASSUME RaceAssumption == Races \subseteq {"none", "select", "timeout"}

VARIABLES
  race,             \* one of them, and
  oneThread,        \* whether all tasks and timers share one thread: both fixed
  todo,             \* the branches this poll of the task has still to poll
  fired,            \* the signal has been given
  listening,        \* the waker the signal's future holds
  late              \* history: attempts begun since it fired (up to 2)

ownerVars == <<race, oneThread, todo, fired, listening, late>>
raceVars == <<vars, ownerVars>>

RaceInit ==
    /\ Init
    /\ race \in Races /\ oneThread \in BOOLEAN
    /\ todo = {}
    /\ fired = FALSE /\ listening = None
    /\ late = 0

Branches == IF race = "none" THEN {"future"} ELSE {"future", "signal"}

\* The executor polls the task.
Resume ==
    /\ Live /\ todo = {}
    /\ Scheduled
    /\ todo' = Branches
    /\ UNCHANGED <<policy, debug, now, phase, elapsed, loop, task, op, timer, stats,
                   history, race, oneThread, fired, listening, late>>

\* The task polls the retry future: select! in any order, timeout first.
PollFuture ==
    /\ "future" \in todo
    /\ Enter
    /\ UNCHANGED <<executor, ownerVars>>

\* The turns of its poll(); pending, it is done with for this poll of the task,
\* and ready, the task is.
FutureTurn ==
    /\ Turn
    /\ todo' = CASE task' = "polling" -> todo
                 [] task' = "idle"    -> todo \ {"future"}
                 [] OTHER             -> {}
    /\ late' = IF fired /\ phase = "ReadyToStart" /\ phase' = "Polling"
               THEN Least(late + 1, 2) ELSE late
    /\ UNCHANGED <<race, oneThread, fired, listening>>

Panics ==
    /\ Unwind
    /\ todo' = {}
    /\ UNCHANGED <<race, oneThread, fired, listening, late>>

\* The task polls the signal, which it finds pending; or given, and the retry
\* future is dropped.
PollSignal ==
    /\ "signal" \in todo
    /\ task = "idle"
    /\ race = "timeout" => "future" \notin todo
    /\ \/ /\ ~fired
          /\ listening' = waker
          /\ todo' = todo \ {"signal"}
          /\ UNCHANGED vars
       \/ /\ fired
          /\ Drop
          /\ todo' = {}
          /\ UNCHANGED listening
    /\ UNCHANGED <<race, oneThread, fired, late>>

\* The task itself is aborted between two polls of it.
Abort ==
    /\ todo = {}
    /\ Drop
    /\ UNCHANGED ownerVars

-----------------------------------------------------------------------------
\* What is not this task happens at any time, or between its polls only.
Elsewhere == oneThread => todo = {}

SignalFires ==
    /\ Live /\ race # "none"
    /\ ~fired
    /\ Elsewhere
    /\ fired' = TRUE
    /\ Wake(listening)
    /\ listening' = None
    /\ UNCHANGED <<policy, debug, now, phase, elapsed, loop, task, waker, op, timer, stats,
                   history, race, oneThread, todo, late>>

OperationAnswers == Elsewhere /\ OperationCompletes /\ UNCHANGED ownerVars

TimerElapses == Elsewhere /\ TimerFires /\ UNCHANGED ownerVars

TimePasses == Tick /\ UNCHANGED ownerVars

Over == Rest /\ UNCHANGED ownerVars

RaceNext ==
    \/ Resume \/ PollFuture \/ FutureTurn \/ PollSignal \/ Panics \/ Abort
    \/ SignalFires \/ OperationAnswers \/ TimerElapses \/ TimePasses \/ Over

\* A task that runs goes on; the executor polls it once it has been woken, and
\* gives what else is ready a turn between two of its polls, again and again;
\* time passes. An operation is sure to complete only if nothing would cut it
\* short.
RaceSpec ==
    /\ RaceInit /\ [][RaceNext]_raceVars
    /\ WF_raceVars(woken /\ Resume)
    /\ WF_raceVars(PollFuture \/ FutureTurn \/ PollSignal)
    /\ SF_raceVars(SignalFires)
    /\ SF_raceVars(race = "none" /\ OperationAnswers)
    /\ SF_raceVars(TimerElapses)
    /\ WF_raceVars(TimePasses)

-----------------------------------------------------------------------------
\* A parked task will hear of whatever it waits for: no poll of one branch costs
\* the other its waker, and the signal is never given unheard.
TaskIsWoken ==
    (Live /\ todo = {} /\ ~woken) =>
        /\ \/ phase = "Polling" /\ ~opReady /\ opWaker = waker
           \/ phase = "Sleeping" /\ ~timerReady /\ timerWaker = waker
        /\ race # "none" => ~fired /\ listening = waker

\* Once the signal is given no more than one further attempt begins, on an
\* executor where timers and operations do not complete behind the task's back:
\* no poll of the future runs on from one attempt into another.
OneMoreAttempt == oneThread => late <= 1

\* Every poll of the task comes to an end, however little the loop has to wait.
TaskYields == todo # {} ~> todo = {}

\* A race against a signal ends, whatever the policy, even if the operation
\* never completes.
SignalEndsTheRace == race # "none" => Resolves
=============================================================================
