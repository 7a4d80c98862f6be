------------------------------- MODULE Parity -------------------------------
(***************************************************************************)
(* The two engines are twins: "AsyncRun owns the same transition order as  *)
(* the sync `run` loop; the phases exist only because an async attempt or  *)
(* sleep can span multiple polls" (engine/async_engine.rs:9). Whatever an  *)
(* executor does with the future, somebody who sees only the operation,    *)
(* the clock, the hooks and the result could take it for SyncEngine on a   *)
(* thread of its own.                                                      *)
(*                                                                         *)
(* A blocking wait is one step and moves the clock by itself; a polled one *)
(* is many, with the clock moving in between. The auxiliary variable       *)
(* remembers what the blocking engine, still asleep, has not yet seen      *)
(* change.                                                                 *)
(***************************************************************************)
EXTENDS AsyncEngine

VARIABLE before   \* the reading and the counters when the sleep began

Recorded == [now |-> now, previous_delay |-> previous_delay, total_wait |-> total_wait]

\* A step also records where a sleep begins, and forgets it when it is over.
Remember ==
    before' = IF phase' # "Sleeping" THEN None
              ELSE IF phase = "Sleeping" THEN before ELSE Recorded

ParityInit == Init /\ before = None

ParityNext == Next /\ Remember

ParitySpec == ParityInit /\ [][ParityNext]_<<vars, before>>

-----------------------------------------------------------------------------
Asleep == phase = "Sleeping"

\* Where the blocking engine is while the future lives.
At == [ReadyToStart |-> "Before", Polling |-> "Op", Sleeping |-> "Sleep", Yielding |-> "Before"]

\* Where it is: a future that never came to its end has unwound.
Control ==
    IF phase = "Done" THEN "Done"
    ELSE IF origin = None THEN "Ready"
    ELSE IF Live THEN At[phase] ELSE "Unwound"

\* The counters move when a blocking wait is over, and at once with no wait.
Twin == INSTANCE SyncEngine WITH
    pc             <- Control,
    now            <- IF Asleep THEN before.now ELSE now,
    origin         <- IF origin = None THEN 0 ELSE origin,
    attempt        <- IF phase = "Yielding" THEN NextAttempt(attempt) ELSE attempt,
    previous_delay <- IF Asleep THEN before.previous_delay ELSE previous_delay,
    total_wait     <- IF Asleep THEN before.total_wait ELSE total_wait,
    delay          <- IF Asleep THEN previous_delay ELSE 0

\* Every behaviour of the asynchronous engine is one of the synchronous engine:
\* the same attempts, readings, delays, counters, stats and exits, in the same
\* order; a dropped future is a run that unwinds where it stands.
ImplementsSyncEngine == Twin!Spec
=============================================================================
