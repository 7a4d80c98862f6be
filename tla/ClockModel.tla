----------------------------- MODULE ClockModel -----------------------------
(***************************************************************************)
(* The clock a caller injects: one time source that is both read (now) and *)
(* waited on. What the engines may rely on is the contract of the Clock    *)
(* traits; which parts of it a given clock keeps is a parameter here:      *)
(*                                                                         *)
(*   Monotone  now() never decreases;                                      *)
(*   Grain     the waits are rounded DOWN to a multiple of Grain. A clock  *)
(*             that keeps the contract has Grain = 1; GlooClock and        *)
(*             EmbassyClock hand their runtime whole milliseconds and      *)
(*             microseconds; with Grain > DurMax waiting moves nothing.    *)
(*                                                                         *)
(* The variable that holds the reading belongs to the engine's module.     *)
(***************************************************************************)
EXTENDS Durations

CONSTANTS
  Monotone,
  Grain,
  Drift       \* bound: how much time may pass outside the granted waits

ASSUME ClockAssumption ==
    /\ Monotone \in BOOLEAN
    /\ Grain \in Nat \ {0}
    /\ Drift \in Nat

\* The clock keeps every promise of the Clock, SyncClock and AsyncClock docs.
ContractClock == Monotone /\ Grain = 1

\* Readings within the bound, when the engine has granted `waited` in total.
Horizon(waited) == { t \in Duration : t <= Drift + waited }

\* What now() may return next if it last returned `now`.
Readings(now, waited) == { t \in Horizon(waited) : Monotone => t >= now }

\* The time the runtime's timer is really armed for.
WaitLength(dur) == IF Grain = 1 THEN dur ELSE dur - (dur % Grain)

\* What now() may return when a wait of `dur` begun at `now` has completed.
ReadingsAfterWait(now, dur, waited) ==
    { t \in Readings(now, waited) : Monotone => t >= now + WaitLength(dur) }
=============================================================================
