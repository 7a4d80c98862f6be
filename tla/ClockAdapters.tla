--------------------------- MODULE ClockAdapters ----------------------------
(***************************************************************************)
(* The clocks of the crate, each with the units of its runtime: what they  *)
(* read, what they arm a timer for, and when a wait has completed. The     *)
(* contract of the Clock traits, which the engines are checked against     *)
(* (ClockModel), is what these clocks owe.                                 *)
(*                                                                         *)
(*   "system"   SystemClock: a blocking sleep, and readings from an anchor *)
(*              that the first of them sets for the whole process          *)
(*   "futures"  FuturesTimerClock: the duration goes to the timer as it is *)
(*   "tokio"    TokioClock: likewise, unless the deadline is beyond what   *)
(*              an Instant can say; then the far future takes its place    *)
(*   "gloo"     whole milliseconds, up to i32::MAX of them                 *)
(*   "embassy"  ticks of a hardware timer, rounded up, up to u64::MAX      *)
(*   "virtual"  no timer: the first poll moves the time                    *)
(*                                                                         *)
(* One unit of a Duration is a nanosecond; a millisecond, a microsecond    *)
(* and a second are scaled down.                                           *)
(***************************************************************************)
EXTENDS Durations, SequencesExt

CONSTANTS
  Adapters,           \* the clocks in question
  NanosPerMilli, NanosPerMicro, MicrosPerSec,
  TickHz,             \* embassy_time::TICK_HZ
  MaxMillis,          \* i32::MAX
  MaxTicks,           \* u64::MAX
  InstantMax,         \* the last tokio Instant
  FarFuture,          \* how far off tokio's far future is
  Requests,           \* the durations asked for
  Futures,            \* the wait futures that exist at a time
  MaxTime,            \* bound: how far the hardware runs
  MaxVirtual          \* bound: how many waits are recorded, how far advance goes

ASSUME AdapterAssumption ==
    /\ Adapters \subseteq {"system", "futures", "tokio", "gloo", "embassy", "virtual"}
    /\ NanosPerMilli \in Nat \ {0} /\ NanosPerMicro \in Nat \ {0}
    /\ MicrosPerSec \in Nat \ {0} /\ TickHz \in Nat \ {0}
    /\ MaxMillis \in Nat /\ MaxTicks \in Nat
    /\ InstantMax \in Nat /\ FarFuture \in Nat
    /\ Requests \subseteq Duration
    /\ MaxTime \in Nat /\ MaxVirtual \in Nat
    /\ None \notin Nat

VARIABLES
  adapter,    \* which clock it is
  time,       \* of the hardware, in ticks for "embassy", else in nanoseconds
  anchor,     \* when the readings begin: None before SystemClock's first
  waits,      \* VirtualClock::waits
  future,     \* the wait futures
  \* History, for the properties only:
  advanced,   \* the sum of what advance() was given
  asked       \* what SyncClock::wait was given, call by call

history == <<advanced, asked>>
vars == <<adapter, time, anchor, waits, future, history>>

NoFuture == [is |-> "none"]

Virtual == adapter = "virtual"

-----------------------------------------------------------------------------
\* Clock::now.
Reading ==
    CASE adapter = "embassy" -> ((time * MicrosPerSec) \div TickHz) * NanosPerMicro
      [] adapter = "system"  -> IF anchor = None THEN 0 ELSE time - anchor
      [] OTHER               -> time

\* The first reading of any SystemClock sets the anchor of all of them.
Anchored == anchor' = IF anchor = None THEN time ELSE anchor

CeilDiv(a, b) == (a + b - 1) \div b

GlooMillis(dur) == Least(dur \div NanosPerMilli, MaxMillis)

\* Mutant: the division drops the last, incomplete tick.
EmbassyTicksFloor(dur) ==
    Least(((dur \div NanosPerMicro) * TickHz) \div MicrosPerSec, MaxTicks)

\* to_embassy_duration.
EmbassyTicks(dur) ==
    Least(CeilDiv((dur \div NanosPerMicro) * TickHz, MicrosPerSec), MaxTicks)

\* How long the runtime's timer is armed for, in units of `time`.
Armed(dur) ==
    CASE adapter = "gloo"    -> GlooMillis(dur) * NanosPerMilli
      [] adapter = "embassy" -> EmbassyTicks(dur)
      [] adapter = "tokio"   -> IF time + dur <= InstantMax THEN dur ELSE FarFuture
      [] OTHER               -> dur

\* The longest wait the runtime can express in place of this one.
Longest(wait) ==
    CASE adapter = "gloo"    -> MaxMillis * NanosPerMilli
      [] adapter = "embassy" -> ((MaxTicks * MicrosPerSec) \div TickHz) * NanosPerMicro
      [] adapter = "tokio" /\ wait.from + wait.dur > InstantMax -> FarFuture
      [] OTHER               -> wait.dur

-----------------------------------------------------------------------------
Init ==
    /\ adapter \in Adapters
    /\ time = 0
    /\ anchor = IF adapter = "system" THEN None ELSE 0
    /\ waits = <<>>
    /\ future = [f \in Futures |-> NoFuture]
    /\ advanced = 0 /\ asked = <<>>

\* Time passes by itself, except on a virtual clock.
Elapse ==
    /\ ~Virtual
    /\ time < MaxTime
    /\ time' = time + 1
    /\ UNCHANGED <<adapter, anchor, waits, future, history>>

\* Mutant: the addition does not saturate.
AdvanceUnsaturated(dur) ==
    /\ Virtual
    /\ advanced < MaxVirtual
    /\ time' = time + dur
    /\ advanced' = advanced + dur
    /\ UNCHANGED <<adapter, anchor, waits, future, asked>>

\* VirtualClock::advance.
Advance(dur) ==
    /\ Virtual
    /\ advanced < MaxVirtual
    /\ time' = SatAdd(time, dur)
    /\ advanced' = advanced + dur
    /\ UNCHANGED <<adapter, anchor, waits, future, asked>>

\* VirtualClock::record_wait.
RecordWait(dur) ==
    /\ Len(waits) < MaxVirtual
    /\ time' = SatAdd(time, dur)
    /\ waits' = Append(waits, dur)
    /\ UNCHANGED <<adapter, anchor, advanced>>

\* SyncClock::wait of VirtualClock: the thread is not blocked.
SyncWait(dur) ==
    /\ Virtual
    /\ RecordWait(dur)
    /\ asked' = Append(asked, dur)
    /\ UNCHANGED future

\* Somebody reads the time and begins a wait: AsyncClock::wait_async, where a
\* real timer is armed at once and a virtual wait does nothing before it is
\* polled, or SystemClock's wait, where a thread goes to sleep.
WaitAsync(f, dur) ==
    /\ future[f].is = "none"
    /\ future' = [future EXCEPT ![f] =
                    [is |-> "created", dur |-> dur, from |-> Reading,
                     due |-> time + Armed(dur)]]
    /\ Anchored
    /\ UNCHANGED <<adapter, time, waits, history>>

\* The wait that began at the reading `from` is over at the reading `at`.
Complete(f, from, at) ==
    future' = [future EXCEPT ![f] = [is |-> "done", dur |-> @.dur, from |-> from, at |-> at]]

\* Mutants: a virtual wait moves the time whenever it is polled; it is done
\* without having moved it.
PollVirtualAgain(f) ==
    /\ Virtual
    /\ future[f].is \in {"created", "done"}
    /\ RecordWait(future[f].dur)
    /\ IF future[f].is = "created" THEN Complete(f, time, time') ELSE UNCHANGED future
    /\ UNCHANGED asked

PollVirtualUnmoved(f) ==
    /\ Virtual
    /\ future[f].is = "created"
    /\ waits' = Append(waits, future[f].dur)
    /\ Len(waits) < MaxVirtual
    /\ Complete(f, time, time)
    /\ UNCHANGED <<adapter, time, anchor, history>>

\* VirtualWait::poll: the first time, the wait begins and ends here; polled
\* again, as a join of futures may do, it is still ready.
PollVirtual(f) ==
    /\ Virtual
    /\ \/ /\ future[f].is = "created"
          /\ RecordWait(future[f].dur)
          /\ Complete(f, time, time')
          /\ UNCHANGED asked
       \/ /\ future[f].is = "done"
          /\ UNCHANGED vars

\* The timer of the runtime has fired when the future is polled, or the sleeping
\* thread is back.
PollTimer(f) ==
    /\ ~Virtual
    /\ future[f].is = "created"
    /\ time >= future[f].due
    /\ Complete(f, future[f].from, Reading)
    /\ UNCHANGED <<adapter, time, anchor, waits, history>>

\* Polled again after it was ready; or polled before its timer fired, as a
\* sleeping thread that is not back yet.
PollIdle(f) ==
    /\ ~Virtual
    /\ \/ future[f].is = "done"
       \/ future[f].is = "created" /\ time < future[f].due
    /\ UNCHANGED vars

\* Dropped, polled or not; a sleeping thread cannot be.
DropWait(f) ==
    /\ future[f].is = "done" \/ (future[f].is = "created" /\ adapter # "system")
    /\ future' = [future EXCEPT ![f] = NoFuture]
    /\ UNCHANGED <<adapter, time, anchor, waits, history>>

Next ==
    \/ Elapse
    \/ \E dur \in Requests : Advance(dur) \/ SyncWait(dur)
    \/ \E f \in Futures, dur \in Requests : WaitAsync(f, dur)
    \/ \E f \in Futures : PollVirtual(f) \/ PollTimer(f) \/ PollIdle(f) \/ DropWait(f)

Spec == Init /\ [][Next]_vars

-----------------------------------------------------------------------------
(***************************************************************************)
(* Type correctness.                                                       *)
(***************************************************************************)
TypeOK ==
    /\ adapter \in Adapters
    /\ time \in Nat
    /\ Virtual => time \in Duration
    /\ anchor \in Nat \cup {None}
    /\ waits \in Seq(Requests)
    /\ \A f \in Futures :
          \/ future[f] = NoFuture
          \/ future[f] \in [is : {"created"}, dur : Requests, from : Nat, due : Nat]
          \/ future[f] \in [is : {"done"}, dur : Requests, from : Nat, at : Nat]
    /\ advanced \in Nat /\ asked \in Seq(Requests)

\* What of a duration is left when it is handed to the runtime.
Kept(dur) ==
    CASE adapter = "gloo"    -> dur - (dur % NanosPerMilli)
      [] adapter = "embassy" -> dur - (dur % NanosPerMicro)
      [] OTHER               -> dur

\* What a wait must have taken.
Owed(wait) == Least(Kept(wait.dur), Longest(wait))

(***************************************************************************)
(* "Implementations must advance now() by (at least) the waited duration   *)
(* once the wait completes": what now() read when a completed wait began,  *)
(* plus its duration, is no more than what it read when the wait was over. *)
(* Of the duration that means the whole milliseconds or microseconds; no   *)
(* rounding to ticks and no rounding of the readings takes more than that. *)
(* A duration the platform cannot express waits for the longest that it    *)
(* can, and never fires at once (Clock, wait_async).                       *)
(***************************************************************************)
CompletedWaitIsReflected ==
    \A f \in Futures : future[f].is = "done" =>
        future[f].at >= Least(future[f].from + Owed(future[f]), DurMax)

\* The sum of the waits.
Total(durs) ==
    LET total[k \in 0 .. Len(durs)] == IF k = 0 THEN 0 ELSE total[k - 1] + durs[k]
    IN  total[Len(durs)]

(***************************************************************************)
(* The time of a virtual clock is the sum of the waits it has recorded and *)
(* of what it was advanced by, saturated, whichever executions shared it   *)
(* and in whatever order their waits were created, polled, polled again    *)
(* and dropped; a wait dropped unpolled leaves no trace (VirtualClock).    *)
(***************************************************************************)
VirtualTimeAddsUp ==
    Virtual => time = Least(advanced + Total(waits), DurMax)

\* The futures whose wait this step completes.
Completed == { f \in Futures : future[f].is = "created" /\ future'[f].is = "done" }

\* A step that records nothing completes nothing; only advance() moves the time.
Unrecorded ==
    /\ waits' = waits /\ asked' = asked /\ Completed = {}
    /\ time' = SatAdd(time, advanced' - advanced)

\* A step that records a wait of `dur` moves the time by it, for one wait only.
Recorded(dur) ==
    /\ waits' = Append(waits, dur)
    /\ advanced' = advanced
    /\ time' = SatAdd(time, dur)
    /\ \/ asked' = Append(asked, dur) /\ future' = future
       \/ asked' = asked /\ \E f \in Futures : Completed = {f} /\ future[f].dur = dur

(***************************************************************************)
(* A wait is recorded once: every record is that of one call of wait() or  *)
(* of one future, by the poll that completes it, for the time it was asked *)
(* to wait, and by that much the time moves. No other step moves the time, *)
(* but advance() by what it was given: not the creation of a future, not   *)
(* the poll of one that is done, not a drop, polled or not                 *)
(* (VirtualClock::record_wait, VirtualWait::poll).                         *)
(***************************************************************************)
OneRecordPerWait ==
    [][ Virtual => Unrecorded \/ \E dur \in Requests : Recorded(dur) ]_vars
=============================================================================
