----------------------------- MODULE Strategies -----------------------------
(***************************************************************************)
(* The built-in stop and wait strategies and their combinators.            *)
(*                                                                         *)
(* A strategy asked about a RetryState may answer in more than one way (a  *)
(* jittered wait draws a random number, a user-written one may keep state  *)
(* of its own), so a strategy is given by the SET of answers it can give   *)
(* in that state. A combinator takes the answer sets of its parts, asked   *)
(* about the same state, and returns the set of combined answers; nested   *)
(* strategies are nested applications.                                     *)
(***************************************************************************)
EXTENDS Durations

\* Stop strategies: sets of Booleans.

\* Mutant: one call too many.
StopAfterAttemptsExclusive(max, state) == { state.attempt > max }

StopAfterAttempts(max, state) == { state.attempt >= max }

StopAfterElapsed(deadline, state) == { state.elapsed >= deadline }

StopNever == { FALSE }

\* Both sides are asked before the answers are combined.
StopAny(left, right) == { l \/ r : l \in left, r \in right }

StopAll(left, right) == { l /\ r : l \in left, r \in right }

-----------------------------------------------------------------------------
\* Wait strategies: sets of durations.

WaitFixed(dur) == { dur }

WaitLinear(initial, increment, state) ==
    { SatAdd(initial, SatMul(increment, state.attempt - 1)) }

\* base to the n-th power, without bound. (A recursive function, as the provers
\* know nothing of ^.)
Pow(base, n) ==
    LET pow[k \in 0 .. n] == IF k = 0 THEN 1 ELSE base * pow[k - 1] IN pow[n]

\* `base` is a whole number here; below 1 it is clamped to 1.
WaitExponential(initial, base, state) ==
    { SatMul(initial, Pow(Greatest(base, 1), state.attempt - 1)) }

WaitCapped(inner, max) == { Least(w, max) : w \in inner }

WaitCombine(left, right) == { SatAdd(l, r) : l \in left, r \in right }

WaitChain(first, second, after, state) ==
    IF state.attempt <= after THEN first ELSE second

-----------------------------------------------------------------------------
\* Jitter. The generator can return any duration of the closed range; an
\* empty range yields its lower end.

RandomIn(lower, upper) == IF upper <= lower THEN {lower} ELSE lower .. upper

JitterAdditive(inner, max_jitter) ==
    UNION { { SatAdd(w, j) : j \in RandomIn(0, max_jitter) } : w \in inner }

JitterFull(inner) == UNION { RandomIn(0, w) : w \in inner }

JitterEqual(inner) ==
    UNION { { SatAdd(w \div 2, j) : j \in RandomIn(0, w \div 2) } : w \in inner }

\* random(base, previous_delay * 3); the first attempt has no previous delay
\* and triples the base itself.
JitterDecorrelated(inner, state) ==
    UNION { LET previous == IF state.previous_delay = None
                              THEN w ELSE state.previous_delay
            IN  RandomIn(w, SatMul(previous, 3)) : w \in inner }
=============================================================================
