------------------------------ MODULE MCJitter ------------------------------
(***************************************************************************)
(* Small words for JitterRng, its shifts and multipliers scaled down.      *)
(***************************************************************************)
EXTENDS JitterRng, Bitwise

MCXor(a, b) == a ^^ b
MCShifts == <<1, 1, 1>>
MCMultipliers == <<5 % WordSize, 3>>
MCTargets == { [atomic64 |-> TRUE, nonces |-> "counter"],
               [atomic64 |-> FALSE, nonces |-> "counter"],
               [atomic64 |-> FALSE, nonces |-> "constant"] }
MCStd == { [atomic64 |-> TRUE, nonces |-> "counter and time"] }
=============================================================================
