------------------------------ MODULE MCAsync -------------------------------
(***************************************************************************)
(* The asynchronous engine, a task of its own, for TLC: small policies.    *)
(* What the synchronous engine is checked for holds of it through          *)
(* ImplementsSyncEngine.                                                   *)
(***************************************************************************)
EXTENDS Parity, Policies
=============================================================================
