------------------------------- MODULE MCRace -------------------------------
(***************************************************************************)
(* The retry future and its owner for TLC: small policies.                 *)
(***************************************************************************)
EXTENDS Race, Policies

\* Every future that nothing races resolves, if it is limited by attempts or by
\* elapsed time: only a policy with neither ("spin") may go on for ever.
BoundedResolve == (race = "none" /\ policy # "spin") => Resolves
=============================================================================
