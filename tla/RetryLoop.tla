----------------------------- MODULE RetryLoop ------------------------------
(***************************************************************************)
(* What one execution of a retry promises its caller, whichever engine     *)
(* drives it: no clock, no phases, no wakers. Attempts and waits           *)
(* alternate; the waits add up to no more than the budget; a wait may be   *)
(* announced as the last, and then nothing but one attempt follows it; an  *)
(* execution ends once, for one of three reasons, or is abandoned by a     *)
(* panic or a cancellation. Both engines implement it.                     *)
(***************************************************************************)
EXTENDS Durations

VARIABLES
  budget,     \* the timeout of the execution, or None
  status,     \* "between" two attempts, "running" one, or how it ended
  granted,    \* the sum of the waits granted so far
  last        \* the last wait has been granted

vars == <<budget, status, granted, last>>

Ended == {"Returned", "Aborted", "Exhausted", "Abandoned"}

TypeOK ==
    /\ budget \in MaybeDuration
    /\ status \in {"between", "running"} \cup Ended
    /\ granted \in Duration
    /\ last \in BOOLEAN

Init ==
    /\ budget \in MaybeDuration
    /\ status = "between"
    /\ granted = 0
    /\ last = FALSE

Begin ==
    /\ status = "between"
    /\ status' = "running"
    /\ UNCHANGED <<budget, granted, last>>

Conclude ==
    /\ status = "running"
    /\ status' \in {"Returned", "Aborted", "Exhausted"}
    /\ UNCHANGED <<budget, granted, last>>

BackOff ==
    /\ status = "running"
    /\ ~last
    /\ status' = "between"
    /\ last' \in BOOLEAN
    /\ \E d \in Duration :
          /\ budget # None => granted + d <= budget
          /\ granted' = SatAdd(granted, d)
    /\ UNCHANGED budget

Abandon ==
    /\ status \in {"between", "running"}
    /\ status' = "Abandoned"
    /\ UNCHANGED <<budget, granted, last>>

Next == Begin \/ Conclude \/ BackOff \/ Abandon

Spec == Init /\ [][Next]_vars

\* An attempt that is due begins, and one that runs comes to an end.
FairSpec == Spec /\ WF_vars(Begin) /\ WF_vars(Conclude \/ BackOff)
=============================================================================
