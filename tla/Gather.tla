------------------------------- MODULE Gather -------------------------------
(***************************************************************************)
(* What awaiting several tasks together promises: every child ends by      *)
(* itself, with a value or an error; the whole completes once, after all   *)
(* of them, and fails exactly if one of them failed.                       *)
(***************************************************************************)
CONSTANT Children

VARIABLES
    outcome,    \* how each child ended, "none" while it has not
    verdict     \* how the whole ended

vars == <<outcome, verdict>>

Init ==
    /\ outcome = [i \in Children |-> "none"]
    /\ verdict = "none"

Finish(i, r) ==
    /\ outcome[i] = "none"
    /\ outcome' = [outcome EXCEPT ![i] = r]
    /\ UNCHANGED verdict

Complete ==
    /\ verdict = "none"
    /\ \A i \in Children : outcome[i] # "none"
    /\ verdict' = IF \E i \in Children : outcome[i] = "error" THEN "error" ELSE "value"
    /\ UNCHANGED outcome

Next ==
    \/ \E i \in Children, r \in {"value", "error"} : Finish(i, r)
    \/ Complete

Spec == Init /\ [][Next]_vars
=============================================================================
