------------------------------ MODULE TaskPool ------------------------------
(***************************************************************************)
(* What a pool of workers promises to those who submit tasks, whatever its *)
(* locks and condition variables look like: tasks start in the order in    *)
(* which they were accepted, at most Width of them at a time, each ends    *)
(* with the outcome its future reports, and a task is given up only by a   *)
(* pool that is closed, once nothing runs any more.                        *)
(***************************************************************************)
EXTENDS Integers, Sequences, FiniteSets

CONSTANTS
    Tasks,      \* everything that is ever submitted
    Width       \* how many tasks may run at once

VARIABLES
    accepted,   \* tasks accepted and not started, oldest first
    running,    \* tasks that have started and not ended
    outcome,    \* what the future of each task reports
    phase       \* "open", "closing" or "closed"

vars == <<accepted, running, outcome, phase>>

Init ==
    /\ accepted = <<>>
    /\ running = {}
    /\ outcome = [t \in Tasks |-> "none"]
    /\ phase = "open"

\* A closing pool accepts nothing: its destructor runs after every submit.
Accept(t) ==
    /\ phase = "open"
    /\ outcome[t] = "none"
    /\ accepted' = Append(accepted, t)
    /\ outcome' = [outcome EXCEPT ![t] = "pending"]
    /\ UNCHANGED <<running, phase>>

Start ==
    /\ phase # "closed"
    /\ accepted # <<>>
    /\ Cardinality(running) < Width
    /\ accepted' = Tail(accepted)
    /\ running' = running \cup {Head(accepted)}
    /\ UNCHANGED <<outcome, phase>>

Finish(t, result) ==
    /\ t \in running
    /\ running' = running \ {t}
    /\ outcome' = [outcome EXCEPT ![t] = result]
    /\ UNCHANGED <<accepted, phase>>

Close ==
    /\ phase = "open"
    /\ phase' = "closing"
    /\ UNCHANGED <<accepted, running, outcome>>

\* The tasks left over get the outcome "broken" (std::future_errc::broken_promise).
Discard ==
    /\ phase = "closing"
    /\ running = {}
    /\ phase' = "closed"
    /\ accepted' = <<>>
    /\ outcome' = [t \in Tasks |->
                     IF outcome[t] = "pending" THEN "broken" ELSE outcome[t]]
    /\ UNCHANGED running

Next ==
    \/ \E t \in Tasks : Accept(t)
    \/ Start
    \/ \E t \in Tasks, result \in {"value", "error"} : Finish(t, result)
    \/ Close
    \/ Discard

Spec == Init /\ [][Next]_vars
=============================================================================
