----------------------------- MODULE ModelBudget ------------------------------
(***************************************************************************)
(* What a budgeted model promises, without calls and locks: a model call   *)
(* is checked against the budget of its mission and its task and charged   *)
(* to both in one step.                                                    *)
(***************************************************************************)
EXTENDS Naturals

CONSTANTS Tasks, MissionTokens, TaskTokens, MaxUsage

VARIABLE used   \* tokens recorded: of the mission, and of each task

Init == used = [mission |-> 0, task |-> [t \in Tasks |-> 0]]

Available(t) == used.mission < MissionTokens /\ used.task[t] < TaskTokens

Charge(t, n) ==
    /\ Available(t)
    /\ used' = [used EXCEPT !.mission = @ + n, !.task[t] = @ + n]

Next == \E t \in Tasks, n \in 0 .. MaxUsage : Charge(t, n)

Spec == Init /\ [][Next]_used
===============================================================================
