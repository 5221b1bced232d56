---------------------------- MODULE TaskLifecycle ----------------------------
(***************************************************************************)
(* What the control plane promises about a task's life, without workers,   *)
(* leases, files or failures: an agent execution needs a right to run,     *)
(* which creating the task gives once and an operator's approval after an  *)
(* unknown outcome gives once more.  Nothing else puts a task back.        *)
(*                                                                         *)
(* The promise ends when an operation on the task file begins while a      *)
(* write is under way that no lock keeps apart from it: from then on       *)
(* anything may become of the tasks, as in RecordStore.                    *)
(* MissionService is shown to implement this module.                       *)
(***************************************************************************)
EXTENDS Naturals

CONSTANT Tasks

VARIABLES
    status,      \* absent, pending, running, completed, failed, unknown
    executions,  \* agent executions begun so far
    approvals,   \* times an operator resolved the task to be retried
    dirty        \* has the promise ended?

vars == <<status, executions, approvals, dirty>>

Statuses == {"absent", "pending", "running", "completed", "failed", "unknown"}

TypeOK ==
    /\ status \in [Tasks -> Statuses]
    /\ executions \in [Tasks -> Nat]
    /\ approvals \in [Tasks -> Nat]
    /\ dirty \in BOOLEAN

Init ==
    /\ status \in [Tasks -> {"absent", "pending"}]
    /\ executions = [t \in Tasks |-> 0]
    /\ approvals = [t \in Tasks |-> 0]
    /\ dirty = FALSE

\* The status of t moves along one of the edges the mission loop may take.
Move(t, from, to) ==
    /\ status[t] \in from
    /\ \E s \in to : status' = [status EXCEPT ![t] = s]
    /\ UNCHANGED <<executions, approvals, dirty>>

Create(t) == Move(t, {"absent"}, {"pending"})
Claim(t) == Move(t, {"pending"}, {"running"})
Settle(t) == Move(t, {"running"}, {"completed", "failed", "unknown"})

\* A settled task whose settling was interrupted is called unknown again.
Doubt(t) == Move(t, {"completed", "failed"}, {"unknown"})

\* The operator gives an unknown task up.
Dismiss(t) == Move(t, {"unknown"}, {"failed"})

\* The agent starts on a claimed task: at most once per right to run.
Execute(t) ==
    /\ status[t] = "running"
    /\ executions[t] <= approvals[t]
    /\ executions' = [executions EXCEPT ![t] = @ + 1]
    /\ UNCHANGED <<status, approvals, dirty>>

\* The operator has an unknown task retried.
Approve(t) ==
    /\ status[t] = "unknown"
    /\ status' = [status EXCEPT ![t] = "pending"]
    /\ approvals' = [approvals EXCEPT ![t] = @ + 1]
    /\ UNCHANGED <<executions, dirty>>

Interrupt ==
    /\ dirty' = TRUE
    /\ UNCHANGED <<status, executions, approvals>>

Disorder ==
    /\ dirty
    /\ status' \in [Tasks -> Statuses]
    /\ executions' \in [Tasks -> Nat]
    /\ approvals' \in [Tasks -> Nat]
    /\ UNCHANGED dirty

Next ==
    \/ \E t \in Tasks :
          \/ Create(t) \/ Claim(t) \/ Execute(t) \/ Settle(t) \/ Doubt(t)
          \/ Approve(t) \/ Dismiss(t)
    \/ Interrupt \/ Disorder

Spec == Init /\ [][Next]_vars
==============================================================================
