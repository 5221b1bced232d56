---------------------------- MODULE LeaseService ----------------------------
(***************************************************************************)
(* What a caller of the lease manager may rely on, with time abstracted    *)
(* away: at every moment a task has at most one holder, and the task never *)
(* passes from one holder to another without first having none.            *)
(* TaskLease (the real manager, with a clock and deadlines) and            *)
(* MissionService (its client) are both shown to implement this module.    *)
(***************************************************************************)
CONSTANTS Tasks,    \* task ids
          Owners,   \* owner (worker) ids
          NoOwner   \* the holder of a task nobody holds

VARIABLE holder     \* who may work on each task now

TypeOK == holder \in [Tasks -> Owners \cup {NoOwner}]

Init == holder = [t \in Tasks |-> NoOwner]

\* A free task is given to an owner.
Grant(t, o) ==
    /\ holder[t] = NoOwner
    /\ holder' = [holder EXCEPT ![t] = o]

\* The holders of the tasks S lose them: released, or run out of time.
Drop(S) ==
    holder' = [t \in Tasks |-> IF t \in S THEN NoOwner ELSE holder[t]]

Next ==
    \/ \E t \in Tasks, o \in Owners : Grant(t, o)
    \/ \E S \in SUBSET Tasks : Drop(S)

Spec == Init /\ [][Next]_holder
=============================================================================
