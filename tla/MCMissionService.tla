--------------------------- MODULE MCMissionService ---------------------------
(* Instances of MissionService for TLC.                                        *)
EXTENDS MissionService, TLC

CONSTANTS t1, t2, t3, w1, w2, o1, o2, k1, k2

\* worker_id left at its default for both, or set.
OneOwner == [w \in Workers |-> o1]
TwoOwners == [w \in Workers |-> IF w = w1 THEN o1 ELSE o2]

SamePriority == [t \in Tasks |-> 0]
FirstIsUrgent == [t \in Tasks |-> IF t = t1 THEN 1 ELSE 0]

\* The further tasks all have one objective and capabilities.
Keys == [t \in Tasks |-> IF t = t1 THEN k1 ELSE k2]

\* A further step from a torn state: nothing this instance checks speaks of it.
NotTorn == ~torn

\* Tasks with one key, neither of them stored at first, are alike.
TwoAlike == Permutations({t2, t3})
===============================================================================
