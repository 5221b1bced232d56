------------------------------ MODULE RecordStore ------------------------------
(***************************************************************************)
(* What a JSON repository promises (adapters/storage/file.py, "Atomic JSON *)
(* repositories"): a save replaces one record and leaves every other as it *)
(* was.  The promise ends when a save is cancelled during its write, or    *)
(* when the saves of two processes overlap: from then on the records may   *)
(* change in any way.                                                      *)
(***************************************************************************)
CONSTANTS Keys, Values, Absent

VARIABLES
    records,  \* the stored records
    dirty     \* has the promise ended?

vars == <<records, dirty>>

Contents == [Keys -> Values \cup {Absent}]

Init ==
    /\ records = [k \in Keys |-> Absent]
    /\ dirty = FALSE

Save(k, v) ==
    /\ records' = [records EXCEPT ![k] = v]
    /\ UNCHANGED dirty

Interrupt ==
    /\ dirty' = TRUE
    /\ UNCHANGED records

Disorder ==
    /\ dirty
    /\ records' \in Contents
    /\ UNCHANGED dirty

Next ==
    \/ \E k \in Keys, v \in Values : Save(k, v)
    \/ Interrupt \/ Disorder

Spec == Init /\ [][Next]_vars
===============================================================================
