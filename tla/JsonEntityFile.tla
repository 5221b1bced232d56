---------------------------- MODULE JsonEntityFile ----------------------------
(***************************************************************************)
(* adapters/storage/file.py: one JSON file of records, which every save    *)
(* reads whole, changes in memory and replaces whole (adapters/atomic.py), *)
(* each in a worker thread, under one asyncio.Lock.                        *)
(*                                                                         *)
(* Callers make upsert(), get() and all() calls, one after the other.  A   *)
(* call that is cancelled while it awaits its write leaves the lock at     *)
(* once, but the thread goes on: the file is replaced later.  A lock is of *)
(* one process: a second one, such as `xhunter recover-task` beside a      *)
(* mission (cli/main.py), opens the same file with a lock of its own.      *)
(***************************************************************************)
EXTENDS Naturals

CONSTANTS
    Keys, Values,
    Absent,        \* no record under a key
    Savers, NoSaver,   \* the callers
    Processes,     \* those that have opened the file
    MaxFaults      \* bound: cancellations, failures and crashes

ASSUME StoreAssumption ==
    /\ Keys # {} /\ Processes # {}
    /\ Absent \notin Values
    /\ NoSaver \notin Savers
    /\ MaxFaults \in Nat

VARIABLES
    file,      \* the records on disk
    lock,      \* the caller inside `async with self._lock`, per process
    pc,        \* where each call is
    process, key, value,  \* its process and arguments; without a value it is
               \* get() or all()
    base,      \* the records its thread has read
    \* history and bounds
    landed,    \* the value of the save of each key that landed last
    expected,  \* the values a key may have: what the last acknowledged save
               \* left, or a later save that ended without acknowledgement
    dirty,     \* was a save cancelled during its write, or one begun while
               \* another process was between its read and its write?
    faults

vars == <<file, lock, pc, process, key, value, base, landed, expected, dirty, faults>>

Contents == [Keys -> Values \cup {Absent}]

\* "detached": the call was cancelled, its write thread still runs.
Steps == {"idle", "waiting", "reading", "writing", "written", "answered", "detached"}
Locked == {"reading", "writing", "written", "answered"}

TypeOK ==
    /\ file \in Contents
    /\ lock \in [Processes -> Savers \cup {NoSaver}]
    /\ pc \in [Savers -> Steps]
    /\ process \in [Savers -> Processes]
    /\ key \in [Savers -> Keys]
    /\ value \in [Savers -> Values \cup {Absent}]
    /\ base \in [Savers -> Contents]
    /\ landed \in Contents
    /\ expected \in [Keys -> SUBSET (Values \cup {Absent})]
    /\ dirty \in BOOLEAN
    /\ faults \in Nat

\* What stands in for them: no record, any process and key.
Nothing == [k \in Keys |-> Absent]
SomeKey == CHOOSE k \in Keys : TRUE
SomeProcess == CHOOSE p \in Processes : TRUE

Init ==
    /\ file = Nothing
    /\ lock = [p \in Processes |-> NoSaver]
    /\ pc = [s \in Savers |-> "idle"]
    /\ process = [s \in Savers |-> SomeProcess]
    /\ key = [s \in Savers |-> SomeKey]
    /\ value = [s \in Savers |-> Absent]
    /\ base = [s \in Savers |-> Nothing]
    /\ landed = Nothing
    /\ expected = [k \in Keys |-> {Absent}]
    /\ dirty = FALSE
    /\ faults = 0

Goto(s, p) == pc' = [pc EXCEPT ![s] = p]

\* Arguments and records of calls that are over are dropped.
DropAll(savers) ==
    /\ process' = [s \in Savers |-> IF s \in savers THEN SomeProcess ELSE process[s]]
    /\ key' = [s \in Savers |-> IF s \in savers THEN SomeKey ELSE key[s]]
    /\ value' = [s \in Savers |-> IF s \in savers THEN Absent ELSE value[s]]
    /\ base' = [s \in Savers |-> IF s \in savers THEN Nothing ELSE base[s]]
Drop(s) == DropAll({s})

Expect(s, values) == expected' = [expected EXCEPT ![key[s]] = values]

Saves(s) == value[s] # Absent

-------------------------------------------------------------------------------
\* upsert(key, record), or get(key) and all() without a value, is called.
Call(s) ==
    /\ pc[s] = "idle"
    /\ \/ \E k \in Keys, v \in Values :
             /\ key' = [key EXCEPT ![s] = k]
             /\ value' = [value EXCEPT ![s] = v]
       \/ UNCHANGED <<key, value>>
    /\ \E p \in Processes : process' = [process EXCEPT ![s] = p]
    /\ Goto(s, "waiting")
    /\ UNCHANGED <<file, lock, base, landed, expected, dirty, faults>>

Unlocked_Ignored(s) == TRUE
Unlocked(s) == lock[process[s]] = NoSaver

Acquire(s) ==
    /\ pc[s] = "waiting"
    /\ Unlocked(s)
    /\ lock' = [lock EXCEPT ![process[s]] = s]
    /\ Goto(s, "reading")
    /\ UNCHANGED <<file, process, key, value, base, landed, expected, dirty, faults>>

\* Another process is between its read and its write.
Overlaps(s) ==
    \E x \in Savers : process[x] # process[s] /\ pc[x] = "writing"

\* The thread reads the file; the next one is started to write.  get() and
\* all() answer with these records.
Read_AwaitsFile(s) == pc[s] = "reading" /\ file = Nothing /\ UNCHANGED vars
Read(s) ==
    /\ pc[s] = "reading"
    /\ IF Saves(s)
       THEN /\ base' = [base EXCEPT ![s] = file]
            /\ Goto(s, "writing")
            /\ dirty' = (dirty \/ Overlaps(s))
       ELSE Goto(s, "answered") /\ UNCHANGED <<base, dirty>>
    /\ UNCHANGED <<file, lock, process, key, value, landed, expected, faults>>

\* os.replace: the file holds what was read, with the one record put in.
Replaced_OwnOnly(s) == [k \in {key[s]} |-> value[s]]
Replaced_WithoutOthers(s) == [k \in Keys |-> IF k = key[s] THEN value[s] ELSE Absent]
Replaced(s) == [base[s] EXCEPT ![key[s]] = value[s]]

\* The thread's write lands, whether or not its call still waits for it.
Land(s) ==
    /\ pc[s] \in {"writing", "detached"}
    /\ file' = Replaced(s)
    /\ landed' = [landed EXCEPT ![key[s]] = value[s]]
    /\ IF pc[s] = "writing"
       THEN /\ Goto(s, "written")
            /\ base' = [base EXCEPT ![s] = Nothing]
            /\ UNCHANGED <<process, key, value>>
       ELSE Goto(s, "idle") /\ Drop(s)
    /\ UNCHANGED <<lock, expected, dirty, faults>>

AfterCall(s) ==
    IF pc[s] \in Locked THEN [lock EXCEPT ![process[s]] = NoSaver] ELSE lock

\* The save is acknowledged, or the answer given.
Return(s) ==
    /\ pc[s] \in {"written", "answered"}
    /\ lock' = AfterCall(s)
    /\ Goto(s, "idle")
    /\ IF pc[s] = "written" THEN Expect(s, {landed[key[s]]}) ELSE UNCHANGED expected
    /\ Drop(s)
    /\ UNCHANGED <<file, landed, dirty, faults>>

\* Reading or writing raises: the old file stays, the lock is left.
Fail(s) ==
    /\ faults < MaxFaults
    /\ pc[s] \in {"reading", "writing", "detached"}
    /\ lock' = AfterCall(s)
    /\ Goto(s, "idle")
    /\ Drop(s)
    /\ faults' = faults + 1
    /\ UNCHANGED <<file, landed, expected, dirty>>

\* The call is cancelled.  A thread that reads is of no consequence; one that
\* writes, and was not waiting for a free worker, goes on writing.
Cancel(s) ==
    /\ faults < MaxFaults
    /\ pc[s] \in {"waiting"} \cup Locked
    /\ lock' = AfterCall(s)
    /\ \/ Goto(s, "idle") /\ Drop(s) /\ UNCHANGED dirty
       \/ /\ pc[s] = "writing"
          /\ Goto(s, "detached")
          /\ dirty' = TRUE
          /\ UNCHANGED <<process, key, value, base>>
    /\ IF pc[s] \in {"writing", "written"}
       THEN Expect(s, expected[key[s]] \cup {value[s]}) ELSE UNCHANGED expected
    /\ faults' = faults + 1
    /\ UNCHANGED <<file, landed>>

LandedBy(savers, k) ==
    {value[s] : s \in {x \in savers : pc[x] = "written" /\ key[x] = k}}

\* A process dies: os.replace has taken effect or not.
Crash(p) ==
    LET died == {s \in Savers : process[s] = p} IN
    /\ faults < MaxFaults
    /\ lock' = [lock EXCEPT ![p] = NoSaver]
    /\ pc' = [s \in Savers |-> IF s \in died THEN "idle" ELSE pc[s]]
    /\ DropAll(died)
    /\ expected' = [k \in Keys |-> expected[k] \cup LandedBy(died, k)]
    /\ faults' = faults + 1
    /\ UNCHANGED <<file, landed, dirty>>

-------------------------------------------------------------------------------
Next ==
    \/ \E s \in Savers :
          \/ Call(s) \/ Acquire(s) \/ Read(s) \/ Land(s) \/ Return(s)
          \/ Fail(s) \/ Cancel(s)
    \/ \E p \in Processes : Crash(p)

\* Threads finish, a resumed call goes on, and asyncio.Lock hands itself to
\* its waiters in the order they came.
Fairness ==
    \A s \in Savers :
        /\ WF_vars(Read(s)) /\ WF_vars(Land(s)) /\ WF_vars(Return(s))
        /\ SF_vars(Acquire(s))

Spec == Init /\ [][Next]_vars
FairSpec == Spec /\ Fairness

-------------------------------------------------------------------------------
\* Every key has on disk the value of its last acknowledged save, unless a
\* later save of that key landed without an acknowledgement.
SavedIsStored == \A k \in Keys : file[k] \in expected[k] \cup LandedBy(Savers, k)

\* Concurrent upserts of any processes, failing threads and crashes lose and
\* revert no saved record, as long as no save was cancelled during its write
\* and none was begun between the read and the write of another process.
AckedSavesStick == ~dirty => SavedIsStored

\* upsert's lock is left on every path: each call ends.
SavesReturn == \A s \in Savers : pc[s] = "waiting" ~> pc[s] = "idle"

Records == INSTANCE RecordStore WITH records <- file

\* Each replacement of the file is a save of one record: the whole-file
\* read-modify-write behaves as the per-record store its callers see.
ImplementsRecordStore == Records!Spec
===============================================================================
