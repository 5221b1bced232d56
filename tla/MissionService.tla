---------------------------- MODULE MissionService ----------------------------
(***************************************************************************)
(* services/mission_service.py with the services it drives or races with:  *)
(* planning_service.py, task_lease.py, recovery_service.py and the task,   *)
(* mission and evidence files (adapters/storage/file.py).                  *)
(*                                                                         *)
(* Workers are MissionService.run calls on ONE mission in one process.     *)
(* They share the files, the lease manager and the sweeper.  The operator  *)
(* is `xhunter recover-task`, a process of its own.  A step of the model   *)
(* is the code between two suspension points.                              *)
(*                                                                         *)
(* A save of a task reads the whole of tasks.json and replaces the whole,  *)
(* each in a thread, under the lock that the repository has in its         *)
(* process: two steps, between which the operator, with a lock of its own, *)
(* may act.  evidence.json and missions.json are written by this process   *)
(* only, so their locks make each save one step.  A save that is cancelled *)
(* leaves the lock at once, and its thread goes on: it replaces the file,  *)
(* with the records it has read, at any later time.                        *)
(*                                                                         *)
(* Time is abstract: Expiry says which live leases may lapse, those that   *)
(* no run holds ("leaked"; LeaseHeartbeat shows that a punctual event loop *)
(* allows no other, unless a run begins on an old lease) or "any".         *)
(* Checkpoints are one file each, which only `xhunter status` reads: the   *)
(* steps that write them are here, their contents are not.                 *)
(***************************************************************************)
EXTENDS Naturals, FiniteSets

CONSTANTS
    Tasks, Workers, Owners,
    NoTask, NoOwner,
    OwnerOf,         \* worker_id of each worker
    Priority, Key,   \* per task: scheduling priority and deduplication key
    InitialTasks,    \* tasks already stored as pending
    MaxTasks,        \* max_tasks of run()
    Faults,          \* which of "cancel", "error", "crash" can strike
    Expiry,          \* which leases may lapse: "never", "leaked" or "any"
    Sweeping,        \* does ExpiredTaskRecovery run?
    MaxFaults,       \* bound: faults that strike
    MaxApprovals     \* bound: retries the operator grants per task

ASSUME ConstantAssumption ==
    /\ NoTask \notin Tasks
    /\ NoOwner \notin Owners
    /\ OwnerOf \in [Workers -> Owners]
    /\ Priority \in [Tasks -> Nat]
    /\ InitialTasks \subseteq Tasks
    /\ MaxTasks \in Nat \ {0}
    /\ Faults \subseteq {"cancel", "error", "crash"}
    /\ Expiry \in {"never", "leaked", "any"}
    /\ Sweeping \in BOOLEAN
    /\ MaxFaults \in Nat /\ MaxApprovals \in Nat

VARIABLES
    \* the files
    stored,      \* status of each task in tasks.json
    evidence,    \* the attempts on a task whose agent evidence is saved
    mission,     \* status in missions.json
    \* the worker's locals
    pc,          \* the step a worker is about to take
    task,        \* its task
    todo, keys,  \* apply(): proposals left, known deduplication keys
    left,        \* loop rounds left
    failed,      \* did a task of this run fail?
    result,      \* what the step in hand works with
    attempt,     \* which attempt on the task this is
    \* saves
    draft,       \* the task save a worker has read the file for, if any
    ahead,       \* who may have asked for the lock of the task repository
                 \* before a worker that waits to save RUNNING did
    lateTasks,   \* the writes of cancelled saves that threads still make:
    lateEvidence, lateMission,   \* per file
    \* shared in memory
    lease,       \* the lease manager's table
    stray,       \* operations nobody awaits any more: <<task, attempt>>
    sweeper,     \* ExpiredTaskRecovery.recover
    \* the other process
    operator,    \* RecoveryService.resolve
    \* history and bounds
    started,     \* agent executions begun, per task
    approvals,   \* retries saved by the operator, per task
    faults,      \* faults that struck
    torn         \* did an operation on a file begin while a write of it was
                 \* under way that no lock kept apart: the thread of a
                 \* cancelled save, or a save of the other process?

stores == <<stored, evidence, mission>>
locals == <<pc, task, todo, keys, left, failed, result, attempt>>
late == <<lateTasks, lateEvidence, lateMission>>
shared == <<lease, stray>>
others == <<sweeper, operator>>
counts == <<started, approvals, faults>>
history == <<counts, torn>>
vars == <<stores, locals, draft, ahead, late, shared, others, history>>

TaskStatuses == {"absent", "pending", "running", "completed", "failed", "unknown"}
MissionStatuses == {"created", "running", "completed", "failed"}

\* Steps of run(): outside any handler, inside the try, inside a handler.
Outside == {"save_started", "plan", "apply", "save_running", "save_checkpoint",
            "final_read", "final_save"}
InTry == {"executing", "save_evidence", "commit", "delete_checkpoint"}
InHandler == {"mark_unknown", "mark_checkpoint"}
Active == Outside \cup InTry \cup InHandler

Results == {"none", "live", "returned", "raised", "cancelled", "accepted",
            "rejected", "running", "completed", "failed"}

Lease == [owner : Owners \cup {NoOwner}, live : BOOLEAN]
Free == [owner |-> NoOwner, live |-> FALSE]

\* A save between its read and its write: base is what it has read.
TaskSaves == [task : Tasks, status : TaskStatuses, base : [Tasks -> TaskStatuses]]
EvidenceSaves == [task : Tasks, attempt : Nat, base : [Tasks -> SUBSET Nat]]

TypeOK ==
    /\ stored \in [Tasks -> TaskStatuses]
    /\ evidence \in [Tasks -> SUBSET Nat]
    /\ mission \in MissionStatuses
    /\ pc \in [Workers -> Active \cup {"idle"}]
    /\ task \in [Workers -> Tasks \cup {NoTask}]
    /\ todo \in [Workers -> SUBSET Tasks]
    /\ keys \in [Workers -> SUBSET {Key[t] : t \in Tasks}]
    /\ left \in [Workers -> Nat]
    /\ failed \in [Workers -> BOOLEAN]
    /\ result \in [Workers -> Results]
    /\ attempt \in [Workers -> Nat]
    /\ draft \in [Workers -> SUBSET TaskSaves]
    /\ ahead \in [Workers -> SUBSET (Workers \cup {"sweeper"})]
    /\ lateTasks \subseteq TaskSaves
    /\ lateEvidence \subseteq EvidenceSaves
    /\ lateMission \subseteq MissionStatuses
    /\ lease \in [Tasks -> Lease]
    /\ stray \subseteq Tasks \X Nat
    /\ sweeper \in [step : {"idle", "read", "save", "checkpoint"}, queue : SUBSET Tasks,
                    task : Tasks \cup {NoTask}, draft : SUBSET TaskSaves]
    /\ operator \in [step : {"idle", "save", "delete"}, task : Tasks \cup {NoTask},
                     retry : BOOLEAN, draft : SUBSET TaskSaves]
    /\ started \in [Tasks -> Nat]
    /\ approvals \in [Tasks -> Nat]
    /\ faults \in Nat
    /\ torn \in BOOLEAN

AtRest == [step |-> "idle", queue |-> {}, task |-> NoTask, draft |-> {}]
NotCalled == [step |-> "idle", task |-> NoTask, retry |-> FALSE, draft |-> {}]

Init ==
    /\ stored = [t \in Tasks |-> IF t \in InitialTasks THEN "pending" ELSE "absent"]
    /\ evidence = [t \in Tasks |-> {}]
    /\ mission = "created"
    /\ pc = [w \in Workers |-> "idle"]
    /\ task = [w \in Workers |-> NoTask]
    /\ todo = [w \in Workers |-> {}]
    /\ keys = [w \in Workers |-> {}]
    /\ left = [w \in Workers |-> 0]
    /\ failed = [w \in Workers |-> FALSE]
    /\ result = [w \in Workers |-> "none"]
    /\ attempt = [w \in Workers |-> 0]
    /\ draft = [w \in Workers |-> {}]
    /\ ahead = [w \in Workers |-> {}]
    /\ lateTasks = {} /\ lateEvidence = {} /\ lateMission = {}
    /\ lease = [t \in Tasks |-> Free]
    /\ stray = {}
    /\ sweeper = AtRest
    /\ operator = NotCalled
    /\ started = [t \in Tasks |-> 0]
    /\ approvals = [t \in Tasks |-> 0]
    /\ faults = 0
    /\ torn = FALSE

-------------------------------------------------------------------------------
(* The task file.                                                              *)

Stored == {t \in Tasks : stored[t] # "absent"}
Pending_IncludesRunning == {t \in Tasks : stored[t] \in {"pending", "running"}}
Pending == {t \in Tasks : stored[t] = "pending"}

\* PriorityScheduler: a pending task of the highest priority.
Candidates == {t \in Pending : \A u \in Pending : Priority[u] <= Priority[t]}

\* The saves of this process that hold the repository's lock, between the read
\* of the file and its replacement.
Replacing == (UNION {draft[w] : w \in Workers}) \cup sweeper.draft

\* The lock is free, and x does not overtake a worker that waits to save RUNNING:
\* that save is asked for when the task is claimed, and asyncio.Lock serves in
\* the order of asking.  Between other steps of a run and the save they lead to,
\* planner, verifier or subscribers may take any time, so any order is possible.
Unlocked(x) ==
    /\ Replacing = {}
    /\ \A w \in Workers \ {x} :
          pc[w] = "save_running" /\ draft[w] = {} => x \in ahead[w]

\* x has been served, or waits no longer.
Served(x) ==
    [w \in Workers |-> IF w = x THEN {} ELSE ahead[w] \ {x}]

\* Who else may have asked for the lock by now.
Asking(w) ==
    {v \in Workers \ {w} : pc[v] \in {"plan", "apply", "save_running", "commit",
                                     "mark_unknown", "final_read"}}
        \cup {x \in {"sweeper"} : sweeper.step \in {"read", "save"}}

\* x reads the file under the lock.
ReadTasks(x) ==
    /\ Unlocked(x)
    /\ torn' = (torn \/ lateTasks # {})
    /\ UNCHANGED <<stores, draft, late>>

Save(t, s) == [task |-> t, status |-> s, base |-> stored]
Written(d) == [d.base EXCEPT ![d.task] = d.status]

\* The thread of save d replaces the file.
Replace(d) ==
    /\ stored' = Written(d)
    /\ UNCHANGED <<evidence, mission>>

(* The evidence and the mission file.                                          *)

StoreEvidence(t, n) ==
    /\ evidence' = [evidence EXCEPT ![t] = @ \cup {n}]
    /\ torn' = (torn \/ lateEvidence # {})
    /\ UNCHANGED <<stored, mission>>

StoreMission(s) ==
    /\ mission' = s
    /\ torn' = (torn \/ lateMission # {})
    /\ UNCHANGED <<stored, evidence>>

(* The lease manager, with time abstracted to live or lapsed.                  *)

CanAcquire_AnyOwner(t, o) == TRUE
CanAcquire(t, o) == lease[t].live => lease[t].owner = o
Acquired(t, o) == [owner |-> o, live |-> TRUE]
Released(t, o) == IF lease[t].owner = o THEN Free ELSE lease[t]
Lapsed(t) == lease[t].owner # NoOwner /\ ~lease[t].live

Holds(w) == lease[task[w]] = [owner |-> OwnerOf[w], live |-> TRUE]

(* The worker's locals.                                                        *)

\* Go to step p with r in hand.
Step(w, p, r) ==
    /\ pc' = [pc EXCEPT ![w] = p]
    /\ result' = [result EXCEPT ![w] = r]
    /\ UNCHANGED <<task, todo, keys, left, failed, attempt>>

\* Go to step p without a task; f says whether a task of the run has failed.
LeaveTask(w, p, f) ==
    /\ pc' = [pc EXCEPT ![w] = p]
    /\ task' = [task EXCEPT ![w] = NoTask]
    /\ result' = [result EXCEPT ![w] = "none"]
    /\ attempt' = [attempt EXCEPT ![w] = 0]
    /\ failed' = [failed EXCEPT ![w] = f]
    /\ UNCHANGED <<todo, keys, left>>

\* run() is over: its frame is gone.
Forget(W) ==
    /\ pc' = [w \in Workers |-> IF w \in W THEN "idle" ELSE pc[w]]
    /\ task' = [w \in Workers |-> IF w \in W THEN NoTask ELSE task[w]]
    /\ todo' = [w \in Workers |-> IF w \in W THEN {} ELSE todo[w]]
    /\ keys' = [w \in Workers |-> IF w \in W THEN {} ELSE keys[w]]
    /\ left' = [w \in Workers |-> IF w \in W THEN 0 ELSE left[w]]
    /\ failed' = [w \in Workers |-> IF w \in W THEN FALSE ELSE failed[w]]
    /\ result' = [w \in Workers |-> IF w \in W THEN "none" ELSE result[w]]
    /\ attempt' = [w \in Workers |-> IF w \in W THEN 0 ELSE attempt[w]]

FreeLeaseOf(w) ==
    lease' = [lease EXCEPT ![task[w]] = Released(task[w], OwnerOf[w])]

-------------------------------------------------------------------------------
(* MissionService.run, step by step.                                           *)

\* The mission is read and its status set.
StartRun(w) ==
    /\ pc[w] = "idle"
    /\ pc' = [pc EXCEPT ![w] = "save_started"]
    /\ result' = [result EXCEPT ![w] = "running"]
    /\ left' = [left EXCEPT ![w] = MaxTasks]
    /\ UNCHANGED <<task, todo, keys, failed, attempt>>
    /\ UNCHANGED <<stores, draft, ahead, late, shared, others, history>>

\* It is saved; the loop starts.
SaveStarted(w) ==
    /\ pc[w] = "save_started"
    /\ StoreMission(result[w])
    /\ Step(w, "plan", "none")
    /\ UNCHANGED <<draft, ahead, late, shared, others, counts>>

\* range(max_tasks) is exhausted.
LoopEnds(w) ==
    /\ pc[w] = "plan"
    /\ left[w] = 0
    /\ Step(w, "final_read", "none")
    /\ UNCHANGED <<stores, draft, ahead, late, shared, others, history>>

\* A proposal has an id of its own, that no task, proposal or save has.
Fresh ==
    {t \in Tasks \ Stored :
        /\ \A v \in Workers : t \notin todo[v]
        /\ \A d \in Replacing \cup lateTasks \cup operator.draft : d.base[t] = "absent"
        /\ \A d \in lateTasks : d.task # t}

\* The planner proposes tasks with fresh ids; apply() lists the known keys.
Plan(w) ==
    /\ pc[w] = "plan"
    /\ left[w] > 0
    /\ ReadTasks(w)
    /\ ahead' = Served(w)
    /\ \E S \in SUBSET Fresh : todo' = [todo EXCEPT ![w] = S]
    /\ keys' = [keys EXCEPT ![w] = {Key[t] : t \in Stored}]
    /\ left' = [left EXCEPT ![w] = @ - 1]
    /\ pc' = [pc EXCEPT ![w] = "apply"]
    /\ UNCHANGED <<task, failed, result, attempt>>
    /\ UNCHANGED <<shared, others, counts>>

IsDuplicate_Never(w, t) == FALSE
IsDuplicate(w, t) == Key[t] \in keys[w]

\* The task save that w is about to make.
Saving(w, t, s) ==
    \/ pc[w] = "apply" /\ t \in todo[w] /\ ~IsDuplicate(w, t) /\ s = "pending"
    \/ pc[w] = "save_running" /\ t = task[w] /\ s = "running"
    \/ pc[w] = "commit" /\ t = task[w] /\ s \in {"completed", "failed"}
    \/ pc[w] = "mark_unknown" /\ t = task[w] /\ s = "unknown"

\* It gets the lock and its thread reads the file.
BeginSave(w) ==
    /\ Unlocked(w)
    /\ \E t \in Tasks, s \in TaskStatuses :
          Saving(w, t, s) /\ draft' = [draft EXCEPT ![w] = {Save(t, s)}]
    /\ ahead' = Served(w)
    /\ torn' = (torn \/ lateTasks # {} \/ operator.draft # {})
    /\ UNCHANGED <<stores, locals, late, shared, others, counts>>

\* Save d of w replaces the file, and w goes on.
EndSave(w, d) ==
    /\ d \in draft[w]
    /\ Replace(d)
    /\ draft' = [draft EXCEPT ![w] = {}]
    /\ UNCHANGED <<ahead, late, shared, others, history>>

\* apply(): a proposal whose key is known is dropped ...
Drop(w) ==
    /\ pc[w] = "apply"
    /\ draft[w] = {}
    /\ \E t \in todo[w] :
          IsDuplicate(w, t) /\ todo' = [todo EXCEPT ![w] = @ \ {t}]
    /\ UNCHANGED <<pc, task, keys, left, failed, result, attempt>>
    /\ UNCHANGED <<stores, draft, ahead, late, shared, others, history>>

\* ... another one is saved.
Create(w) ==
    /\ pc[w] = "apply"
    /\ \E d \in draft[w] :
          /\ EndSave(w, d)
          /\ todo' = [todo EXCEPT ![w] = @ \ {d.task}]
          /\ keys' = [keys EXCEPT ![w] = @ \cup {Key[d.task]}]
    /\ UNCHANGED <<pc, task, left, failed, result, attempt>>

\* list_pending, schedule and acquire run without a suspension in between; then
\* the save of RUNNING asks for the lock.
Claim(w) ==
    /\ pc[w] = "apply"
    /\ todo[w] = {}
    /\ ReadTasks(w)
    /\ \E t \in Candidates :
          /\ CanAcquire(t, OwnerOf[w])
          /\ lease' = [lease EXCEPT ![t] = Acquired(t, OwnerOf[w])]
          /\ task' = [task EXCEPT ![w] = t]
    /\ pc' = [pc EXCEPT ![w] = "save_running"]
    /\ keys' = [keys EXCEPT ![w] = {}]
    /\ ahead' = [Served(w) EXCEPT ![w] = Asking(w)]
    /\ UNCHANGED <<todo, left, failed, result, attempt>>
    /\ UNCHANGED <<stray, others, counts>>

\* Nothing is pending, or the lease is refused: break.
NothingToClaim(w) ==
    /\ pc[w] = "apply"
    /\ todo[w] = {}
    /\ ReadTasks(w)
    /\ ahead' = Served(w)
    /\ Pending = {} \/ \E t \in Candidates : ~CanAcquire(t, OwnerOf[w])
    /\ pc' = [pc EXCEPT ![w] = "final_read"]
    /\ keys' = [keys EXCEPT ![w] = {}]
    /\ UNCHANGED <<task, todo, left, failed, result, attempt>>
    /\ UNCHANGED <<shared, others, counts>>

SaveRunning(w) ==
    /\ pc[w] = "save_running"
    /\ \E d \in draft[w] : EndSave(w, d)
    /\ Step(w, "save_checkpoint", "none")

\* The checkpoint is saved and the agent operation created.
StartOperation(w) ==
    /\ pc[w] = "save_checkpoint"
    /\ started' = [started EXCEPT ![task[w]] = @ + 1]
    /\ attempt' = [attempt EXCEPT ![w] = started[task[w]] + 1]
    /\ pc' = [pc EXCEPT ![w] = "executing"]
    /\ result' = [result EXCEPT ![w] = "live"]
    /\ UNCHANGED <<task, todo, keys, left, failed>>
    /\ UNCHANGED <<stores, draft, ahead, late, shared, others, approvals, faults, torn>>

\* The checkpoint is saved, but context.build raises inside the try.
ContextFails(w) ==
    /\ "error" \in Faults /\ faults < MaxFaults
    /\ pc[w] = "save_checkpoint"
    /\ Step(w, "mark_unknown", "raised")
    /\ faults' = faults + 1
    /\ UNCHANGED <<stores, draft, ahead, late, shared, others, started, approvals, torn>>

\* The agent operation ends, by itself.
OperationEnds(w) ==
    /\ pc[w] = "executing"
    /\ result[w] = "live"
    /\ \E r \in {"returned", "raised"} : Step(w, "executing", r)
    /\ UNCHANGED <<stores, draft, ahead, late, shared, others, history>>

ResumeRun_ReturnedOnly(w) ==
    /\ pc[w] = "executing"
    /\ result[w] = "returned" /\ Step(w, "save_evidence", "none")
    /\ UNCHANGED <<stores, draft, ahead, late, shared, others, history>>

ResumeRun_RaisedIsCommitted(w) ==
    /\ pc[w] = "executing"
    /\ \/ result[w] = "returned" /\ Step(w, "save_evidence", "none")
       \/ result[w] = "raised" /\ Step(w, "commit", "none")
    /\ UNCHANGED <<stores, draft, ahead, late, shared, others, history>>

\* run_with_lease_heartbeat hands the outcome of the operation on.
ResumeRun(w) ==
    /\ pc[w] = "executing"
    /\ \/ result[w] = "returned" /\ Step(w, "save_evidence", "none")
       \/ result[w] = "raised" /\ Step(w, "mark_unknown", "raised")
    /\ UNCHANGED <<stores, draft, ahead, late, shared, others, history>>

\* A beat finds the lease gone: the operation is told to stop, even a result
\* that is already there is dropped, and LeaseLostError is raised.
LoseLease(w) ==
    /\ pc[w] = "executing"
    /\ ~Holds(w)
    /\ stray' = IF result[w] = "live"
                THEN stray \cup {<<task[w], attempt[w]>>} ELSE stray
    /\ Step(w, "mark_unknown", "raised")
    /\ UNCHANGED <<stores, draft, ahead, late, lease, others, history>>

SaveEvidence(w) ==
    /\ pc[w] = "save_evidence"
    /\ StoreEvidence(task[w], attempt[w])
    /\ Step(w, "commit", "none")
    /\ UNCHANGED <<draft, ahead, late, shared, others, counts>>

\* The verifier's verdict is saved.
Commit(w) ==
    /\ pc[w] = "commit"
    /\ \E d \in draft[w] :
          /\ EndSave(w, d)
          /\ Step(w, "delete_checkpoint",
                  IF d.status = "completed" THEN "accepted" ELSE "rejected")

\* The checkpoint goes, and in the finally block the lease.
DeleteCheckpoint(w) ==
    /\ pc[w] = "delete_checkpoint"
    /\ FreeLeaseOf(w)
    /\ LeaveTask(w, "plan", failed[w] \/ result[w] = "rejected")
    /\ UNCHANGED <<stores, draft, ahead, late, stray, others, history>>

\* _mark_unknown_outcome, its first save.
MarkUnknown(w) ==
    /\ pc[w] = "mark_unknown"
    /\ \E d \in draft[w] : EndSave(w, d)
    /\ Step(w, "mark_checkpoint", result[w])

\* Its second save, of the checkpoint, then the lease is released: a cancelled
\* run ends, another one counts the failure and goes on.
MarkCheckpoint(w) ==
    /\ pc[w] = "mark_checkpoint"
    /\ FreeLeaseOf(w)
    /\ \/ result[w] = "cancelled" /\ Forget({w})
       \/ result[w] = "raised" /\ LeaveTask(w, "plan", TRUE)
    /\ UNCHANGED <<stores, draft, ahead, late, stray, others, history>>

AnyTask(S) == \E t \in Tasks : stored[t] \in S

Verdict_OfTask(f) ==
    IF AnyTask({"unknown"}) THEN "unknown"
    ELSE IF f \/ AnyTask({"failed"}) THEN "failed"
    ELSE IF AnyTask({"pending", "running"}) THEN "running"
    ELSE "completed"

Verdict_UnknownIgnored(f) ==
    IF f \/ AnyTask({"failed"}) THEN "failed"
    ELSE IF AnyTask({"pending", "running"}) THEN "running"
    ELSE "completed"

\* The mission status that the task statuses add up to.
Verdict(f) ==
    IF f \/ AnyTask({"failed", "unknown"}) THEN "failed"
    ELSE IF AnyTask({"pending", "running"}) THEN "running"
    ELSE "completed"

FinalRead(w) ==
    /\ pc[w] = "final_read"
    /\ ReadTasks(w)
    /\ ahead' = Served(w)
    /\ Step(w, "final_save", Verdict(failed[w]))
    /\ UNCHANGED <<shared, others, counts>>

FinalSave(w) ==
    /\ pc[w] = "final_save"
    /\ StoreMission(result[w])
    /\ Forget({w})
    /\ UNCHANGED <<draft, ahead, late, shared, others, counts>>

-------------------------------------------------------------------------------
(* Faults.                                                                     *)

\* Where an exception raised in the step of w takes it.  Outside the try the
\* run is over and the lease stays; in the try the outcome is marked unknown;
\* in a handler the run is over, and finally releases the lease.  The lock of
\* the task repository is left on the way.
Unwind(w, outcome) ==
    /\ \/ pc[w] \in Outside /\ Forget({w}) /\ UNCHANGED shared
       \/ /\ pc[w] \in InTry
          /\ Step(w, "mark_unknown", outcome)
          /\ stray' = IF pc[w] = "executing" /\ result[w] = "live"
                      THEN stray \cup {<<task[w], attempt[w]>>} ELSE stray
          /\ UNCHANGED lease
       \/ pc[w] \in InHandler /\ Forget({w}) /\ FreeLeaseOf(w) /\ UNCHANGED stray
    /\ draft' = [draft EXCEPT ![w] = {}]
    /\ ahead' = Served(w)

\* The thread that writes for the step of w is not cancelled with it.
Detach(w) ==
    \/ /\ draft[w] # {}
       /\ lateTasks' = lateTasks \cup draft[w]
       /\ UNCHANGED <<lateEvidence, lateMission, torn>>
    \/ /\ pc[w] = "save_evidence"
       /\ lateEvidence' = lateEvidence \cup
              {[task |-> task[w], attempt |-> attempt[w], base |-> evidence]}
       /\ torn' = (torn \/ lateEvidence # {})
       /\ UNCHANGED <<lateTasks, lateMission>>
    \/ /\ pc[w] \in {"save_started", "final_save"}
       /\ lateMission' = lateMission \cup {result[w]}
       /\ torn' = (torn \/ lateMission # {})
       /\ UNCHANGED <<lateTasks, lateEvidence>>

\* run() is cancelled from outside.  A save whose write has not begun, or whose
\* thread never comes to run, is given up.
Cancel(w) ==
    /\ "cancel" \in Faults /\ faults < MaxFaults
    /\ UNCHANGED <<late, torn>> \/ Detach(w)
    /\ Unwind(w, "cancelled")
    /\ faults' = faults + 1
    /\ UNCHANGED <<stores, others, started, approvals>>

\* The thread of a cancelled save replaces the file.
LateLands ==
    /\ \/ \E d \in lateTasks :
             /\ Replace(d)
             /\ lateTasks' = lateTasks \ {d}
             /\ UNCHANGED <<lateEvidence, lateMission>>
       \/ \E e \in lateEvidence :
             /\ evidence' = [e.base EXCEPT ![e.task] = @ \cup {e.attempt}]
             /\ lateEvidence' = lateEvidence \ {e}
             /\ UNCHANGED <<stored, mission, lateTasks, lateMission>>
       \/ \E s \in lateMission :
             /\ mission' = s
             /\ lateMission' = lateMission \ {s}
             /\ UNCHANGED <<stored, evidence, lateTasks, lateEvidence>>
    /\ UNCHANGED <<locals, draft, ahead, shared, others, history>>

\* A store, the planner or the verifier raises: nothing was written.
Fail(w) ==
    /\ "error" \in Faults /\ faults < MaxFaults
    /\ pc[w] # "executing"
    /\ Unwind(w, "raised")
    /\ faults' = faults + 1
    /\ UNCHANGED <<stores, late, others, started, approvals, torn>>

\* The process dies: frames, threads, leases, operations and the sweeper are
\* gone.  A write that had landed by then is a step of its own.
Crash ==
    /\ "crash" \in Faults /\ faults < MaxFaults
    /\ Forget(Workers)
    /\ draft' = [w \in Workers |-> {}]
    /\ ahead' = [w \in Workers |-> {}]
    /\ lateTasks' = {} /\ lateEvidence' = {} /\ lateMission' = {}
    /\ lease' = [t \in Tasks |-> Free]
    /\ stray' = {}
    /\ sweeper' = AtRest
    /\ faults' = faults + 1
    /\ UNCHANGED <<stores, operator, started, approvals, torn>>

\* An operation that nobody awaits runs to its end.
StrayEnds ==
    /\ \E s \in stray : stray' = stray \ {s}
    /\ UNCHANGED <<stores, locals, draft, ahead, late, lease, others, history>>

-------------------------------------------------------------------------------
(* Expiry, and ExpiredTaskRecovery.recover.                                    *)

Expire(t) ==
    /\ \/ Expiry = "any"
       \/ Expiry = "leaked" /\ \A w \in Workers : task[w] # t
    /\ lease[t].live
    /\ lease' = [lease EXCEPT ![t].live = FALSE]
    /\ UNCHANGED <<stores, locals, draft, ahead, late, stray, others, history>>

\* pop_expired removes every lapsed lease.
SweepPop ==
    /\ Sweeping
    /\ sweeper.step = "idle"
    /\ \E t \in Tasks : Lapsed(t)
    /\ sweeper' = [AtRest EXCEPT !.step = "read", !.queue = {t \in Tasks : Lapsed(t)}]
    /\ lease' = [t \in Tasks |-> IF Lapsed(t) THEN Free ELSE lease[t]]
    /\ UNCHANGED <<stores, locals, draft, ahead, late, stray, operator, history>>

NeedsRecovery_Pending(t) == stored[t] = "pending"
NeedsRecovery(t) == stored[t] = "running"

\* The next popped task is read; only a running one is dealt with.
SweepRead ==
    /\ sweeper.step = "read"
    /\ ReadTasks("sweeper")
    /\ ahead' = Served("sweeper")
    /\ \E t \in sweeper.queue :
          sweeper' = IF NeedsRecovery(t)
                     THEN [sweeper EXCEPT !.step = "save", !.queue = @ \ {t}, !.task = t]
                     ELSE [sweeper EXCEPT !.queue = @ \ {t}]
    /\ UNCHANGED <<locals, shared, operator, counts>>

SweepBegin ==
    /\ sweeper.step = "save"
    /\ Unlocked("sweeper")
    /\ sweeper' = [sweeper EXCEPT !.draft = {Save(sweeper.task, "unknown")}]
    /\ ahead' = Served("sweeper")
    /\ torn' = (torn \/ lateTasks # {} \/ operator.draft # {})
    /\ UNCHANGED <<stores, locals, draft, late, shared, operator, counts>>

SweepSave ==
    /\ \E d \in sweeper.draft : Replace(d)
    /\ sweeper' = [sweeper EXCEPT !.step = "checkpoint", !.draft = {}]
    /\ UNCHANGED <<locals, draft, ahead, late, shared, operator, history>>

\* The checkpoint is saved.
SweepCheckpoint ==
    /\ sweeper.step = "checkpoint"
    /\ sweeper' = [sweeper EXCEPT !.step = "read", !.task = NoTask]
    /\ UNCHANGED <<stores, locals, draft, ahead, late, shared, operator, history>>

SweepEnds ==
    /\ sweeper.step = "read" /\ sweeper.queue = {}
    /\ sweeper' = AtRest
    /\ UNCHANGED <<stores, locals, draft, ahead, late, shared, operator, history>>

\* A store raises in recover(), or the call is cancelled: the leases it popped
\* are forgotten.  The thread of a cancelled save goes on, or never comes to run.
SweepFails ==
    /\ {"error", "cancel"} \cap Faults # {} /\ faults < MaxFaults
    /\ sweeper.step # "idle"
    /\ \/ UNCHANGED lateTasks
       \/ "cancel" \in Faults /\ lateTasks' = lateTasks \cup sweeper.draft
    /\ sweeper' = AtRest
    /\ ahead' = Served("sweeper")
    /\ faults' = faults + 1
    /\ UNCHANGED <<stores, locals, draft, lateEvidence, lateMission, shared, operator>>
    /\ UNCHANGED <<started, approvals, torn>>

-------------------------------------------------------------------------------
(* RecoveryService.resolve, in a process with a repository and a lock of its   *)
(* own.                                                                        *)

MayResolve_AnyStatus(t) == stored[t] # "absent"
MayResolve(t) == stored[t] = "unknown"

ResolveRead(t, retry) ==
    /\ operator.step = "idle"
    /\ MayResolve(t)
    /\ retry => approvals[t] < MaxApprovals
    /\ operator' = [NotCalled EXCEPT !.step = "save", !.task = t, !.retry = retry]
    /\ torn' = (torn \/ lateTasks # {})
    /\ UNCHANGED <<stores, locals, draft, ahead, late, shared, sweeper, counts>>

\* The save reads the file once more.
ResolveBegin ==
    /\ operator.step = "save"
    /\ operator.draft = {}
    /\ operator' = [operator EXCEPT !.draft =
          {Save(operator.task, IF operator.retry THEN "pending" ELSE "failed")}]
    /\ torn' = (torn \/ lateTasks # {} \/ Replacing # {})
    /\ UNCHANGED <<stores, locals, draft, ahead, late, shared, sweeper, counts>>

ResolveSave ==
    /\ \E d \in operator.draft : Replace(d)
    /\ approvals' = IF operator.retry
                    THEN [approvals EXCEPT ![operator.task] = @ + 1] ELSE approvals
    /\ operator' = [operator EXCEPT !.step = "delete", !.draft = {}]
    /\ UNCHANGED <<locals, draft, ahead, late, shared, sweeper, started, faults, torn>>

\* The checkpoint is deleted.
ResolveDelete ==
    /\ operator.step = "delete"
    /\ operator' = NotCalled
    /\ UNCHANGED <<stores, locals, draft, ahead, late, shared, sweeper, history>>

\* The operator's process dies half-way.
OperatorDies ==
    /\ "crash" \in Faults /\ faults < MaxFaults
    /\ operator.step # "idle"
    /\ operator' = NotCalled
    /\ faults' = faults + 1
    /\ UNCHANGED <<stores, locals, draft, ahead, late, shared, sweeper>>
    /\ UNCHANGED <<started, approvals, torn>>

-------------------------------------------------------------------------------
\* The steps a run takes by itself once it has started.
Work(w) ==
    \/ SaveStarted(w) \/ LoopEnds(w) \/ Plan(w) \/ BeginSave(w) \/ Drop(w) \/ Create(w)
    \/ Claim(w) \/ NothingToClaim(w) \/ SaveRunning(w) \/ StartOperation(w)
    \/ OperationEnds(w) \/ ResumeRun(w) \/ LoseLease(w) \/ SaveEvidence(w) \/ Commit(w)
    \/ DeleteCheckpoint(w) \/ MarkUnknown(w) \/ MarkCheckpoint(w) \/ FinalRead(w)
    \/ FinalSave(w)

\* What a sweep does once it has begun.
Recover == SweepRead \/ SweepBegin \/ SweepSave \/ SweepCheckpoint \/ SweepEnds

Resolve ==
    \/ \E t \in Tasks, retry \in BOOLEAN : ResolveRead(t, retry)
    \/ ResolveBegin \/ ResolveSave \/ ResolveDelete

Next ==
    \/ \E w \in Workers :
          StartRun(w) \/ Work(w) \/ ContextFails(w) \/ Cancel(w) \/ Fail(w)
    \/ \E t \in Tasks : Expire(t)
    \/ LateLands \/ StrayEnds \/ SweepPop \/ Recover \/ SweepFails
    \/ Resolve \/ OperatorDies \/ Crash

Spec == Init /\ [][Next]_vars

\* A run's own steps are taken as long as its process lives: the agent is
\* bounded by its step limit and timeout, stores and planner by the event loop,
\* and the repository's lock serves in the order of asking.  The same holds of a
\* sweep that has begun; that one ever begins is not assumed, and no lease has
\* to lapse.
WorkFairness == \A w \in Workers : SF_vars(Work(w))
SweepFairness == SF_vars(Recover)
OperatorFairness == WF_vars(Resolve)

HostSpec == Spec /\ WorkFairness /\ SweepFairness
CliSpec ==
    /\ Spec /\ WorkFairness /\ OperatorFairness
    /\ \A w \in Workers : WF_vars(StartRun(w))

-------------------------------------------------------------------------------
\* The following hold as long as saves do not tear the files: no operation on
\* one of them begins while a thread of a cancelled save is still to write it,
\* and no save of a run overlaps one of the operator.

\* A task whose outcome is unknown is put back, or given up, by the operator
\* only; no run takes it up by itself.
UnknownStaysUntilResolved ==
    [][\A t \in Tasks :
          stored[t] = "unknown" /\ stored'[t] # "unknown" =>
              torn' \/ (operator.step = "save" /\ operator.task = t)]_vars

\* An agent execution needs a right to run: the first comes with the task, each
\* further one from an operator who resolved an unknown outcome to retry.  No
\* crash, cancellation, failed save or other worker brings an execution about.
AtMostOncePerApproval ==
    ~torn => \A t \in Tasks : started[t] <= approvals[t] + 1

\* A completed task's last attempt has its agent evidence in the repository:
\* the evidence a verdict rests on is stored before the verdict, and is that
\* of the attempt the verdict is about.
CompletedHasEvidence ==
    ~torn => \A t \in Tasks : stored[t] = "completed" => started[t] \in evidence[t]

\* A mission is stored as completed only while every task of it is: no task
\* settles otherwise, is reopened or is created behind the stored verdict.
CompletedMissionIsComplete ==
    ~torn /\ mission = "completed" => \A t \in Stored : stored[t] = "completed"

\* No two stored tasks share a deduplication key.
NoDuplicateTasks ==
    ~torn => \A t, u \in Stored : Key[t] = Key[u] => t = u

\* The operations running on a task, awaited or stray.
Operations(t) ==
    {w \in Workers : task[w] = t /\ pc[w] = "executing" /\ result[w] = "live"}
        \cup {s \in stray : s[1] = t}

\* The agent never runs twice at the same time on one task.  This needs nothing
\* of the files.
ExclusiveExecution ==
    \A t \in Tasks : \A a, b \in Operations(t) : a = b

\* When no run is active, no task is left stored as running.
NoRunNoRunningTask ==
    (\A w \in Workers : pc[w] = "idle") => ~AnyTask({"running"})

\* Stored as running, or about to be by the thread of a cancelled save, and
\* neither a run, the sweeper nor a lease that will lapse is left to deal with it.
Stranded(t) ==
    /\ \/ stored[t] = "running"
       \/ \E d \in lateTasks : d.task = t /\ d.status = "running"
    /\ lease[t].owner = NoOwner
    /\ \A w \in Workers : task[w] # t
    /\ t \notin sweeper.queue
    /\ ~(sweeper.step = "save" /\ sweeper.task = t)

\* Runs, sweeper and operator, however they interleave, strand no task: that
\* takes a crash, a cancellation or a failing store in that very step, or saves
\* that tear the file.
OnlyFaultsStrand ==
    [][\A t \in Tasks : ~Stranded(t) /\ Stranded(t)' => faults' # faults \/ torn']_vars

Lifecycle ==
    INSTANCE TaskLifecycle WITH status <- stored, executions <- started, dirty <- torn

\* Every step of workers, sweeper, operator and faults is one of the moves of
\* TaskLifecycle, or changes nothing it speaks of.
ImplementsTaskLifecycle == Lifecycle!Spec

LeaseContract ==
    INSTANCE LeaseService WITH
        holder <- [t \in Tasks |-> IF lease[t].live THEN lease[t].owner ELSE NoOwner]

\* The leases change hands as LeaseService promises.
ImplementsLeaseService == LeaseContract!Spec

\* A run that has started ends.
RunEnds == \A w \in Workers : pc[w] # "idle" ~> pc[w] = "idle"

\* How far a run is from the end of its round of the loop; r is its result.
Distance(p, r) ==
    CASE p = "save_started"      -> 13
      [] p = "apply"             -> 12
      [] p = "save_running"      -> 11
      [] p = "save_checkpoint"   -> 10
      [] p = "executing"         -> IF r = "live" THEN 9 ELSE 8
      [] p = "save_evidence"     -> 7
      [] p = "commit"            -> 6
      [] p = "delete_checkpoint" -> 5
      [] p = "mark_unknown"      -> 4
      [] p = "mark_checkpoint"   -> 3
      [] p = "plan"              -> 2
      [] p = "final_read"        -> 1
      [] p \in {"final_save", "idle"} -> 0

\* Fewer rounds left, or further in the round, or fewer proposals left to save,
\* or half-way through a save: an order without infinite descent, as a plan has
\* finitely many proposals.
Nearer(w) ==
    \/ left'[w] < left[w]
    \/ /\ left'[w] = left[w]
       /\ \/ Distance(pc'[w], result'[w]) < Distance(pc[w], result[w])
          \/ /\ pc[w] = "apply" /\ pc'[w] = "apply"
             /\ todo'[w] \subseteq todo[w] /\ todo'[w] # todo[w]
          \/ /\ pc'[w] = pc[w] /\ todo'[w] = todo[w] /\ result'[w] = result[w]
             /\ draft[w] = {} /\ draft'[w] # {}

Unmoved(w) ==
    /\ pc'[w] = pc[w] /\ left'[w] = left[w] /\ draft'[w] = draft[w]
    /\ todo'[w] = todo[w] /\ result'[w] = result[w]

\* A run never turns back: whatever runs, sweeper, operator and faults do, what
\* changes of a run brings it nearer to its end.  No handler leads back into the
\* task it handles, and no other run's tasks keep a run in its loop.
RunsDescend ==
    [][\A w \in Workers :
          pc[w] # "idle" => pc'[w] = "idle" \/ Unmoved(w) \/ Nearer(w)]_vars

\* A task stored as running whose lease recover() has popped does not stay so,
\* whatever runs, expiry and operator do meanwhile, unless a fault strikes.
PoppedTaskIsRecovered ==
    \A t \in Tasks, n \in 0 .. MaxFaults :
        t \in sweeper.queue /\ stored[t] = "running" /\ faults = n
            ~> stored[t] # "running" \/ faults # n

\* A task stored as running does not stay so for ever.
RunningIsTemporary ==
    \A t \in Tasks : stored[t] = "running" ~> stored[t] # "running"
===============================================================================
