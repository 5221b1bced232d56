------------------------ MODULE MissionLifecycleProofs ------------------------
(***************************************************************************)
(* What becomes of a task: that no task is left running in nobody's hands  *)
(* but by a fault, and that MissionService implements TaskLifecycle.  For  *)
(* every number of workers and tasks, as long as each worker has an owner  *)
(* id of its own, either the leases of running tasks are kept alive or     *)
(* there is one run only, and saves do not tear the files.                 *)
(***************************************************************************)
EXTENDS MissionSafetyProofs

(* While a cancelled save is still to land, no run reads or writes the task *)
(* file: what it would read would be torn.                                  *)

LEMMA LateHalts ==
  ASSUME Clean, ~torn', lateTasks # {}, NEW w \in Workers, RunStep(w)
  PROVE  /\ \A v \in Workers : draft[v] = {}
         /\ lateTasks' = lateTasks
         /\ ~BeginSave(w) /\ ~EndOfSave(w) /\ ~Plan(w) /\ ~Claim(w) /\ ~FinalRead(w)
<1>1. \A v \in Workers : draft[v] = {}
  BY DEF Clean, TasksClean
<1>2. ~BeginSave(w) /\ ~Plan(w) /\ ~Claim(w) /\ ~FinalRead(w)
  BY DEF BeginSave, Plan, Claim, FinalRead, ReadTasks
<1>3. ~EndOfSave(w)
  BY <1>1 DEF EndOfSave, Create, SaveRunning, Commit, MarkUnknown
<1> QED BY <1>1, <1>2, <1>3, RunLate

\* What becomes of the late writes in the other steps.
LEMMA RestLate ==
  ASSUME Elsewhere
  PROVE  lateTasks' \subseteq lateTasks \cup sweeper.draft
BY ZenonT(60)
   DEF Elsewhere, Expire, LateLands, StrayEnds, SweepPop, Recover, SweepRead, ReadTasks, SweepBegin,
       SweepSave, SweepCheckpoint, SweepEnds, SweepFails, Resolve, ResolveRead, ResolveBegin,
       ResolveSave, ResolveDelete, OperatorDies, late

\* The saves that change the task file without a step of a run.
LEMMA RestStores ==
  ASSUME TypeInv, Clean, Elsewhere
  PROVE  \/ UNCHANGED stored
         \/ /\ LateLands
            /\ \E d \in lateTasks : StoreTask(d.task, d.status) /\ lateTasks' = {}
         \/ SweepSave /\ StoreTask(sweeper.task, "unknown")
         \/ /\ ResolveSave
            /\ StoreTask(operator.task, IF operator.retry THEN "pending" ELSE "failed")
<1>1. CASE SweepSave
  <2>1. PICK d \in sweeper.draft : Replace(d)
    BY <1>1 DEF SweepSave
  <2> QED BY <1>1, <2>1, Lands DEF TypeInv, SweeperOK
<1>2. CASE ResolveSave
  <2>1. PICK d \in operator.draft : Replace(d)
    BY <1>2 DEF ResolveSave
  <2> QED BY <1>2, <2>1, Lands DEF TypeInv, OperatorOK
<1>3. CASE LateLands /\ stored' # stored
  <2>1. PICK d \in lateTasks : Replace(d) /\ lateTasks' = lateTasks \ {d}
    BY <1>3 DEF LateLands
  <2>2. lateTasks' = {}
    BY <2>1 DEF Clean, TasksClean
  <2> QED BY <1>3, <2>1, <2>2, Lands
<1> QED BY <1>1, <1>2, <1>3
        DEF Elsewhere, Expire, StrayEnds, SweepPop, Recover, SweepRead, ReadTasks, SweepBegin,
            SweepCheckpoint, SweepEnds, SweepFails, Resolve, ResolveRead, ResolveBegin, ResolveDelete,
            OperatorDies, stores

-------------------------------------------------------------------------------
(* Stranding.  A worker lets go of its task when the task is settled, and the *)
(* sweeper forgets no task it has taken from the lease table.                 *)

HandsAt(w) == pc[w] \notin Holding => task[w] = NoTask
QueueInv == sweeper.step = "idle" => sweeper.queue = {}
HandsInv == (\A w \in Workers : HandsAt(w)) /\ QueueInv

SettledAt(w) == pc[w] \in {"delete_checkpoint", "mark_checkpoint"} => stored[task[w]] # "running"

\* No late write but one of the sweeper's comes upon a run that has the task, unless
\* that run has given the attempt up.
LateHands(d) ==
    \A w \in Workers :
        pc[w] \in Holding /\ task[w] = d.task =>
            \/ d.status = "unknown"
            \/ pc[w] = "mark_unknown" /\ d.status \in {"completed", "failed"}

SettledInv == (\A w \in Workers : SettledAt(w)) /\ \A d \in lateTasks : LateHands(d)

LEMMA HandsOwn ==
  ASSUME TypeInv, NEW w \in Workers, HandsAt(w), RunStep(w)
  PROVE  HandsAt(w)'
<1> USE DEF HandsAt, Holding, InTry, InHandler
<1>1. CASE SaveStarted(w) \/ StepOn(w) \/ SaveRunning(w) \/ Commit(w) \/ MarkUnknown(w)
           \/ SaveEvidence(w) \/ FinalRead(w)
  <2>1. PICK p, r : Step(w, p, r) /\ (pc[w] \in Holding => p \in Holding)
    BY <1>1 DEF SaveStarted, StepOn, LoopEnds, OperationEnds, ResumeRun, LoseLease, ContextFails,
                SaveRunning, Commit, MarkUnknown, SaveEvidence, FinalRead
  <2>2. pc'[w] = p /\ task' = task
    BY <2>1, StepFrame DEF TypeInv
  <2> QED BY <2>1, <2>2
<1>2. CASE StartRun(w) \/ Plan(w) \/ Drop(w) \/ Create(w) \/ NothingToClaim(w)
  BY <1>2 DEF StartRun, Plan, Drop, Create, NothingToClaim, TypeInv, RunsOK
<1>3. CASE BeginSave(w)
  BY <1>3 DEF BeginSave, locals
<1>4. CASE Claim(w) \/ StartOperation(w)
  BY <1>4 DEF Claim, StartOperation, TypeInv, RunsOK
<1>5. CASE \/ Forget({w})
           \/ LeaveTask(w, "plan", failed[w] \/ result[w] = "rejected") \/ LeaveTask(w, "plan", TRUE)
  <2>1. task'[w] = NoTask
    BY <1>5, ForgetFrame, LeaveFrame DEF TypeInv
  <2> QED BY <2>1
<1>6. CASE DeleteCheckpoint(w) \/ MarkCheckpoint(w) \/ FinalSave(w)
  BY <1>5, <1>6 DEF DeleteCheckpoint, MarkCheckpoint, FinalSave
<1>7. CASE Cancel(w) \/ Fail(w)
  <2>1. ASSUME NEW r, Step(w, "mark_unknown", r) PROVE HandsAt(w)'
    BY <2>1, StepFrame DEF TypeInv
  <2> QED BY <1>5, <1>7, <2>1 DEF Cancel, Fail, Unwind
<1> QED BY <1>1, <1>2, <1>3, <1>4, <1>6, <1>7, RunCases DEF EndOfSave

LEMMA SameSweeper ==
  ASSUME NEW w \in Workers, RunStep(w)
  PROVE  UNCHANGED sweeper
BY RunCases
   DEF StartRun, SaveStarted, StepOn, LoopEnds, OperationEnds, ResumeRun, LoseLease, ContextFails,
       Plan, BeginSave, Drop, EndOfSave, Create, SaveRunning, Commit, MarkUnknown, EndSave, Claim,
       NothingToClaim, StartOperation, SaveEvidence, DeleteCheckpoint, MarkCheckpoint, FinalRead,
       FinalSave, Cancel, Fail, others

LEMMA HandsStep ==
  ASSUME TypeInv, HandsInv, [Next]_vars
  PROVE  HandsInv'
<1>1. ASSUME NEW w \in Workers, RunStep(w) PROVE HandsInv'
  <2>1. \A v \in Workers \ {w} : HandsAt(v)'
    BY <1>1, OthersStay DEF TypeInv, HandsInv, HandsAt, SameWorker
  <2>2. HandsAt(w)'
    BY <1>1, HandsOwn DEF HandsInv
  <2>3. UNCHANGED sweeper
    BY <1>1, SameSweeper
  <2> QED BY <2>1, <2>2, <2>3 DEF HandsInv, QueueInv
<1>2. CASE Crash
  BY <1>2 DEF Crash, Forget, AtRest, HandsInv, HandsAt, QueueInv
<1>3. CASE Elsewhere
  <2>1. UNCHANGED locals
    BY SMTT(60), <1>3, ElsewhereFrame
  <2>2. QueueInv'
    <3>1. CASE SweepPop
      BY <3>1 DEF SweepPop, AtRest, QueueInv
    <3>2. CASE SweepEnds \/ SweepFails
      BY <3>2 DEF SweepEnds, SweepFails, AtRest, QueueInv
    <3>3. CASE SweepRead
      <4>1. PICK t \in sweeper.queue :
              sweeper' = IF NeedsRecovery(t)
                         THEN [sweeper EXCEPT !.step = "save", !.queue = @ \ {t}, !.task = t]
                         ELSE [sweeper EXCEPT !.queue = @ \ {t}]
        BY <3>3 DEF SweepRead
      <4>2. sweeper'.step # "idle"
        BY <3>3, <4>1 DEF SweepRead, TypeInv, SweeperOK
      <4> QED BY <4>2 DEF QueueInv
    <3>4. CASE SweepBegin \/ SweepSave \/ SweepCheckpoint
      <4>1. sweeper'.step # "idle"
        BY <3>4 DEF SweepBegin, SweepSave, SweepCheckpoint, TypeInv, SweeperOK
      <4> QED BY <4>1 DEF QueueInv
    <3>5. CASE UNCHANGED sweeper
      BY <3>5 DEF HandsInv, QueueInv
    <3> QED BY <1>3, <3>1, <3>2, <3>3, <3>4, <3>5
            DEF Elsewhere, Recover, Resolve, Expire, LateLands, StrayEnds, ResolveRead, ResolveBegin,
                ResolveSave, ResolveDelete, OperatorDies, others
  <2> QED BY <2>1, <2>2 DEF HandsInv, HandsAt, locals
<1>4. CASE UNCHANGED vars
  BY <1>4 DEF vars, locals, others, HandsInv, HandsAt, QueueInv
<1> QED BY <1>1, <1>2, <1>3, <1>4, NextCases

LEMMA SettledOwn ==
  ASSUME TypeInv, SafetyInv, NEW w \in Workers, SettledAt(w), RunStep(w)
  PROVE  SettledAt(w)'
<1> USE DEF SettledAt
<1>1. CASE SaveStarted(w) \/ StepOn(w) \/ SaveRunning(w) \/ SaveEvidence(w) \/ FinalRead(w)
  <2>1. PICK p, r : Step(w, p, r) /\ p \notin {"delete_checkpoint", "mark_checkpoint"}
    BY <1>1 DEF SaveStarted, StepOn, LoopEnds, OperationEnds, ResumeRun, LoseLease, ContextFails,
                SaveRunning, SaveEvidence, FinalRead
  <2> QED BY <2>1, StepFrame DEF TypeInv
<1>2. CASE Commit(w) \/ MarkUnknown(w)
  <2>1. PICK d \in draft[w] : EndSave(w, d)
    BY <1>2 DEF Commit, MarkUnknown
  <2>2. Saving(w, d.task, d.status) /\ StoreTask(d.task, d.status) /\ d.task \in Tasks
    BY <2>1, SavesOwn DEF SafetyInv
  <2>3. d.task = task[w] /\ d.status # "running"
    BY <1>2, <2>2 DEF Saving, Commit, MarkUnknown
  <2>4. task' = task
    BY <1>2, StepFrame DEF Commit, MarkUnknown, TypeInv
  <2> QED BY <2>2, <2>3, <2>4 DEF StoreTask, TypeInv, StoresOK
<1>3. CASE BeginSave(w)
  BY <1>3 DEF BeginSave, locals, stores
<1>4. CASE StartRun(w) \/ Plan(w) \/ Drop(w) \/ Create(w) \/ NothingToClaim(w) \/ Claim(w)
           \/ StartOperation(w)
  <2>1. pc'[w] \notin {"delete_checkpoint", "mark_checkpoint"}
    BY <1>4 DEF StartRun, Plan, Drop, Create, NothingToClaim, Claim, StartOperation, TypeInv, RunsOK
  <2> QED BY <2>1
<1>5. CASE \/ Forget({w}) \/ LeaveTask(w, "plan", failed[w] \/ result[w] = "rejected")
           \/ LeaveTask(w, "plan", TRUE)
  <2>1. pc'[w] \in {"idle", "plan"}
    BY <1>5, ForgetFrame, LeaveFrame DEF TypeInv
  <2> QED BY <2>1
<1>6. CASE DeleteCheckpoint(w) \/ MarkCheckpoint(w) \/ FinalSave(w)
  BY <1>5, <1>6 DEF DeleteCheckpoint, MarkCheckpoint, FinalSave
<1>7. CASE Cancel(w) \/ Fail(w)
  <2>1. ASSUME NEW r, Step(w, "mark_unknown", r) PROVE SettledAt(w)'
    BY <2>1, StepFrame DEF TypeInv
  <2> QED BY <1>5, <1>7, <2>1 DEF Cancel, Fail, Unwind
<1> QED BY <1>1, <1>2, <1>3, <1>4, <1>6, <1>7, RunCases DEF EndOfSave

\* A run that has given an attempt up stays so while a write is still to land.
LEMMA GivenUp ==
  ASSUME TypeInv, Clean, ~torn', lateTasks # {}, NEW w \in Workers, RunStep(w),
         pc[w] = "mark_unknown", pc'[w] \in Holding
  PROVE  pc'[w] = "mark_unknown"
<1>1. CASE Cancel(w) \/ Fail(w)
  <2>1. pc'[w] = "idle"
    BY <1>1, ForgetFrame DEF Cancel, Fail, Unwind, Outside, InTry, TypeInv
  <2> QED BY <2>1 DEF Holding, InTry, InHandler
<1>2. CASE ~(Cancel(w) \/ Fail(w))
  BY <1>2, LateHalts, RunCases
     DEF StartRun, SaveStarted, StepOn, LoopEnds, OperationEnds, ResumeRun, LoseLease, ContextFails,
         Drop, NothingToClaim, StartOperation, SaveEvidence, DeleteCheckpoint, MarkCheckpoint, FinalSave
<1> QED BY <1>1, <1>2

LEMMA LateHandsRun ==
  ASSUME Exclusive, TypeInv, LeaseInv, SafetyInv, SettledInv, ~torn',
         NEW w \in Workers, RunStep(w), NEW d \in lateTasks'
  PROVE  LateHands(d)'
<1>0. \A v \in Workers \ {w} : SameWorker(v)
  BY OthersStay DEF TypeInv
<1>1. CASE Cancel(w) /\ d \in draft[w]
  <2>1. Saving(w, d.task, d.status)
    BY <1>1 DEF TypeInv, DraftsOK, DraftAt
  <2>2. PICK r : Unwind(w, r)
    BY <1>1 DEF Cancel
  <2>3. CASE pc[w] = "apply"
    <3>1. pc'[w] = "idle" /\ stored[d.task] = "absent"
      BY <2>1, <2>2, <2>3, ForgetFrame
         DEF Saving, SafetyInv, TodoInv, Unwind, InTry, InHandler, TypeInv
    <3>2. \A v \in Workers : pc[v] \in Holding => task[v] # d.task
      BY <3>1 DEF SafetyInv, WorkersInv, AttemptAt
    <3> QED BY <1>0, <3>1, <3>2 DEF LateHands, SameWorker, Holding, InTry, InHandler
  <2>4. CASE pc[w] # "apply"
    <3>1. pc[w] \in Holding /\ task[w] = d.task
      BY <2>1, <2>4 DEF Saving, Holding, InTry, InHandler
    <3>2. \A v \in Workers \ {w} : pc'[v] \in Holding => task'[v] # d.task
      BY <1>0, <3>1, OneHand DEF InOneHand, SameWorker
    <3>3. CASE pc[w] = "commit"
      <4>1. pc'[w] = "mark_unknown" /\ d.status \in {"completed", "failed"}
        BY <2>1, <2>2, <3>3, StepFrame DEF Unwind, Saving, Outside, InHandler, TypeInv
      <4> QED BY <3>2, <4>1 DEF LateHands
    <3>4. CASE pc[w] \in {"save_running", "mark_unknown"}
      <4>1. pc'[w] = "idle"
        BY <2>2, <3>4, ForgetFrame DEF Unwind, Outside, InTry, InHandler, TypeInv
      <4> QED BY <3>2, <4>1 DEF LateHands, Holding, InTry, InHandler
    <3> QED BY <2>1, <2>4, <3>3, <3>4 DEF Saving
  <2> QED BY <2>3, <2>4
<1>2. CASE d \in lateTasks
  <2>1. LateHands(d) /\ lateTasks # {}
    BY <1>2 DEF SettledInv
  <2>2. pc'[w] \in Holding => pc[w] \in Holding /\ task'[w] = task[w]
    BY <2>1, LateHalts, OwnHolding DEF SafetyInv
  <2>3. pc'[w] \in Holding /\ pc[w] = "mark_unknown" => pc'[w] = "mark_unknown"
    BY <2>1, GivenUp DEF SafetyInv
  <2> QED BY <1>0, <2>1, <2>2, <2>3 DEF LateHands, SameWorker
<1> QED BY <1>1, <1>2, RunLate

LEMMA SettledStep ==
  ASSUME Exclusive, TypeInv, LeaseInv, SafetyInv, SettledInv, ~torn', [Next]_vars
  PROVE  SettledInv'
<1>1. ASSUME NEW w \in Workers, RunStep(w) PROVE SettledInv'
  <2>1. ASSUME NEW v \in Workers \ {w} PROVE SettledAt(v)'
    <3>1. SameWorker(v) /\ SettledAt(v)
      BY <1>1, OthersStay DEF TypeInv, SettledInv
    <3>2. pc[v] \in Holding => Same(task[v])
      BY <1>1, OthersSame
    <3> QED BY <3>1, <3>2 DEF SettledAt, SameWorker, Same, Holding, InTry, InHandler
  <2> QED BY <1>1, <2>1, SettledOwn, LateHandsRun DEF SettledInv
<1>2. CASE Crash
  BY <1>2 DEF Crash, Forget, SettledInv, SettledAt
<1>3. CASE Elsewhere
  <2>1. UNCHANGED <<pc, task>>
    BY <1>3, ElsewhereFrame DEF locals
  <2>2. ASSUME NEW w \in Workers, pc[w] \in {"delete_checkpoint", "mark_checkpoint"}
        PROVE  stored'[task[w]] # "running"
    <3>1. stored[task[w]] # "running" /\ pc[w] \in Holding /\ task[w] \in Tasks
      BY <2>2 DEF SettledInv, SettledAt, TypeInv, RunsOK, Holding, InTry, InHandler
    <3>2. ASSUME NEW d \in lateTasks, StoreTask(d.task, d.status) PROVE stored'[task[w]] # "running"
      <4>1. d.task = task[w] => d.status # "running"
        BY <3>1 DEF SettledInv, LateHands
      <4> QED BY <3>1, <3>2, <4>1 DEF StoreTask, TypeInv, StoresOK
    <3>3. ASSUME NEW t, NEW s, s # "running", StoreTask(t, s) PROVE stored'[task[w]] # "running"
      BY <3>1, <3>3 DEF StoreTask, TypeInv, StoresOK
    <3> QED BY <1>3, <3>1, <3>2, <3>3, RestStores DEF SafetyInv
  <2>3. ASSUME NEW d \in lateTasks' PROVE LateHands(d)'
    <3>1. d \in lateTasks \/ d.status = "unknown"
      BY <1>3, RestLate DEF TypeInv, SweeperOK
    <3> QED BY <2>1, <3>1 DEF SettledInv, LateHands
  <2> QED BY <2>1, <2>2, <2>3 DEF SettledInv, SettledAt
<1>4. CASE UNCHANGED vars
  BY <1>4 DEF vars, stores, locals, late, SettledInv, SettledAt, LateHands
<1> QED BY <1>1, <1>2, <1>3, <1>4, NextCases

\* A step of a run in which nothing fails strands no task: a worker lets go of
\* a settled task only.
LEMMA RunStrands ==
  ASSUME TypeInv, SafetyInv, HandsInv, SettledInv, NEW w \in Workers, RunStep(w),
         faults' = faults, NEW t \in Tasks, ~Stranded(t)
  PROVE  ~Stranded(t)'
<1>0. UNCHANGED <<sweeper, lateTasks>> /\ ~Cancel(w) /\ ~Fail(w) /\ ~ContextFails(w)
  <2>1. ~Cancel(w) /\ ~Fail(w) /\ ~ContextFails(w)
    BY DEF ContextFails, Cancel, Fail, TypeInv, HistoryOK
  <2> QED BY <2>1, RunLate, RunWrites DEF SafetyInv
<1>1. CASE pc[w] \in Holding /\ t = task[w]
  <2>1. CASE DeleteCheckpoint(w) \/ MarkCheckpoint(w)
    <3>1. stored[t] # "running" /\ UNCHANGED stored
      BY <1>1, <2>1 DEF SettledInv, SettledAt, DeleteCheckpoint, MarkCheckpoint, stores
    <3>2. ASSUME NEW d \in lateTasks, d.task = t PROVE d.status # "running"
      BY <1>1, <3>2 DEF SettledInv, LateHands
    <3> QED BY <1>0, <3>1, <3>2 DEF Stranded
  <2>2. CASE ~(DeleteCheckpoint(w) \/ MarkCheckpoint(w))
    <3>1. task' = task
      BY <1>0, <1>1, <2>2, RunCases
         DEF StartRun, SaveStarted, StepOn, LoopEnds, OperationEnds, ResumeRun, LoseLease,
             Plan, BeginSave, Drop, EndOfSave, Create, SaveRunning, Commit, MarkUnknown, EndSave, Claim,
             NothingToClaim, StartOperation, SaveEvidence, FinalRead, FinalSave,
             Step, Holding, InTry, InHandler, locals
    <3> QED BY <1>1, <3>1 DEF Stranded
  <2> QED BY <2>1, <2>2
<1>2. CASE ~(pc[w] \in Holding /\ t = task[w])
  <2>1. CASE Claim(w) /\ t = task'[w]
    BY <2>1 DEF Stranded
  <2>2. CASE ~(Claim(w) /\ t = task'[w])
    <3>1. \A v \in Workers : task[v] = t => task'[v] = t
      <4>1. task[w] # t
        BY <1>2, ConstantAssumption DEF HandsInv, HandsAt
      <4> QED BY <4>1, OthersStay DEF TypeInv, SameWorker
    <3>2. stored'[t] = "running" => stored[t] = "running"
      <4>1. CASE EndOfSave(w)
        <5>1. PICK d \in draft[w] : EndSave(w, d)
          BY <4>1 DEF EndOfSave, Create, SaveRunning, Commit, MarkUnknown
        <5>2. Saving(w, d.task, d.status) /\ StoreTask(d.task, d.status)
          BY <5>1, SavesOwn DEF SafetyInv
        <5> QED BY <1>2, <5>2 DEF Saving, StoreTask, TypeInv, StoresOK, Holding, InTry, InHandler
      <4> QED BY <4>1, RunWrites DEF SafetyInv
    <3>3. lease'[t].owner = NoOwner => lease[t].owner = NoOwner
      <4>1. CASE Claim(w)
        <5>1. PICK u \in Candidates : /\ lease' = [lease EXCEPT ![u] = Acquired(u, OwnerOf[w])]
                                      /\ task' = [task EXCEPT ![w] = u]
          BY <4>1 DEF Claim
        <5>2. u # t
          BY <2>2, <4>1, <5>1 DEF TypeInv, RunsOK
        <5> QED BY <5>1, <5>2 DEF TypeInv, SharedOK
      <4>2. CASE pc[w] \in Holding /\ FreeLeaseOf(w)
        BY <1>2, <4>2 DEF FreeLeaseOf, TypeInv, SharedOK
      <4> QED BY <4>1, <4>2, RunLease
    <3> QED BY <1>0, <3>1, <3>2, <3>3 DEF Stranded
  <2> QED BY <2>1, <2>2
<1> QED BY <1>1, <1>2

\* Nor does one of the others.
LEMMA RestStrands ==
  ASSUME TypeInv, SafetyInv, HandsInv, ~torn', Elsewhere, faults' = faults,
         NEW t \in Tasks, ~Stranded(t)
  PROVE  ~Stranded(t)'
<1>0. UNCHANGED task
  BY ElsewhereFrame DEF locals
<1>1. CASE LateLands
  <2>1. UNCHANGED <<lease, sweeper>> /\ lateTasks' \subseteq lateTasks
    BY <1>1 DEF LateLands, shared, others
  <2>2. stored'[t] = "running" =>
          stored[t] = "running" \/ \E d \in lateTasks : d.task = t /\ d.status = "running"
    <3>1. CASE UNCHANGED stored
      BY <3>1
    <3>2. ASSUME NEW d \in lateTasks, StoreTask(d.task, d.status)
          PROVE  stored'[t] = "running" => stored[t] = "running" \/ (d.task = t /\ d.status = "running")
      BY <3>2 DEF StoreTask, TypeInv, StoresOK
    <3>3. ~SweepSave /\ ~ResolveSave
      <4>1. ASSUME SweepSave PROVE FALSE
        <5>1. sweeper'.step = "checkpoint" /\ sweeper.step = "save"
          BY <4>1 DEF SweepSave, TypeInv, SweeperOK
        <5> QED BY <2>1, <5>1
      <4>2. ASSUME ResolveSave PROVE FALSE
        <5>1. operator'.step = "delete" /\ operator.step = "save"
          BY <4>2 DEF ResolveSave, TypeInv, OperatorOK
        <5> QED BY <1>1, <5>1 DEF LateLands, others
      <4> QED BY <4>1, <4>2
    <3> QED BY <3>1, <3>2, <3>3, RestStores DEF SafetyInv
  <2> QED BY <1>0, <2>1, <2>2 DEF Stranded
<1>2. CASE SweepFails \/ OperatorDies
  BY <1>2 DEF SweepFails, OperatorDies, TypeInv, HistoryOK
<1>3. CASE ~(LateLands \/ SweepFails \/ OperatorDies)
  <2>1. UNCHANGED lateTasks
    BY <1>3 DEF Elsewhere, Expire, StrayEnds, SweepPop, Recover, SweepRead, ReadTasks, SweepBegin,
                SweepSave, SweepCheckpoint, SweepEnds, Resolve, ResolveRead, ResolveBegin,
                ResolveSave, ResolveDelete, late
  <2>2. stored'[t] = "running" => stored[t] = "running"
    <3>1. ASSUME NEW u, NEW s, s # "running", StoreTask(u, s)
          PROVE  stored'[t] = "running" => stored[t] = "running"
      BY <3>1 DEF StoreTask, TypeInv, StoresOK
    <3> QED BY <1>3, <3>1, RestStores DEF SafetyInv
  <2>3. ASSUME NEW u \in Tasks, Expire(u) PROVE ~Stranded(t)'
    <3>1. lease'[t].owner = lease[t].owner
      BY <2>3 DEF Expire, TypeInv, SharedOK, Lease
    <3> QED BY <1>0, <2>1, <2>2, <2>3, <3>1 DEF Expire, Stranded, others
  <2>4. CASE SweepPop
    <3>1. CASE Lapsed(t)
      <4>1. t \in sweeper'.queue
        BY <2>4, <3>1 DEF SweepPop, AtRest
      <4> QED BY <4>1 DEF Stranded
    <3>2. CASE ~Lapsed(t)
      <4>1. lease'[t] = lease[t] /\ t \notin sweeper.queue /\ sweeper.step = "idle"
        BY <2>4, <3>2 DEF SweepPop, HandsInv, QueueInv
      <4> QED BY <1>0, <2>1, <2>2, <4>1 DEF Stranded
    <3> QED BY <3>1, <3>2
  <2>5. CASE SweepRead
    <3>1. PICK u \in sweeper.queue :
            sweeper' = IF NeedsRecovery(u)
                       THEN [sweeper EXCEPT !.step = "save", !.queue = @ \ {u}, !.task = u]
                       ELSE [sweeper EXCEPT !.queue = @ \ {u}]
      BY <2>5 DEF SweepRead
    <3>2. sweeper.step = "read" /\ UNCHANGED lease /\ lateTasks = {}
      BY <2>5 DEF SweepRead, ReadTasks, shared
    <3>3. CASE u = t /\ ~NeedsRecovery(t)
      BY <2>1, <2>2, <3>2, <3>3 DEF NeedsRecovery, Stranded
    <3>4. CASE u = t /\ NeedsRecovery(t)
      <4>1. sweeper'.step = "save" /\ sweeper'.task = t
        BY <3>1, <3>4 DEF TypeInv, SweeperOK
      <4> QED BY <4>1 DEF Stranded
    <3>5. CASE u # t
      <4>1. t \in sweeper.queue => t \in sweeper'.queue
        <5>1. sweeper'.queue = sweeper.queue \ {u}
          <6>1. CASE NeedsRecovery(u)
            BY <3>1, <6>1 DEF TypeInv, SweeperOK
          <6>2. CASE ~NeedsRecovery(u)
            BY <3>1, <6>2 DEF TypeInv, SweeperOK
          <6> QED BY <6>1, <6>2
        <5> QED BY <3>5, <5>1
      <4> QED BY <1>0, <2>1, <2>2, <3>2, <4>1 DEF Stranded
    <3> QED BY <3>3, <3>4, <3>5
  <2>6. CASE SweepBegin \/ SweepCheckpoint
    <3>1. /\ sweeper'.queue = sweeper.queue /\ UNCHANGED lease
          /\ sweeper.step = "save" => sweeper'.step = "save" /\ sweeper'.task = sweeper.task
      BY <2>6 DEF SweepBegin, SweepCheckpoint, shared, TypeInv, SweeperOK
    <3> QED BY <1>0, <2>1, <2>2, <3>1 DEF Stranded
  <2>7. CASE SweepSave
    <3>1. sweeper'.queue = sweeper.queue /\ UNCHANGED lease /\ sweeper.draft # {} /\ sweeper.step = "save"
      BY <2>7 DEF SweepSave, shared, TypeInv, SweeperOK
    <3>2. lateTasks = {}
      BY <3>1 DEF SafetyInv, Clean, TasksClean
    <3>3. t = sweeper.task => stored'[t] # "running"
      <4>1. StoreTask(sweeper.task, "unknown")
        <5>1. PICK d \in sweeper.draft : Replace(d)
          BY <2>7 DEF SweepSave
        <5> QED BY <5>1, Lands DEF TypeInv, SweeperOK, SafetyInv
      <4> QED BY <4>1 DEF StoreTask, TypeInv, StoresOK
    <3> QED BY <1>0, <2>1, <2>2, <3>1, <3>2, <3>3 DEF Stranded
  <2>8. CASE SweepEnds
    BY <1>0, <2>1, <2>2, <2>8 DEF SweepEnds, Stranded, shared
  <2>9. CASE StrayEnds \/ Resolve
    <3>1. UNCHANGED <<sweeper, lease>>
      BY <2>9 DEF StrayEnds, Resolve, ResolveRead, ResolveBegin, ResolveSave, ResolveDelete, others, shared
    <3> QED BY <1>0, <2>1, <2>2, <3>1 DEF Stranded
  <2> QED BY SMTT(60), <1>3, <2>3, <2>4, <2>5, <2>6, <2>7, <2>8, <2>9 DEF Elsewhere, Recover
<1> QED BY <1>1, <1>2, <1>3

LEMMA NoneStrands ==
  ASSUME TypeInv, SafetyInv, HandsInv, SettledInv, ~torn', Next, faults' = faults,
         NEW t \in Tasks, ~Stranded(t)
  PROVE  ~Stranded(t)'
<1>1. CASE Crash
  BY <1>1 DEF Crash, TypeInv, HistoryOK
<1> QED BY <1>1, RunStrands, RestStrands, NextCases

SettledGuarded == ~torn => SettledInv

LEMMA SettledAlways ==
  ASSUME Exclusive PROVE Spec => []SettledGuarded
<1>1. Init => SettledGuarded
  BY DEF Init, SettledGuarded, SettledInv, SettledAt
<1>2. TypeInv /\ LeaseInv /\ Guarded /\ SettledGuarded /\ [Next]_vars => SettledGuarded'
  BY SettledStep, TornStays DEF Guarded, SettledGuarded
<1> QED BY <1>1, <1>2, LeaseAlways, SafetyAlways, TypingInit, TypingStep, PTL DEF Spec

\* If each worker has an owner id of its own and the leases of tasks in hand do
\* not lapse, or if there is one run whatever lapses under it, a task is left
\* running in nobody's hands, be it by a write that is still to land, only by a
\* step in which something fails, or one that tears the files.
THEOREM StrandingTakesAFault == Exclusive => (Spec => OnlyFaultsStrand)
<1> SUFFICES ASSUME Exclusive PROVE Spec => OnlyFaultsStrand
  OBVIOUS
<1> DEFINE NoneNew == \A t \in Tasks : ~Stranded(t) /\ Stranded(t)' => faults' # faults \/ torn'
<1>1. Init => HandsInv
  BY DEF Init, AtRest, HandsInv, HandsAt, QueueInv
<1>2. TypeInv /\ HandsInv /\ [Next]_vars => HandsInv'
  BY HandsStep
<1>3. TypeInv /\ Guarded /\ SettledGuarded /\ HandsInv /\ [Next]_vars => [NoneNew]_vars
  BY NoneStrands, TornStays DEF Guarded, SettledGuarded
<1> QED BY <1>1, <1>2, <1>3, SafetyAlways, SettledAlways, TypingInit, TypingStep, PTL
        DEF Spec, OnlyFaultsStrand

-------------------------------------------------------------------------------
(* Refinement, where no lease lapses, which is what the command line runs     *)
(* with: it starts no sweeper.                                                *)

Steady == OwnOwners /\ Expiry = "never"

NoneLapsed == \A t \in Tasks : lease[t].owner # NoOwner => lease[t].live
NoSweep == NoneLapsed /\ sweeper.step = "idle"

\* What the stored status of a task can be while a run is at step p with it.
Expected(p) ==
    CASE p = "save_running" -> {"pending"}
      [] p \in {"save_checkpoint", "executing", "save_evidence", "commit"} -> {"running"}
      [] p = "delete_checkpoint" -> {"completed", "failed"}
      [] p = "mark_unknown" -> {"running", "completed", "failed"}
      [] p = "mark_checkpoint" -> {"unknown", "pending", "failed"}

InOrder(w) == pc[w] \in Holding => stored[task[w]] \in Expected(pc[w])
InDoubt == operator.step = "save" => stored[operator.task] = "unknown"

\* The moves of TaskLifecycle that a run makes in the task repository.
Edge(a, b) ==
    \/ a = "absent" /\ b = "pending"
    \/ a = "pending" /\ b = "running"
    \/ a = "running" /\ b \in {"completed", "failed", "unknown"}
    \/ a \in {"completed", "failed"} /\ b = "unknown"

\* A late write makes such a move too; one that says unknown finds the run over.
LateEdge(d) ==
    /\ Edge(stored[d.task], d.status)
    /\ d.status = "unknown" => \A w \in Workers : pc[w] \in Holding => task[w] # d.task

OrderInv ==
    /\ \A w \in Workers : InOrder(w)
    /\ InDoubt
    /\ \A d \in lateTasks : LateEdge(d)

Moved == \E t \in Tasks :
    \E s \in TaskStatuses : Edge(stored[t], s) /\ stored' = [stored EXCEPT ![t] = s]

\* No lease lapses, so the sweeper finds nothing to do.
LEMMA NothingToSweep ==
  ASSUME Expiry = "never", TypeInv, NoSweep, Elsewhere
  PROVE  LateLands \/ StrayEnds \/ Resolve \/ OperatorDies
<1>1. sweeper.draft = {}
  BY DEF NoSweep, TypeInv, SweeperOK
<1>2. ~SweepPop /\ ~SweepFails /\ ~Recover
  BY <1>1 DEF NoSweep, NoneLapsed, Lapsed, SweepPop, SweepFails, Recover, SweepRead, SweepBegin,
              SweepSave, SweepCheckpoint, SweepEnds
<1>3. \A t \in Tasks : ~Expire(t)
  BY DEF Expire
<1> QED BY <1>2, <1>3 DEF Elsewhere

LEMMA NoSweepStep ==
  ASSUME Expiry = "never", TypeInv, NoSweep, [Next]_vars
  PROVE  NoSweep'
<1>l. lease \in [Tasks -> Lease]
  BY DEF TypeInv, SharedOK
<1>1. ASSUME NEW w \in Workers, RunStep(w) PROVE NoSweep'
  <2>1. CASE Claim(w)
    <3>1. PICK t \in Candidates : lease' = [lease EXCEPT ![t] = Acquired(t, OwnerOf[w])]
      BY <2>1 DEF Claim
    <3> QED BY <1>l, <2>1, <3>1 DEF Claim, Acquired, NoSweep, NoneLapsed, others
  <2>2. CASE pc[w] \in Holding /\ FreeLeaseOf(w)
    <3>1. NoneLapsed'
      BY <1>l, <2>2 DEF FreeLeaseOf, Released, Free, NoSweep, NoneLapsed
    <3> QED BY <3>1, <1>1, SameSweeper DEF NoSweep
  <2>3. CASE UNCHANGED lease
    BY <1>1, <2>3, SameSweeper DEF NoSweep, NoneLapsed
  <2> QED BY <1>1, <2>1, <2>2, <2>3, RunLease
<1>2. CASE Crash
  BY <1>2 DEF Crash, Free, AtRest, NoSweep, NoneLapsed
<1>3. CASE Elsewhere
  BY <1>3, NothingToSweep
     DEF LateLands, StrayEnds, Resolve, ResolveRead, ResolveBegin, ResolveSave, ResolveDelete,
         OperatorDies, shared, others, NoSweep, NoneLapsed
<1>4. CASE UNCHANGED vars
  BY <1>4 DEF vars, shared, others, NoSweep, NoneLapsed
<1> QED BY <1>1, <1>2, <1>3, <1>4, NextCases

\* What a step of a run means for the lifecycle.
LEMMA RunMoves ==
  ASSUME TypeInv, SafetyInv, NEW w \in Workers, InOrder(w), RunStep(w)
  PROVE  /\ UNCHANGED stored \/ Moved
         /\ UNCHANGED started \/ (StartOperation(w) /\ UNCHANGED stored)
<1>1. CASE EndOfSave(w)
  <2>1. PICK d \in draft[w] : EndSave(w, d)
    BY <1>1 DEF EndOfSave, Create, SaveRunning, Commit, MarkUnknown
  <2>2. /\ d.task \in Tasks /\ d.status \in TaskStatuses
        /\ Saving(w, d.task, d.status) /\ StoreTask(d.task, d.status)
    BY <2>1, SavesOwn DEF SafetyInv
  <2>3. Edge(stored[d.task], d.status)
    <3>1. CASE pc[w] = "apply"
      BY <2>2, <3>1 DEF Saving, SafetyInv, TodoInv, Edge
    <3>2. CASE pc[w] # "apply"
      BY <2>2, <3>2 DEF Saving, InOrder, Expected, Holding, InTry, InHandler, Edge
    <3> QED BY <3>1, <3>2
  <2>4. Moved
    BY <2>2, <2>3 DEF StoreTask, Moved
  <2>5. UNCHANGED started
    BY <2>1 DEF EndSave, history, counts
  <2> QED BY <2>4, <2>5
<1>2. CASE StartOperation(w)
  BY <1>2 DEF StartOperation, stores
<1>3. CASE ~EndOfSave(w) /\ ~StartOperation(w)
  BY <1>3, RunWrites DEF SafetyInv
<1> QED BY <1>1, <1>2, <1>3

LEMMA InOrderOwn ==
  ASSUME TypeInv, SafetyInv, NEW w \in Workers, InOrder(w), RunStep(w)
  PROVE  InOrder(w)'
<1> USE DEF InOrder, Holding, InTry, InHandler
<1>1. CASE SaveRunning(w) \/ Commit(w) \/ MarkUnknown(w)
  <2>1. PICK d \in draft[w] : EndSave(w, d)
    BY <1>1 DEF SaveRunning, Commit, MarkUnknown
  <2>2. Saving(w, d.task, d.status) /\ StoreTask(d.task, d.status) /\ d.task \in Tasks
    BY <2>1, SavesOwn DEF SafetyInv
  <2>3. task' = task
    BY <1>1, StepFrame DEF SaveRunning, Commit, MarkUnknown, TypeInv
  <2>4. d.task = task[w] /\ d.status \in Expected(pc'[w])
    BY <1>1, <2>2, StepFrame DEF SaveRunning, Commit, MarkUnknown, Saving, Expected, TypeInv
  <2>5. stored'[task[w]] = d.status
    BY <2>2, <2>4 DEF StoreTask, TypeInv, StoresOK
  <2> QED BY <2>3, <2>4, <2>5
<1>2. CASE OperationEnds(w) \/ ResumeRun(w) \/ LoseLease(w) \/ SaveEvidence(w) \/ ContextFails(w)
           \/ StartOperation(w)
  <2>1. /\ pc[w] \in {"save_checkpoint", "executing", "save_evidence"} /\ UNCHANGED <<stored, task>>
        /\ pc'[w] \in {"executing", "save_evidence", "commit", "mark_unknown"}
    BY <1>2 DEF OperationEnds, ResumeRun, LoseLease, SaveEvidence, ContextFails, StartOperation,
                Step, StoreEvidence, stores, TypeInv, RunsOK
  <2> QED BY <2>1 DEF Expected
<1>3. CASE Claim(w)
  <2>1. PICK t \in Candidates : task' = [task EXCEPT ![w] = t]
    BY <1>3 DEF Claim
  <2>2. t \in Tasks /\ stored[t] = "pending" /\ task'[w] = t
    BY <2>1 DEF Candidates, Pending, TypeInv, RunsOK
  <2>3. pc'[w] = "save_running" /\ UNCHANGED stored
    BY <1>3 DEF Claim, ReadTasks, stores, TypeInv, RunsOK
  <2> QED BY <2>2, <2>3 DEF Expected
<1>4. CASE BeginSave(w)
  BY <1>4 DEF BeginSave, locals, stores
<1>5. CASE \/ StartRun(w) \/ Plan(w) \/ Drop(w) \/ Create(w) \/ NothingToClaim(w)
  BY <1>5 DEF StartRun, Plan, Drop, Create, NothingToClaim, TypeInv, RunsOK
<1>6. CASE SaveStarted(w) \/ LoopEnds(w) \/ FinalRead(w) \/ FinalSave(w) \/ DeleteCheckpoint(w)
           \/ MarkCheckpoint(w)
  <2>1. pc'[w] \in {"idle", "plan", "final_read", "final_save"}
    <3>1. CASE SaveStarted(w) \/ LoopEnds(w) \/ FinalRead(w)
      BY <3>1, StepFrame DEF SaveStarted, LoopEnds, FinalRead, TypeInv
    <3>2. CASE FinalSave(w) \/ DeleteCheckpoint(w) \/ MarkCheckpoint(w)
      BY <3>2, ForgetFrame, LeaveFrame DEF FinalSave, DeleteCheckpoint, MarkCheckpoint, TypeInv
    <3> QED BY <1>6, <3>1, <3>2
  <2> QED BY <2>1
<1>7. CASE Cancel(w) \/ Fail(w)
  <2>1. PICK r : Unwind(w, r)
    BY <1>7 DEF Cancel, Fail
  <2>2. CASE Forget({w})
    BY <2>2, ForgetFrame DEF TypeInv
  <2>3. CASE pc[w] \in InTry /\ Step(w, "mark_unknown", r)
    <3>1. pc'[w] = "mark_unknown" /\ task' = task /\ UNCHANGED stored
      BY <1>7, <2>3, StepFrame DEF Cancel, Fail, stores, TypeInv
    <3> QED BY <2>3, <3>1 DEF Expected
  <2> QED BY <2>1, <2>2, <2>3 DEF Unwind
<1> QED BY <1>1, <1>2, <1>3, <1>4, <1>5, <1>6, <1>7, RunCases DEF EndOfSave, StepOn

LEMMA LateEdgeRun ==
  ASSUME Exclusive, TypeInv, LeaseInv, SafetyInv, OrderInv, ~torn',
         NEW w \in Workers, RunStep(w), NEW d \in lateTasks'
  PROVE  LateEdge(d)'
<1>0. \A v \in Workers \ {w} : SameWorker(v)
  BY OthersStay DEF TypeInv
<1>1. CASE Cancel(w) /\ d \in draft[w]
  <2>1. Saving(w, d.task, d.status) /\ UNCHANGED stored
    BY <1>1 DEF TypeInv, DraftsOK, DraftAt, Cancel, stores
  <2>2. Edge(stored[d.task], d.status)
    <3>1. CASE pc[w] = "apply"
      BY <2>1, <3>1 DEF Saving, SafetyInv, TodoInv, Edge
    <3>2. CASE pc[w] # "apply"
      BY <2>1, <3>2 DEF Saving, OrderInv, InOrder, Expected, Holding, InTry, InHandler, Edge
    <3> QED BY <3>1, <3>2
  <2>3. ASSUME d.status = "unknown"
        PROVE  \A v \in Workers : pc'[v] \in Holding => task'[v] # d.task
    <3>1. pc[w] = "mark_unknown" /\ task[w] = d.task
      BY <2>1, <2>3 DEF Saving
    <3>2. pc'[w] = "idle"
      BY <1>1, <3>1, ForgetFrame DEF Cancel, Unwind, Outside, InTry, InHandler, TypeInv
    <3>3. \A v \in Workers \ {w} : pc'[v] \in Holding => task'[v] # d.task
      BY <1>0, <3>1, OneHand DEF InOneHand, SameWorker, Holding, InHandler
    <3> QED BY <3>2, <3>3 DEF Holding, InTry, InHandler
  <2> QED BY <2>1, <2>2, <2>3 DEF LateEdge
<1>2. CASE d \in lateTasks
  <2>1. LateEdge(d) /\ lateTasks # {}
    BY <1>2 DEF OrderInv
  <2>2. UNCHANGED stored
    BY <2>1, LateHalts, RunWrites DEF SafetyInv
  <2>3. pc'[w] \in Holding => pc[w] \in Holding /\ task'[w] = task[w]
    BY <2>1, LateHalts, OwnHolding DEF SafetyInv
  <2> QED BY <1>0, <2>1, <2>2, <2>3 DEF LateEdge, SameWorker
<1> QED BY <1>1, <1>2, RunLate

\* Under a late write the runs stay in order.
LEMMA LandsInOrder ==
  ASSUME TypeInv, SafetyInv, SettledInv, OrderInv, UNCHANGED <<pc, task>>,
         NEW d \in lateTasks, StoreTask(d.task, d.status), NEW w \in Workers
  PROVE  InOrder(w)'
<1> SUFFICES ASSUME pc[w] \in Holding PROVE stored'[task[w]] \in Expected(pc[w])
  BY DEF InOrder
<1>1. InOrder(w) /\ LateHands(d) /\ LateEdge(d)
  BY DEF OrderInv, SettledInv
<1>2. task[w] \in Tasks /\ d.task \in Tasks
  BY DEF TypeInv, RunsOK, LateOK, TaskSaves
<1>3. CASE task[w] = d.task
  <2>1. pc[w] = "mark_unknown" /\ d.status \in {"completed", "failed"}
    BY <1>1, <1>3 DEF LateHands, LateEdge
  <2> QED BY <1>2, <1>3, <2>1 DEF StoreTask, Expected, TypeInv, StoresOK
<1>4. CASE task[w] # d.task
  BY <1>1, <1>2, <1>4 DEF InOrder, StoreTask, TypeInv, StoresOK
<1> QED BY <1>3, <1>4

LEMMA OrderStep ==
  ASSUME Steady, TypeInv, LeaseInv, SafetyInv, SettledInv, NoSweep, OrderInv, ~torn', [Next]_vars
  PROVE  OrderInv'
<1>e. Exclusive
  BY DEF Steady, Exclusive
<1>1. ASSUME NEW w \in Workers, RunStep(w) PROVE OrderInv'
  <2>1. ASSUME NEW v \in Workers \ {w} PROVE InOrder(v)'
    <3>1. SameWorker(v) /\ InOrder(v)
      BY <1>1, OthersStay DEF TypeInv, OrderInv
    <3> QED BY <1>e, <1>1, <3>1, OthersSame DEF InOrder, SameWorker, Same
  <2>2. InOrder(w)'
    BY <1>1, InOrderOwn DEF OrderInv
  <2>3. InDoubt'
    <3>1. UNCHANGED operator /\ (UNCHANGED stored \/ Moved)
      BY <1>1, RunMoves, RunWrites DEF OrderInv, SafetyInv
    <3> QED BY <3>1 DEF Moved, Edge, OrderInv, InDoubt, TypeInv, StoresOK, OperatorOK
  <2>4. \A d \in lateTasks' : LateEdge(d)'
    BY <1>e, <1>1, LateEdgeRun
  <2> QED BY <2>1, <2>2, <2>3, <2>4 DEF OrderInv
<1>2. CASE Crash
  <2>1. UNCHANGED <<stored, operator>> /\ lateTasks' = {} /\ \A w \in Workers : pc'[w] = "idle"
    BY <1>2 DEF Crash, Forget, stores
  <2> QED BY <2>1 DEF OrderInv, InOrder, InDoubt, Holding, InTry, InHandler
<1>3. CASE LateLands
  <2>1. UNCHANGED <<pc, task, operator>> /\ lateTasks' \subseteq lateTasks
    BY <1>3 DEF LateLands, locals, others
  <2>2. CASE UNCHANGED stored
    BY <2>1, <2>2 DEF OrderInv, InOrder, InDoubt, LateEdge
  <2>3. ASSUME NEW d \in lateTasks, Replace(d), lateTasks' = lateTasks \ {d} PROVE OrderInv'
    <3>1. StoreTask(d.task, d.status) /\ lateTasks' = {}
      BY <2>3, Lands DEF SafetyInv, Clean, TasksClean
    <3>2. \A w \in Workers : InOrder(w)'
      BY <2>1, <3>1, LandsInOrder
    <3>3. stored[d.task] # "unknown"
      BY DEF OrderInv, LateEdge, Edge
    <3>4. InDoubt'
      BY <2>1, <3>1, <3>3 DEF OrderInv, InDoubt, StoreTask, TypeInv, StoresOK, OperatorOK
    <3> QED BY <3>1, <3>2, <3>4 DEF OrderInv
  <2> QED BY <1>3, <2>2, <2>3 DEF LateLands
<1>4. CASE ResolveSave
  <2>1. PICK d \in operator.draft : Replace(d)
    BY <1>4 DEF ResolveSave
  <2>2. d.task = operator.task /\ operator.task \in Tasks /\ StoreTask(d.task, d.status)
        /\ d.status \in {"pending", "failed"} /\ operator.step = "save"
    BY <2>1, Lands DEF SafetyInv, TypeInv, OperatorOK
  <2>3. stored[operator.task] = "unknown" /\ lateTasks = {}
    BY <2>1, <2>2 DEF OrderInv, InDoubt, SafetyInv, Clean, TasksClean
  <2>4. UNCHANGED <<pc, task, lateTasks>> /\ operator'.step = "delete"
    BY <1>4 DEF ResolveSave, locals, late, TypeInv, OperatorOK
  <2>5. ASSUME NEW w \in Workers, pc[w] \in Holding PROVE stored'[task[w]] \in Expected(pc[w])
    <3>1. InOrder(w) /\ task[w] \in Tasks
      BY <2>5 DEF OrderInv, TypeInv, RunsOK
    <3>2. CASE task[w] = d.task
      <4>1. pc[w] = "mark_checkpoint"
        BY <2>2, <2>3, <2>5, <3>1, <3>2 DEF InOrder, Expected, Holding, InTry, InHandler
      <4> QED BY <2>2, <3>2, <4>1 DEF StoreTask, Expected, TypeInv, StoresOK
    <3>3. CASE task[w] # d.task
      BY <2>2, <2>5, <3>1, <3>3 DEF InOrder, StoreTask, TypeInv, StoresOK
    <3> QED BY <3>2, <3>3
  <2> QED BY <2>3, <2>4, <2>5 DEF OrderInv, InOrder, InDoubt
<1>5. CASE StrayEnds \/ OperatorDies \/ (\E t \in Tasks, retry \in BOOLEAN : ResolveRead(t, retry))
           \/ ResolveBegin \/ ResolveDelete \/ UNCHANGED vars
  <2>1. UNCHANGED <<stored, pc, task, lateTasks>>
    BY <1>5 DEF StrayEnds, OperatorDies, ResolveRead, ResolveBegin, ResolveDelete, vars, stores,
                locals, late
  <2>2. InDoubt'
    <3>1. ASSUME NEW t \in Tasks, NEW retry \in BOOLEAN, ResolveRead(t, retry) PROVE InDoubt'
      BY <2>1, <3>1 DEF ResolveRead, MayResolve, NotCalled, InDoubt
    <3>2. CASE ResolveDelete \/ OperatorDies
      BY <3>2 DEF ResolveDelete, OperatorDies, NotCalled, InDoubt
    <3>3. CASE ResolveBegin
      <4>1. operator.step = "save" /\ operator'.task = operator.task
        BY <3>3 DEF ResolveBegin, TypeInv, OperatorOK
      <4> QED BY <2>1, <4>1 DEF OrderInv, InDoubt
    <3>4. CASE UNCHANGED operator
      BY <2>1, <3>4 DEF OrderInv, InDoubt
    <3> QED BY <1>5, <3>1, <3>2, <3>3, <3>4 DEF StrayEnds, vars, others
  <2> QED BY <2>1, <2>2 DEF OrderInv, InOrder, LateEdge
<1> QED BY <1>1, <1>2, <1>3, <1>4, <1>5, NextCases, NothingToSweep DEF Steady, Resolve

-------------------------------------------------------------------------------
(* Every step is a move of TaskLifecycle or a stutter.                        *)

LEMMA MovesImplement ==
  ASSUME TypeInv, Moved, UNCHANGED <<started, approvals, torn>>
  PROVE  Lifecycle!Next
<1>1. PICK t \in Tasks, s \in TaskStatuses :
        Edge(stored[t], s) /\ stored' = [stored EXCEPT ![t] = s]
  BY DEF Moved
<1>2. Lifecycle!Create(t) \/ Lifecycle!Claim(t) \/ Lifecycle!Settle(t) \/ Lifecycle!Doubt(t)
  BY <1>1 DEF Edge, Lifecycle!Create, Lifecycle!Claim, Lifecycle!Settle, Lifecycle!Doubt, Lifecycle!Move
<1> QED BY <1>2 DEF Lifecycle!Next

\* What the runs do to the task file while it is not torn, and what the others do.
LEMMA LateMoves ==
  ASSUME TypeInv, SafetyInv, OrderInv, LateLands
  PROVE  /\ UNCHANGED <<started, approvals>>
         /\ UNCHANGED stored \/ Moved
<1>1. ASSUME NEW d \in lateTasks, Replace(d) PROVE Moved
  <2>1. d.task \in Tasks /\ d.status \in TaskStatuses /\ StoreTask(d.task, d.status)
    BY <1>1, Lands DEF SafetyInv, TypeInv, LateOK, TaskSaves
  <2> QED BY <2>1 DEF OrderInv, LateEdge, StoreTask, Moved
<1> QED BY <1>1 DEF LateLands, history, counts

\* The step that tears the files changes nothing else of a task's life.
LEMMA TearsOnly ==
  ASSUME Next, torn' # torn
  PROVE  UNCHANGED <<stored, started, approvals>>
<1>1. ASSUME NEW w \in Workers, RunStep(w) PROVE UNCHANGED <<stored, started, approvals>>
  <2>1. ~StartRun(w) /\ ~StepOn(w) /\ ~Drop(w) /\ ~EndOfSave(w) /\ ~StartOperation(w)
        /\ ~DeleteCheckpoint(w) /\ ~MarkCheckpoint(w) /\ ~Fail(w)
    BY DEF StartRun, StepOn, LoopEnds, OperationEnds, ResumeRun, LoseLease, ContextFails, Drop,
           EndOfSave, Create, SaveRunning, Commit, MarkUnknown, EndSave, StartOperation,
           DeleteCheckpoint, MarkCheckpoint, Fail, history
  <2> QED BY <1>1, <2>1, RunCases
          DEF SaveStarted, StoreMission, Plan, ReadTasks, BeginSave, Claim, NothingToClaim,
              SaveEvidence, StoreEvidence, FinalRead, FinalSave, Cancel, stores, counts
<1>2. CASE Elsewhere
  <2>1. SweepRead \/ SweepBegin \/ ResolveBegin
        \/ \E t \in Tasks, retry \in BOOLEAN : ResolveRead(t, retry)
    BY <1>2 DEF Elsewhere, Expire, LateLands, StrayEnds, SweepPop, Recover, SweepSave, SweepCheckpoint,
                SweepEnds, SweepFails, Resolve, ResolveSave, ResolveDelete, OperatorDies, history
  <2> QED BY <2>1 DEF SweepRead, ReadTasks, SweepBegin, ResolveBegin, ResolveRead, stores, counts
<1> QED BY <1>1, <1>2, NextCases DEF Crash

LEMMA StepImplements ==
  ASSUME Steady, TypeInv, SafetyInv, NoSweep, OrderInv, ~torn, ~torn', [Next]_vars
  PROVE  [Lifecycle!Next]_<<stored, started, approvals, torn>>
<1> USE DEF TypeInv, HistoryOK
<1>0. UNCHANGED torn
  BY TypingStep
<1> HIDE DEF TypeInv, HistoryOK
<1>1. ASSUME NEW w \in Workers, RunStep(w)
      PROVE  [Lifecycle!Next]_<<stored, started, approvals, torn>>
  <2>1. UNCHANGED approvals
    BY <1>1, RunWrites DEF SafetyInv
  <2>2. CASE UNCHANGED started
    BY <1>0, <1>1, <2>1, <2>2, RunMoves, MovesImplement DEF OrderInv
  <2>3. CASE StartOperation(w) /\ UNCHANGED stored
    <3>1. task[w] \in Tasks /\ stored[task[w]] = "running" /\ started[task[w]] <= approvals[task[w]]
      BY <2>3 DEF StartOperation, TypeInv, RunsOK, Holding, OrderInv, InOrder, Expected,
                  SafetyInv, WorkersInv, RightAt
    <3>2. Lifecycle!Execute(task[w])
      BY <1>0, <2>1, <2>3, <3>1 DEF StartOperation, Lifecycle!Execute
    <3> QED BY <3>1, <3>2 DEF Lifecycle!Next
  <2> QED BY <1>1, <2>2, <2>3, RunMoves DEF OrderInv
<1>2. CASE Crash
  BY <1>0, <1>2 DEF Crash, stores
<1>3. CASE LateLands
  BY <1>0, <1>3, LateMoves, MovesImplement
<1>4. CASE ResolveSave
  <2>1. PICK d \in operator.draft : Replace(d)
    BY <1>4 DEF ResolveSave
  <2>2. /\ d.task = operator.task /\ operator.task \in Tasks /\ StoreTask(d.task, d.status)
        /\ d.status = IF operator.retry THEN "pending" ELSE "failed"
        /\ stored[operator.task] = "unknown"
    BY <2>1, Lands DEF SafetyInv, TypeInv, OperatorOK, OrderInv, InDoubt
  <2>3. Lifecycle!Approve(operator.task) \/ Lifecycle!Dismiss(operator.task)
    BY <1>0, <1>4, <2>2 DEF ResolveSave, StoreTask, Lifecycle!Approve, Lifecycle!Dismiss, Lifecycle!Move
  <2> QED BY <2>2, <2>3 DEF Lifecycle!Next
<1>5. CASE StrayEnds \/ OperatorDies \/ (\E t \in Tasks, retry \in BOOLEAN : ResolveRead(t, retry))
           \/ ResolveBegin \/ ResolveDelete \/ UNCHANGED vars
  BY <1>0, <1>5 DEF StrayEnds, OperatorDies, ResolveRead, ResolveBegin, ResolveDelete, vars, stores,
                    history, counts
<1> QED BY <1>1, <1>2, <1>3, <1>4, <1>5, NextCases, NothingToSweep DEF Steady, Resolve

\* From the step on that tears the files anything may become of the tasks.
LEMMA DisorderImplements ==
  ASSUME TypeInv, torn', [Next]_vars
  PROVE  [Lifecycle!Next]_<<stored, started, approvals, torn>>
<1>1. TypeInv'
  BY TypingStep
<1>2. CASE torn' # torn
  <2>1. Next
    BY <1>2 DEF vars, history
  <2>2. Lifecycle!Interrupt
    BY <1>1, <1>2, <2>1, TearsOnly DEF Lifecycle!Interrupt, TypeInv, HistoryOK
  <2> QED BY <2>2 DEF Lifecycle!Next
<1>3. CASE torn' = torn
  <2>1. Lifecycle!Disorder
    BY <1>1, <1>3 DEF Lifecycle!Disorder, Lifecycle!Statuses, TaskStatuses, TypeInv, StoresOK, HistoryOK
  <2> QED BY <2>1 DEF Lifecycle!Next
<1> QED BY <1>2, <1>3

OrderGuarded == ~torn => OrderInv

LEMMA OrderAlways ==
  ASSUME Steady PROVE Spec => []NoSweep /\ []OrderGuarded
<1>0. Exclusive
  BY DEF Steady, Exclusive
<1>1. Init => NoSweep /\ OrderGuarded
  BY DEF Init, AtRest, NotCalled, NoSweep, NoneLapsed, Free, OrderGuarded, OrderInv, InOrder, InDoubt,
         Holding, InTry, InHandler
<1>2. TypeInv /\ NoSweep /\ [Next]_vars => NoSweep'
  BY NoSweepStep DEF Steady
<1>3. TypeInv /\ LeaseInv /\ Guarded /\ SettledGuarded /\ NoSweep /\ OrderGuarded /\ [Next]_vars
        => OrderGuarded'
  BY OrderStep, TornStays DEF Guarded, SettledGuarded, OrderGuarded
<1> QED BY <1>0, <1>1, <1>2, <1>3, LeaseAlways, SafetyAlways, SettledAlways, TypingInit, TypingStep, PTL
        DEF Spec

\* Workers, operator, crashes, cancellations, saves that land late and failures
\* implement the life of a task as TaskLifecycle promises it, if each worker has
\* an owner id of its own and no lease lapses.
THEOREM Refinement == Steady => (Spec => ImplementsTaskLifecycle)
<1> SUFFICES ASSUME Steady PROVE Spec => ImplementsTaskLifecycle
  OBVIOUS
<1>0. Exclusive
  BY DEF Steady, Exclusive
<1>1. Init => Lifecycle!Init
  BY DEF Init, Lifecycle!Init
<1>2. TypeInv /\ Guarded /\ NoSweep /\ OrderGuarded /\ [Next]_vars
        => [Lifecycle!Next]_<<stored, started, approvals, torn>>
  BY StepImplements, DisorderImplements, TornStays DEF Guarded, OrderGuarded
<1> QED BY <1>0, <1>1, <1>2, SafetyAlways, OrderAlways, TypingInit, TypingStep, PTL
        DEF Spec, ImplementsTaskLifecycle, Lifecycle!Spec, Lifecycle!vars

\* Runs with owner ids of their own leave an unknown outcome to the operator,
\* which runs with a shared id do not: as long as the files are not torn no step
\* but the operator's save takes a task from it, not even the thread of a save
\* cancelled long before.
THEOREM OnlyOperatorResolves == Steady => (Spec => UnknownStaysUntilResolved)
<1> SUFFICES ASSUME Steady PROVE Spec => UnknownStaysUntilResolved
  OBVIOUS
<1>0. Exclusive
  BY DEF Steady, Exclusive
<1> DEFINE Left == \A t \in Tasks :
              stored[t] = "unknown" /\ stored'[t] # "unknown" =>
                  torn' \/ (operator.step = "save" /\ operator.task = t)
<1>1. TypeInv /\ Guarded /\ NoSweep /\ OrderGuarded /\ [Next]_vars => [Left]_vars
  <2> SUFFICES ASSUME TypeInv, SafetyInv, NoSweep, OrderInv, Next PROVE Left
    BY TornStays DEF Guarded, OrderGuarded
  <2>1. Moved \/ UNCHANGED stored => Left
    BY DEF Moved, Edge, TypeInv, StoresOK
  <2>2. ASSUME NEW w \in Workers, RunStep(w) PROVE Left
    BY <2>1, <2>2, RunMoves DEF OrderInv
  <2>3. CASE LateLands
    BY <2>1, <2>3, LateMoves
  <2>4. CASE ResolveSave
    <3>1. PICK d \in operator.draft : Replace(d)
      BY <2>4 DEF ResolveSave
    <3>2. StoreTask(d.task, d.status) /\ d.task = operator.task /\ operator.step = "save"
      BY <3>1, Lands DEF SafetyInv, TypeInv, OperatorOK
    <3> QED BY <3>2 DEF StoreTask, TypeInv, StoresOK
  <2>5. CASE Crash \/ StrayEnds \/ OperatorDies \/ ResolveBegin \/ ResolveDelete
             \/ (\E t \in Tasks, retry \in BOOLEAN : ResolveRead(t, retry))
    BY <2>1, <2>5 DEF Crash, StrayEnds, OperatorDies, ResolveRead, ResolveBegin, ResolveDelete, stores
  <2> HIDE DEF Left
  <2> QED BY <2>2, <2>3, <2>4, <2>5, NextCases, NothingToSweep DEF Steady, Resolve
<1> QED BY <1>0, <1>1, SafetyAlways, OrderAlways, TypingInit, TypingStep, PTL
        DEF Spec, UnknownStaysUntilResolved

-------------------------------------------------------------------------------
(* One run at a time creates no task twice, whatever lapses under it.         *)

DistinctKeys == \A t, u \in InitialTasks : Key[t] = Key[u] => t = u

OneOfAKey == \A t, u \in Stored : Key[t] = Key[u] => t = u

\* What the only run there is knows of the keys is up to date.
KnowsKeys(w) == pc[w] = "apply" => keys[w] = {Key[t] : t \in Stored}

\* A proposal that is still to land was new when its run was cancelled, and no
\* later run has read the keys without it.
LateKey(d) ==
    d.status = "pending" =>
        /\ \A w \in Workers : pc[w] # "apply"
        /\ \A t \in Stored : Key[t] # Key[d.task]

KeysInv ==
    /\ OneOfAKey
    /\ \A w \in Workers : KnowsKeys(w)
    /\ \A d \in lateTasks : LateKey(d)

\* A status written over another one makes no task and unmakes none.
LEMMA StoredKeeps ==
  ASSUME TypeInv, NEW t \in Tasks, stored[t] # "absent", NEW s, s # "absent", StoreTask(t, s)
  PROVE  Stored' = Stored
BY DEF StoreTask, Stored, TypeInv, StoresOK

\* A new task has a new key.
LEMMA StoredGrows ==
  ASSUME TypeInv, OneOfAKey, NEW t \in Tasks, StoreTask(t, "pending"),
         \A u \in Stored : Key[u] # Key[t]
  PROVE  Stored' = Stored \cup {t} /\ OneOfAKey'
<1>1. Stored' = Stored \cup {t}
  BY DEF StoreTask, Stored, TypeInv, StoresOK
<1> QED BY <1>1 DEF OneOfAKey

\* Who is applying a plan has just made it, or goes on with it.
LEMMA Applying ==
  ASSUME TypeInv, NEW w \in Workers, RunStep(w), pc'[w] = "apply"
  PROVE  \/ Plan(w)
         \/ pc[w] = "apply" /\ (Create(w) \/ (UNCHANGED <<stored, lateTasks>> /\ keys'[w] = keys[w]))
<1>1. CASE BeginSave(w) \/ Drop(w)
  BY <1>1 DEF BeginSave, Drop, locals, stores, late
<1>2. CASE \/ SaveStarted(w) \/ StepOn(w) \/ SaveRunning(w) \/ Commit(w) \/ MarkUnknown(w)
           \/ SaveEvidence(w) \/ FinalRead(w)
  <2>1. PICK p, r : Step(w, p, r) /\ p # "apply"
    BY <1>2 DEF SaveStarted, StepOn, LoopEnds, OperationEnds, ResumeRun, LoseLease, ContextFails,
                SaveRunning, Commit, MarkUnknown, SaveEvidence, FinalRead
  <2> QED BY <2>1, StepFrame DEF TypeInv
<1>3. CASE StartRun(w) \/ NothingToClaim(w) \/ Claim(w) \/ StartOperation(w)
  BY <1>3 DEF StartRun, NothingToClaim, Claim, StartOperation, TypeInv, RunsOK
<1>4. CASE DeleteCheckpoint(w) \/ MarkCheckpoint(w) \/ FinalSave(w)
  BY <1>4, ForgetFrame, LeaveFrame DEF DeleteCheckpoint, MarkCheckpoint, FinalSave, TypeInv
<1>5. CASE Cancel(w) \/ Fail(w)
  BY <1>5, StepFrame, ForgetFrame DEF Cancel, Fail, Unwind, TypeInv
<1>6. CASE Create(w)
  BY <1>6 DEF Create
<1> QED BY <1>1, <1>2, <1>3, <1>4, <1>5, <1>6, RunCases DEF EndOfSave

LEMMA KeysSaved ==
  ASSUME OneRun, TypeInv, SafetyInv, KeysInv, NEW w \in Workers, RunStep(w), EndOfSave(w)
  PROVE  KeysInv'
<1>1. PICK d \in draft[w] :
        EndSave(w, d) /\ (Create(w) => keys' = [keys EXCEPT ![w] = @ \cup {Key[d.task]}])
  BY DEF EndOfSave, Create, SaveRunning, Commit, MarkUnknown
<1>2. d.task \in Tasks /\ Saving(w, d.task, d.status) /\ StoreTask(d.task, d.status)
  BY <1>1, SavesOwn DEF SafetyInv
<1>3. lateTasks' = {}
  BY <1>1 DEF EndSave, late, SafetyInv, Clean, TasksClean
<1>4. \A v \in Workers : v = w
  BY DEF OneRun
<1>5. CASE pc[w] = "apply"
  <2>1. d.status = "pending" /\ ~IsDuplicate(w, d.task) /\ keys[w] = {Key[t] : t \in Stored}
    BY <1>2, <1>5 DEF Saving, KeysInv, KnowsKeys
  <2>2. Stored' = Stored \cup {d.task} /\ OneOfAKey'
    BY <1>2, <2>1, StoredGrows DEF IsDuplicate, KeysInv
  <2>3. Create(w)
    BY <1>5 DEF EndOfSave, SaveRunning, Commit, MarkUnknown
  <2>4. keys'[w] = {Key[t] : t \in Stored} \cup {Key[d.task]}
    BY <1>1, <2>1, <2>3 DEF TypeInv, RunsOK
  <2>5. keys'[w] = {Key[t] : t \in Stored'}
    BY <2>2, <2>4
  <2> QED BY <1>3, <1>4, <2>2, <2>5 DEF KeysInv, KnowsKeys
<1>6. CASE pc[w] # "apply"
  <2>1. Stored' = Stored
    <3>1. d.task = task[w] /\ pc[w] \in Holding /\ d.status # "absent"
      BY <1>2, <1>6 DEF Saving, Holding, InTry, InHandler
    <3> QED BY <1>2, <3>1, StoredKeeps DEF SafetyInv, WorkersInv, AttemptAt
  <2>2. pc'[w] # "apply"
    BY <1>6, Applying DEF EndOfSave, Plan, SaveRunning, Commit, MarkUnknown, Create
  <2> QED BY <1>3, <1>4, <2>1, <2>2 DEF KeysInv, KnowsKeys, OneOfAKey
<1> QED BY <1>5, <1>6

LEMMA KeysRun ==
  ASSUME OneRun, TypeInv, SafetyInv, KeysInv, ~torn', NEW w \in Workers, RunStep(w), ~EndOfSave(w)
  PROVE  KeysInv'
<1>1. \A v \in Workers : v = w
  BY DEF OneRun
<1>2. UNCHANGED stored /\ Stored' = Stored
  BY RunWrites DEF SafetyInv, Stored
<1>3. ASSUME pc'[w] = "apply" PROVE keys'[w] = {Key[t] : t \in Stored}
  <2>1. CASE Plan(w)
    BY <2>1 DEF Plan, TypeInv, RunsOK
  <2>2. CASE pc[w] = "apply" /\ keys'[w] = keys[w]
    BY <2>2 DEF KeysInv, KnowsKeys
  <2> QED BY <1>3, <2>1, <2>2, Applying DEF EndOfSave
<1>4. ASSUME NEW d \in lateTasks', d.status = "pending"
      PROVE  pc'[w] # "apply" /\ \A t \in Stored : Key[t] # Key[d.task]
  <2>1. CASE d \in lateTasks
    <3>1. pc[w] # "apply" /\ \A t \in Stored : Key[t] # Key[d.task]
      BY <1>4, <2>1 DEF KeysInv, LateKey
    <3>2. ~Plan(w)
      BY <2>1, LateHalts DEF SafetyInv
    <3> QED BY <3>1, <3>2, Applying
  <2>2. CASE Cancel(w) /\ d \in draft[w]
    <3>1. Saving(w, d.task, "pending")
      BY <1>4, <2>2 DEF TypeInv, DraftsOK, DraftAt
    <3>2. pc[w] = "apply" /\ Key[d.task] \notin keys[w]
      BY <3>1 DEF Saving, IsDuplicate
    <3>3. pc'[w] = "idle"
      BY <2>2, <3>2, ForgetFrame DEF Cancel, Unwind, InTry, InHandler, TypeInv
    <3> QED BY <3>2, <3>3 DEF KeysInv, KnowsKeys
  <2> QED BY <2>1, <2>2, RunLate
<1> QED BY <1>1, <1>2, <1>3, <1>4 DEF KeysInv, KnowsKeys, LateKey, OneOfAKey

LEMMA KeysElsewhere ==
  ASSUME TypeInv, SafetyInv, KeysInv, Elsewhere
  PROVE  KeysInv'
<1>1. UNCHANGED <<pc, keys>>
  BY ElsewhereFrame DEF locals
<1>2. \A d \in lateTasks' : d \in lateTasks \/ d.status # "pending"
  BY RestLate DEF TypeInv, SweeperOK
<1>3. CASE Stored' = Stored
  BY <1>1, <1>2, <1>3 DEF KeysInv, KnowsKeys, LateKey, OneOfAKey
<1>4. ASSUME NEW d \in lateTasks, StoreTask(d.task, d.status), lateTasks' = {}
      PROVE  KeysInv'
  <2>1. d.task \in Tasks /\ Late(d) /\ LateKey(d)
    BY DEF TypeInv, LateOK, TaskSaves, SafetyInv, LateInv, KeysInv
  <2>2. CASE d.status = "pending"
    <3>1. OneOfAKey'
      BY <1>4, <2>1, <2>2, StoredGrows DEF LateKey, KeysInv
    <3> QED BY <1>1, <1>4, <2>1, <2>2, <3>1 DEF LateKey, KeysInv, KnowsKeys
  <2>3. CASE d.status # "pending"
    BY <1>3, <1>4, <2>1, <2>3, StoredKeeps DEF Late
  <2> QED BY <2>2, <2>3
<1>5. CASE SweepSave /\ StoreTask(sweeper.task, "unknown")
  <2>1. sweeper.task \in Tasks /\ stored[sweeper.task] # "absent"
    <3>1. sweeper.step = "save"
      BY <1>5 DEF SweepSave, TypeInv, SweeperOK
    <3> QED BY <3>1 DEF TypeInv, SweeperOK, SafetyInv, OthersInv
  <2> QED BY <1>3, <1>5, <2>1, StoredKeeps
<1>6. CASE ResolveSave /\ StoreTask(operator.task, IF operator.retry THEN "pending" ELSE "failed")
  <2>1. operator.task \in Tasks /\ stored[operator.task] # "absent"
    <3>1. operator.step = "save"
      BY <1>6 DEF ResolveSave, TypeInv, OperatorOK
    <3> QED BY <3>1 DEF TypeInv, OperatorOK, SafetyInv, OthersInv
  <2> QED BY <1>3, <1>6, <2>1, StoredKeeps
<1>7. CASE UNCHANGED stored
  BY <1>3, <1>7 DEF Stored
<1> QED BY <1>4, <1>5, <1>6, <1>7, RestStores DEF SafetyInv

LEMMA KeysStep ==
  ASSUME OneRun, TypeInv, SafetyInv, KeysInv, ~torn', [Next]_vars
  PROVE  KeysInv'
<1>1. CASE \E w \in Workers : RunStep(w)
  BY <1>1, KeysRun, KeysSaved
<1>2. CASE Crash
  <2>1. UNCHANGED stored /\ lateTasks' = {} /\ \A w \in Workers : pc'[w] # "apply"
    BY <1>2 DEF Crash, Forget, stores
  <2> QED BY <2>1 DEF KeysInv, KnowsKeys, LateKey, OneOfAKey, Stored
<1>3. CASE UNCHANGED vars
  BY <1>3 DEF vars, stores, locals, late, Stored, KeysInv, KnowsKeys, LateKey, OneOfAKey
<1> QED BY <1>1, <1>2, <1>3, KeysElsewhere, NextCases

KeysGuarded == ~torn => KeysInv

\* With one run at a time no two stored tasks share a deduplication key, whatever
\* cancellations, failures, crashes, lapses and interventions of the operator: a
\* proposal that a cancelled run leaves to a thread is not proposed again without
\* the files being torn.
THEOREM NoTaskTwice == OneRun /\ DistinctKeys => (Spec => []NoDuplicateTasks)
<1> SUFFICES ASSUME OneRun, DistinctKeys PROVE Spec => []NoDuplicateTasks
  OBVIOUS
<1>0. Exclusive
  BY DEF OneRun, Exclusive, OwnOwners
<1>1. Init => KeysGuarded
  BY DEF DistinctKeys, Init, KeysGuarded, KeysInv, KnowsKeys, LateKey, OneOfAKey, Stored
<1>2. TypeInv /\ Guarded /\ KeysGuarded /\ [Next]_vars => KeysGuarded'
  BY KeysStep, TornStays DEF Guarded, KeysGuarded
<1>3. KeysGuarded => NoDuplicateTasks
  BY DEF KeysGuarded, KeysInv, OneOfAKey, NoDuplicateTasks
<1> QED BY <1>0, <1>1, <1>2, <1>3, SafetyAlways, TypingInit, TypingStep, PTL DEF Spec

-------------------------------------------------------------------------------
(* Where no lease lapses either, as from the command line, the verdict stored *)
(* on a mission stays true: a sweep that began before could not reopen it.    *)

CommandLine == OneRun /\ Expiry = "never"

\* Every task is completed, and no thread is to say otherwise.
AllDone == lateTasks = {} /\ \A t \in Stored : stored[t] = "completed"

\* A verdict of completed is in the file, or in the hands of a thread or a run.
Spoken == mission = "completed" \/ "completed" \in lateMission
SpeaksTruly(w) == pc[w] = "final_save" /\ result[w] = "completed" => AllDone

VerdictInv ==
    /\ Spoken => AllDone /\ \A w \in Workers : pc[w] \in {"idle", "save_started"}
    /\ \A w \in Workers : SpeaksTruly(w)

\* Steps in the middle of a run: they have no part in verdicts.
LEMMA VerdictFrame ==
  ASSUME TypeInv, NEW w \in Workers, RunStep(w), ~StartRun(w), ~SaveStarted(w), ~FinalRead(w),
         ~FinalSave(w), ~Cancel(w), ~Fail(w)
  PROVE  /\ UNCHANGED <<mission, lateMission>>
         /\ pc[w] \notin {"idle", "save_started"} /\ pc'[w] # "final_save"
<1>1. CASE BeginSave(w) \/ Drop(w)
  <2>1. UNCHANGED <<mission, lateMission, pc>>
    BY <1>1 DEF BeginSave, Drop, stores, locals, late
  <2>2. pc[w] \in SavePoints
    BY <1>1 DEF BeginSave, Saving, Drop, SavePoints
  <2> QED BY <2>1, <2>2 DEF SavePoints
<1>2. CASE \/ StepOn(w) \/ SaveRunning(w) \/ Commit(w) \/ MarkUnknown(w) \/ SaveEvidence(w)
  <2>1. PICK p, r : Step(w, p, r) /\ p # "final_save"
    BY <1>2 DEF StepOn, LoopEnds, OperationEnds, ResumeRun, LoseLease, ContextFails,
                SaveRunning, Commit, MarkUnknown, SaveEvidence
  <2>2. UNCHANGED <<mission, lateMission>> /\ pc[w] \notin {"idle", "save_started"}
    BY <1>2 DEF StepOn, LoopEnds, OperationEnds, ResumeRun, LoseLease, ContextFails, SaveRunning,
                Commit, MarkUnknown, EndSave, Replace, SaveEvidence, StoreEvidence, stores, late
  <2> QED BY <2>1, <2>2, StepFrame DEF TypeInv
<1>3. CASE Plan(w) \/ Create(w) \/ Claim(w) \/ NothingToClaim(w) \/ StartOperation(w)
  <2>1. UNCHANGED <<mission, lateMission>> /\ pc[w] \notin {"idle", "save_started"}
    BY <1>3 DEF Plan, Create, EndSave, Replace, Claim, NothingToClaim, StartOperation, ReadTasks,
                stores, late
  <2>2. pc'[w] # "final_save"
    BY <1>3 DEF Plan, Create, Claim, NothingToClaim, StartOperation, TypeInv, RunsOK
  <2> QED BY <2>1, <2>2
<1>4. CASE DeleteCheckpoint(w) \/ MarkCheckpoint(w)
  <2>1. UNCHANGED <<mission, lateMission>> /\ pc[w] \notin {"idle", "save_started"}
    BY <1>4 DEF DeleteCheckpoint, MarkCheckpoint, stores, late
  <2> QED BY <1>4, <2>1, ForgetFrame, LeaveFrame DEF DeleteCheckpoint, MarkCheckpoint, TypeInv
<1> QED BY <1>1, <1>2, <1>3, <1>4, RunCases DEF EndOfSave

\* Outside its saves of tasks a run changes nothing the verdict is about.
LEMMA DoneStays ==
  ASSUME TypeInv, SafetyInv, NEW w \in Workers, RunStep(w), pc[w] \notin SavePoints, AllDone
  PROVE  AllDone'
<1>1. UNCHANGED stored
  BY RunWrites
     DEF EndOfSave, Create, SaveRunning, Commit, MarkUnknown, SavePoints, SafetyInv
<1>2. lateTasks' = {}
  BY RunLate, NoDraft DEF AllDone
<1> QED BY <1>1, <1>2 DEF AllDone, Stored

LEMMA VerdictRun ==
  ASSUME OneRun, TypeInv, SafetyInv, VerdictInv, ~torn', NEW w \in Workers, RunStep(w)
  PROVE  VerdictInv'
<1>1. \A v \in Workers : v = w
  BY DEF OneRun
<1>2. pc[w] \in {"idle", "save_started", "final_save"} /\ AllDone => AllDone'
  BY DoneStays DEF SavePoints
<1>3. CASE StartRun(w)
  <2>1. UNCHANGED <<mission, lateMission>> /\ pc[w] = "idle" /\ pc'[w] = "save_started"
    BY <1>3 DEF StartRun, stores, late, TypeInv, RunsOK
  <2> QED BY <1>1, <1>2, <2>1 DEF VerdictInv, Spoken, SpeaksTruly
<1>4. CASE SaveStarted(w)
  <2>1. mission' = "running" /\ lateMission' = {} /\ pc'[w] = "plan"
    BY <1>4, StepFrame DEF SaveStarted, StoreMission, late, TypeInv, RunsOK
  <2> QED BY <1>1, <2>1 DEF VerdictInv, Spoken, SpeaksTruly
<1>5. CASE FinalRead(w)
  <2>1. UNCHANGED <<mission, lateMission, stored>> /\ lateTasks' = {} /\ pc[w] = "final_read"
    BY <1>5 DEF FinalRead, ReadTasks, stores, late
  <2>2. result'[w] = Verdict(failed[w])
    BY <1>5, StepFrame DEF FinalRead, TypeInv
  <2>3. Verdict(failed[w]) = "completed" => \A t \in Stored : stored[t] = "completed"
    BY DEF Verdict, AnyTask, Stored, TypeInv, StoresOK, TaskStatuses
  <2> QED BY <1>1, <2>1, <2>2, <2>3 DEF VerdictInv, Spoken, SpeaksTruly, AllDone, Stored
<1>6. CASE FinalSave(w)
  <2>1. mission' = result[w] /\ lateMission' = {} /\ pc[w] = "final_save" /\ pc'[w] = "idle"
    BY <1>6, ForgetFrame DEF FinalSave, StoreMission, late, TypeInv
  <2> QED BY <1>1, <1>2, <2>1 DEF VerdictInv, Spoken, SpeaksTruly
<1>7. CASE Cancel(w) \/ Fail(w)
  <2>1. PICK r : Unwind(w, r)
    BY <1>7 DEF Cancel, Fail
  <2>2. pc[w] # "idle" /\ pc'[w] \in {"idle", "mark_unknown"} /\ (pc[w] \in Outside => pc'[w] = "idle")
    BY <2>1, ForgetFrame, StepFrame DEF Unwind, Outside, InTry, InHandler, TypeInv
  <2>3. /\ UNCHANGED mission
        /\ \/ UNCHANGED lateMission
           \/ /\ pc[w] \in {"save_started", "final_save"}
              /\ lateMission' = lateMission \cup {result[w]}
    BY <1>7 DEF Cancel, Fail, Detach, stores, late
  <2>4. pc[w] = "save_started" => result[w] = "running"
    BY DEF TypeInv, RunsOK
  <2>5. Spoken' => pc[w] \in {"save_started", "final_save"} /\ AllDone
    BY <2>2, <2>3, <2>4 DEF VerdictInv, Spoken, SpeaksTruly
  <2> QED BY <1>1, <1>2, <2>2, <2>5 DEF VerdictInv, SpeaksTruly, Outside
<1>8. CASE ~(StartRun(w) \/ SaveStarted(w) \/ FinalRead(w) \/ FinalSave(w) \/ Cancel(w) \/ Fail(w))
  BY <1>1, <1>8, VerdictFrame DEF VerdictInv, Spoken, SpeaksTruly
<1> QED BY <1>3, <1>4, <1>5, <1>6, <1>7, <1>8

\* Where something is not done, no verdict says so.
LEMMA Unspoken ==
  ASSUME VerdictInv, ~AllDone, UNCHANGED <<mission, lateMission, pc, result>>
  PROVE  VerdictInv'
BY DEF VerdictInv, Spoken, SpeaksTruly

LEMMA VerdictStep ==
  ASSUME CommandLine, TypeInv, SafetyInv, NoSweep, OrderInv, VerdictInv, ~torn', [Next]_vars
  PROVE  VerdictInv'
<1>1. CASE \E w \in Workers : RunStep(w)
  BY <1>1, VerdictRun DEF CommandLine
<1>2. CASE Crash
  <2>1. /\ UNCHANGED <<stored, mission>> /\ lateTasks' = {} /\ lateMission' = {}
        /\ \A w \in Workers : pc'[w] = "idle"
    BY <1>2 DEF Crash, Forget, stores
  <2> QED BY <2>1 DEF VerdictInv, Spoken, SpeaksTruly, AllDone, Stored
<1>3. CASE LateLands
  <2>1. UNCHANGED <<pc, result>>
    BY <1>3 DEF LateLands, locals
  <2>2. CASE lateTasks # {} /\ UNCHANGED <<mission, lateMission>>
    BY <2>1, <2>2, Unspoken DEF AllDone
  <2>3. CASE UNCHANGED <<stored, lateTasks>> /\ (Spoken' => Spoken)
    BY <2>1, <2>3 DEF VerdictInv, SpeaksTruly, AllDone, Stored
  <2> QED BY <1>3, <2>2, <2>3 DEF LateLands, Replace, Spoken
<1>4. CASE ResolveSave
  <2>1. PICK d \in operator.draft : TRUE
    BY <1>4 DEF ResolveSave
  <2>2. operator.task \in Tasks /\ stored[operator.task] = "unknown"
    BY <2>1 DEF TypeInv, OperatorOK, OrderInv, InDoubt
  <2>3. UNCHANGED <<mission, lateMission, pc, result>>
    BY <1>4 DEF ResolveSave, Replace, locals, late
  <2> QED BY <2>2, <2>3, Unspoken DEF AllDone, Stored
<1>5. CASE StrayEnds \/ OperatorDies \/ (\E t \in Tasks, retry \in BOOLEAN : ResolveRead(t, retry))
           \/ ResolveBegin \/ ResolveDelete \/ UNCHANGED vars
  <2>1. UNCHANGED <<stores, locals, late>>
    BY <1>5 DEF StrayEnds, OperatorDies, ResolveRead, ResolveBegin, ResolveDelete, vars
  <2> QED BY <2>1 DEF stores, locals, late, Stored, AllDone, VerdictInv, Spoken, SpeaksTruly
<1> QED BY <1>1, <1>2, <1>3, <1>4, <1>5, NothingToSweep, NextCases DEF CommandLine, Resolve

VerdictGuarded == ~torn => VerdictInv

\* With one run at a time and no lapse a mission stored as completed has nothing
\* but completed tasks: not even a verdict that a thread writes long after its run
\* was cancelled outlives its truth, unless the files are torn meanwhile.
THEOREM VerdictStaysTrue == CommandLine => (Spec => []CompletedMissionIsComplete)
<1> SUFFICES ASSUME CommandLine PROVE Spec => []CompletedMissionIsComplete
  OBVIOUS
<1>0. Steady /\ Exclusive
  BY DEF CommandLine, OneRun, Steady, Exclusive, OwnOwners
<1>1. Init => VerdictGuarded
  BY DEF Init, VerdictGuarded, VerdictInv, Spoken, SpeaksTruly
<1>2. TypeInv /\ Guarded /\ NoSweep /\ OrderGuarded /\ VerdictGuarded /\ [Next]_vars
        => VerdictGuarded'
  BY VerdictStep, TornStays DEF Guarded, OrderGuarded, VerdictGuarded
<1>3. VerdictGuarded => CompletedMissionIsComplete
  BY DEF VerdictGuarded, VerdictInv, Spoken, AllDone, CompletedMissionIsComplete
<1> QED BY <1>0, <1>1, <1>2, <1>3, SafetyAlways, OrderAlways, TypingInit, TypingStep, PTL DEF Spec

===============================================================================
