------------------------- MODULE MissionServiceProofs -------------------------
(***************************************************************************)
(* Theorems about MissionService, for every set of tasks and workers,      *)
(* every fault, planner, verifier, operator and bound.                     *)
(***************************************************************************)
EXTENDS MissionService, TLAPS

(* Typing.  TypeOK alone is not inductive: a store written for a task, or  *)
(* the mission status written at the end, must be known to be one, and a   *)
(* save under way must be the one that its worker, the sweeper or the      *)
(* operator is about to finish.                                            *)

Holding == {"save_running", "save_checkpoint"} \cup InTry \cup InHandler

StoresOK ==
    /\ stored \in [Tasks -> TaskStatuses]
    /\ evidence \in [Tasks -> SUBSET Nat]
    /\ mission \in MissionStatuses

RunsOK ==
    /\ pc \in [Workers -> Active \cup {"idle"}]
    /\ task \in [Workers -> Tasks \cup {NoTask}]
    /\ todo \in [Workers -> SUBSET Tasks]
    /\ keys \in [Workers -> SUBSET {Key[t] : t \in Tasks}]
    /\ left \in [Workers -> Nat]
    /\ failed \in [Workers -> BOOLEAN]
    /\ result \in [Workers -> Results]
    /\ attempt \in [Workers -> Nat]
    /\ \A w \in Workers : pc[w] \in Holding => task[w] \in Tasks
    /\ \A w \in Workers : pc[w] = "final_save" => result[w] \in MissionStatuses
    /\ \A w \in Workers : pc[w] = "save_started" => result[w] = "running"

DraftAt(w) ==
    /\ \A d \in draft[w] : Saving(w, d.task, d.status)
    /\ \A d, e \in draft[w] : d = e

DraftsOK ==
    /\ draft \in [Workers -> SUBSET TaskSaves]
    /\ \A w \in Workers : DraftAt(w)

LocksOK == ahead \in [Workers -> SUBSET (Workers \cup {"sweeper"})]

LateOK ==
    /\ lateTasks \subseteq TaskSaves
    /\ lateEvidence \subseteq EvidenceSaves
    /\ lateMission \subseteq MissionStatuses

SharedOK ==
    /\ lease \in [Tasks -> Lease]
    /\ stray \subseteq Tasks \X Nat

SweeperOK ==
    /\ sweeper \in [step : {"idle", "read", "save", "checkpoint"}, queue : SUBSET Tasks,
                     task : Tasks \cup {NoTask}, draft : SUBSET TaskSaves]
    /\ sweeper.step \in {"save", "checkpoint"} => sweeper.task \in Tasks
    /\ \A d \in sweeper.draft :
          sweeper.step = "save" /\ d.task = sweeper.task /\ d.status = "unknown"
    /\ \A d, e \in sweeper.draft : d = e

OperatorOK ==
    /\ operator \in [step : {"idle", "save", "delete"}, task : Tasks \cup {NoTask},
                      retry : BOOLEAN, draft : SUBSET TaskSaves]
    /\ operator.step # "idle" => operator.task \in Tasks
    /\ \A d \in operator.draft :
          /\ operator.step = "save" /\ d.task = operator.task
          /\ d.status = IF operator.retry THEN "pending" ELSE "failed"
    /\ \A d, e \in operator.draft : d = e

HistoryOK ==
    /\ started \in [Tasks -> Nat]
    /\ approvals \in [Tasks -> Nat]
    /\ faults \in Nat
    /\ torn \in BOOLEAN

TypeInv ==
    /\ StoresOK /\ RunsOK /\ DraftsOK /\ LocksOK /\ LateOK /\ SharedOK
    /\ SweeperOK /\ OperatorOK /\ HistoryOK

LEMMA TypeInvTypeOK == TypeInv => TypeOK
  BY DEF TypeInv, StoresOK, RunsOK, DraftsOK, LocksOK, LateOK, SharedOK, SweeperOK, OperatorOK,
         HistoryOK, TypeOK

LEMMA TypingInit == Init => TypeInv
<1> SUFFICES ASSUME Init PROVE TypeInv
  OBVIOUS
<1> USE ConstantAssumption DEF Init
<1>1. StoresOK
  BY DEF StoresOK, TaskStatuses, MissionStatuses
<1>2. RunsOK
  BY DEF RunsOK, Active, Outside, InTry, InHandler, Results, Holding
<1>3. DraftsOK /\ LocksOK /\ LateOK
  BY DEF DraftsOK, DraftAt, LocksOK, LateOK
<1>4. SharedOK
  BY DEF SharedOK, Lease, Free
<1>5. SweeperOK /\ OperatorOK
  BY DEF SweeperOK, OperatorOK, AtRest, NotCalled
<1>6. HistoryOK
  BY DEF HistoryOK
<1> QED
  BY <1>1, <1>2, <1>3, <1>4, <1>5, <1>6 DEF TypeInv

(* One lemma per way in which a part of the state is written.              *)

LEMMA ReplaceTyping ==
    ASSUME StoresOK, NEW d \in TaskSaves, Replace(d) PROVE StoresOK'
<1>1. d.base \in [Tasks -> TaskStatuses] /\ d.task \in Tasks /\ d.status \in TaskStatuses
  BY DEF TaskSaves
<1>2. stored' = [d.base EXCEPT ![d.task] = d.status] /\ UNCHANGED <<evidence, mission>>
  BY DEF Replace, Written
<1> QED BY <1>1, <1>2 DEF StoresOK

LEMMA SaveTyping ==
    ASSUME StoresOK, NEW t \in Tasks, NEW s \in TaskStatuses
    PROVE  /\ Save(t, s) \in TaskSaves
           /\ Save(t, s).task = t /\ Save(t, s).status = s /\ Save(t, s).base = stored
BY DEF StoresOK, Save, TaskSaves

LEMMA ServedTyping ==
    ASSUME LocksOK, NEW x PROVE Served(x) \in [Workers -> SUBSET (Workers \cup {"sweeper"})]
BY DEF LocksOK, Served

LEMMA ReadTyping ==
    ASSUME TypeInv, NEW x, ReadTasks(x)
    PROVE  /\ StoresOK' /\ LateOK' /\ torn' \in BOOLEAN
           /\ UNCHANGED <<stores, draft, late>> /\ (~torn' => ~torn /\ lateTasks = {})
BY DEF TypeInv, StoresOK, LateOK, ReadTasks, stores, late

LEMMA ForgetTyping ==
    ASSUME RunsOK, NEW W \in SUBSET Workers, Forget(W) PROVE RunsOK'
BY DEF RunsOK, Forget, Active, Outside, InTry, InHandler, Holding, Results

LEMMA StepTyping ==
    ASSUME RunsOK, NEW w \in Workers, NEW p \in Active, NEW r \in Results,
           Step(w, p, r), p \in Holding => pc[w] \in Holding,
           p = "final_save" => r \in MissionStatuses, p # "save_started"
    PROVE  RunsOK'
BY DEF RunsOK, Step

LEMMA LeaveTyping ==
    ASSUME RunsOK, NEW w \in Workers, NEW f \in BOOLEAN, LeaveTask(w, "plan", f)
    PROVE  RunsOK'
BY DEF RunsOK, LeaveTask, Active, Outside, InTry, InHandler, Holding, Results

LEMMA FreeTyping ==
    ASSUME SharedOK, NEW w \in Workers, FreeLeaseOf(w), UNCHANGED stray
    PROVE  SharedOK'
BY DEF SharedOK, FreeLeaseOf, Released, Lease, Free

LEMMA UnwindTyping ==
    ASSUME TypeInv, NEW w \in Workers, NEW r \in {"cancelled", "raised"}, Unwind(w, r)
    PROVE  RunsOK' /\ SharedOK'
<1>1. CASE pc[w] \in Outside /\ Forget({w}) /\ UNCHANGED shared
  BY <1>1, ForgetTyping DEF TypeInv, SharedOK, shared
<1>2. CASE pc[w] \in InTry /\ Step(w, "mark_unknown", r) /\ UNCHANGED lease
           /\ stray' = IF pc[w] = "executing" /\ result[w] = "live"
                       THEN stray \cup {<<task[w], attempt[w]>>} ELSE stray
  <2>1. RunsOK'
    BY <1>2, StepTyping DEF TypeInv, Active, InHandler, Holding, Results
  <2>2. task[w] \in Tasks /\ attempt[w] \in Nat
    BY <1>2 DEF TypeInv, RunsOK, Holding
  <2>3. SharedOK'
    BY <1>2, <2>2 DEF TypeInv, SharedOK
  <2> QED
    BY <2>1, <2>3
<1>3. CASE pc[w] \in InHandler /\ Forget({w}) /\ FreeLeaseOf(w) /\ UNCHANGED stray
  BY <1>3, ForgetTyping, FreeTyping DEF TypeInv
<1> QED
  BY <1>1, <1>2, <1>3 DEF Unwind

-------------------------------------------------------------------------------
(* Steps of runs.                                                            *)

RunStep(w) == StartRun(w) \/ Work(w) \/ ContextFails(w) \/ Cancel(w) \/ Fail(w)

\* The steps by name: those that only move on, ...
StepOn(w) ==
    \/ LoopEnds(w) \/ OperationEnds(w) \/ ResumeRun(w) \/ LoseLease(w) \/ ContextFails(w)
\* ... those that store something, ...
EndOfSave(w) == Create(w) \/ SaveRunning(w) \/ Commit(w) \/ MarkUnknown(w)

LEMMA RunCases ==
    ASSUME NEW w \in Workers, RunStep(w)
    PROVE  \/ StartRun(w) \/ SaveStarted(w) \/ StepOn(w) \/ Plan(w) \/ BeginSave(w) \/ Drop(w)
           \/ EndOfSave(w) \/ Claim(w) \/ NothingToClaim(w) \/ StartOperation(w) \/ SaveEvidence(w)
           \/ DeleteCheckpoint(w) \/ MarkCheckpoint(w) \/ FinalRead(w) \/ FinalSave(w)
           \/ Cancel(w) \/ Fail(w)
BY DEF RunStep, Work, StepOn, EndOfSave

LEMMA StepFrame ==
  ASSUME RunsOK, NEW w \in Workers, NEW p, NEW r, Step(w, p, r)
  PROVE  /\ pc'[w] = p /\ result'[w] = r
         /\ UNCHANGED <<task, todo, keys, left, attempt>>
         /\ \A v \in Workers \ {w} : pc'[v] = pc[v] /\ result'[v] = result[v]
BY DEF RunsOK, Step

LEMMA ForgetFrame ==
  ASSUME RunsOK, NEW w \in Workers, Forget({w})
  PROVE  /\ pc'[w] = "idle" /\ todo'[w] = {} /\ task'[w] = NoTask
         /\ \A v \in Workers \ {w} :
               /\ pc'[v] = pc[v] /\ task'[v] = task[v] /\ todo'[v] = todo[v]
               /\ keys'[v] = keys[v] /\ left'[v] = left[v]
               /\ result'[v] = result[v] /\ attempt'[v] = attempt[v]
BY DEF RunsOK, Forget

LEMMA LeaveFrame ==
  ASSUME RunsOK, NEW w \in Workers, NEW f, LeaveTask(w, "plan", f)
  PROVE  /\ pc'[w] = "plan" /\ task'[w] = NoTask /\ UNCHANGED <<todo, keys, left>>
         /\ \A v \in Workers \ {w} :
               /\ pc'[v] = pc[v] /\ task'[v] = task[v]
               /\ result'[v] = result[v] /\ attempt'[v] = attempt[v]
BY DEF RunsOK, LeaveTask

\* What a worker's own part of the invariants speaks of.
SameWorker(v) ==
    /\ pc'[v] = pc[v] /\ task'[v] = task[v] /\ todo'[v] = todo[v] /\ keys'[v] = keys[v]
    /\ left'[v] = left[v] /\ result'[v] = result[v] /\ attempt'[v] = attempt[v]
    /\ draft'[v] = draft[v]

\* A step of w leaves the other workers where they are.
LEMMA OthersStay ==
  ASSUME RunsOK, DraftsOK, NEW w \in Workers, RunStep(w), NEW v \in Workers \ {w}
  PROVE  SameWorker(v)
<1> DEFINE SameLocals ==
      /\ pc'[v] = pc[v] /\ task'[v] = task[v] /\ todo'[v] = todo[v] /\ keys'[v] = keys[v]
      /\ left'[v] = left[v] /\ result'[v] = result[v] /\ attempt'[v] = attempt[v]
<1>1. ASSUME NEW p, NEW r, Step(w, p, r) PROVE SameLocals
  BY <1>1, StepFrame
<1>2. ASSUME Forget({w}) PROVE SameLocals
  BY <1>2, ForgetFrame
<1>3. ASSUME NEW f, LeaveTask(w, "plan", f) PROVE SameLocals
  BY <1>3, LeaveFrame
<1>4. ASSUME \/ UNCHANGED draft \/ draft' = [draft EXCEPT ![w] = {}]
             \/ \E x : draft' = [draft EXCEPT ![w] = x]
      PROVE  draft'[v] = draft[v]
  BY <1>4 DEF DraftsOK
<1>5. ASSUME SameLocals, draft'[v] = draft[v] PROVE SameWorker(v)
  BY <1>5 DEF SameWorker
<1>6. CASE StartRun(w) \/ Plan(w) \/ Drop(w) \/ Claim(w) \/ NothingToClaim(w) \/ StartOperation(w)
  BY <1>6 DEF StartRun, Plan, Drop, Claim, NothingToClaim, StartOperation, ReadTasks, RunsOK, SameWorker
<1>7. CASE BeginSave(w)
  <2>1. SameLocals
    BY <1>7 DEF BeginSave, locals
  <2>2. \E x : draft' = [draft EXCEPT ![w] = x]
    BY <1>7 DEF BeginSave
  <2> QED BY <1>4, <1>5, <2>1, <2>2
<1>8. CASE Create(w)
  BY <1>8 DEF Create, EndSave, RunsOK, DraftsOK, SameWorker
<1> HIDE DEF SameLocals
<1>9. CASE SaveStarted(w) \/ StepOn(w) \/ SaveEvidence(w) \/ FinalRead(w)
  <2>1. \E p, r : Step(w, p, r)
    BY <1>9 DEF SaveStarted, StepOn, LoopEnds, OperationEnds, ResumeRun, LoseLease, ContextFails,
                SaveEvidence, FinalRead
  <2>2. UNCHANGED draft
    BY <1>9 DEF SaveStarted, StepOn, LoopEnds, OperationEnds, ResumeRun, LoseLease, ContextFails,
                SaveEvidence, FinalRead, ReadTasks
  <2> QED BY <1>1, <1>4, <1>5, <2>1, <2>2
<1>10. CASE SaveRunning(w) \/ Commit(w) \/ MarkUnknown(w)
  <2>1. \E p, r : Step(w, p, r)
    BY <1>10 DEF SaveRunning, Commit, MarkUnknown
  <2>2. draft' = [draft EXCEPT ![w] = {}]
    BY <1>10 DEF SaveRunning, Commit, MarkUnknown, EndSave
  <2> QED BY <1>1, <1>4, <1>5, <2>1, <2>2
<1>11. CASE DeleteCheckpoint(w) \/ MarkCheckpoint(w) \/ FinalSave(w)
  <2>1. SameLocals
    BY <1>2, <1>3, <1>11 DEF DeleteCheckpoint, MarkCheckpoint, FinalSave
  <2>2. UNCHANGED draft
    BY <1>11 DEF DeleteCheckpoint, MarkCheckpoint, FinalSave
  <2> QED BY <1>4, <1>5, <2>1, <2>2
<1>12. CASE Cancel(w) \/ Fail(w)
  <2>1. PICK r : Unwind(w, r)
    BY <1>12 DEF Cancel, Fail
  <2>2. SameLocals /\ draft' = [draft EXCEPT ![w] = {}]
    BY <1>1, <1>2, <2>1 DEF Unwind
  <2> QED BY <1>4, <1>5, <2>2
<1> QED
  BY <1>6, <1>7, <1>8, <1>9, <1>10, <1>11, <1>12, RunCases DEF EndOfSave

SavePoints == {"apply", "save_running", "commit", "mark_unknown"}

LEMMA NoDraft ==
  ASSUME TypeInv, NEW w \in Workers, pc[w] \notin SavePoints \/ (pc[w] = "apply" /\ todo[w] = {})
  PROVE  draft[w] = {}
BY DEF TypeInv, DraftsOK, DraftAt, Saving, SavePoints

\* The save a worker has in hand is that of its step.
LEMMA OwnDraft ==
  ASSUME TypeInv, NEW w \in Workers, RunStep(w)
  PROVE  DraftAt(w)' /\ draft' \in [Workers -> SUBSET TaskSaves]
<1>d. draft \in [Workers -> SUBSET TaskSaves]
  BY DEF TypeInv, DraftsOK
<1>1. ASSUME draft'[w] = {} PROVE DraftAt(w)'
  BY <1>1 DEF DraftAt
<1>2. CASE draft' = [draft EXCEPT ![w] = {}]
  <2>1. draft'[w] = {} /\ draft' \in [Workers -> SUBSET TaskSaves]
    BY <1>d, <1>2
  <2> QED BY <1>1, <2>1
<1>3. CASE UNCHANGED draft /\ draft[w] = {}
  BY <1>d, <1>1, <1>3
<1>4. CASE BeginSave(w)
  <2>1. PICK t \in Tasks, s \in TaskStatuses :
           Saving(w, t, s) /\ draft' = [draft EXCEPT ![w] = {Save(t, s)}]
    BY <1>4 DEF BeginSave
  <2>2. Save(t, s) \in TaskSaves /\ Save(t, s).task = t /\ Save(t, s).status = s
    BY SaveTyping DEF TypeInv
  <2>3. draft'[w] = {Save(t, s)} /\ draft' \in [Workers -> SUBSET TaskSaves]
    BY <1>d, <2>1, <2>2
  <2>4. Saving(w, t, s)'
    BY <1>4, <2>1 DEF BeginSave, locals, Saving, IsDuplicate
  <2>5. \A d \in draft'[w] : Saving(w, d.task, d.status)'
    BY <2>2, <2>3, <2>4
  <2> QED BY <2>3, <2>5 DEF DraftAt
<1>5. CASE EndOfSave(w) \/ Cancel(w) \/ Fail(w)
  <2>1. draft' = [draft EXCEPT ![w] = {}]
    BY <1>5 DEF EndOfSave, Create, SaveRunning, Commit, MarkUnknown, EndSave, Cancel, Fail, Unwind
  <2> QED BY <1>2, <2>1
<1>6. CASE \/ StartRun(w) \/ SaveStarted(w) \/ StepOn(w) \/ Plan(w) \/ StartOperation(w)
           \/ SaveEvidence(w) \/ DeleteCheckpoint(w) \/ MarkCheckpoint(w) \/ FinalRead(w)
           \/ FinalSave(w)
  <2>1. pc[w] \notin SavePoints /\ UNCHANGED draft
    BY <1>6 DEF StartRun, SaveStarted, StepOn, LoopEnds, OperationEnds, ResumeRun, LoseLease,
                ContextFails, Plan, StartOperation, SaveEvidence, DeleteCheckpoint, MarkCheckpoint,
                FinalRead, FinalSave, ReadTasks, SavePoints
  <2> QED BY <1>3, <2>1, NoDraft
<1>7. CASE Drop(w) \/ Claim(w) \/ NothingToClaim(w)
  <2>1. UNCHANGED draft /\ (draft[w] = {} \/ (pc[w] = "apply" /\ todo[w] = {}))
    BY <1>7 DEF Drop, Claim, NothingToClaim, ReadTasks
  <2> QED BY <1>3, <2>1, NoDraft
<1> QED BY <1>4, <1>5, <1>6, <1>7, RunCases

LEMMA DraftsTyping ==
  ASSUME TypeInv, NEW w \in Workers, RunStep(w)
  PROVE  DraftsOK'
<1>1. ASSUME NEW v \in Workers \ {w} PROVE DraftAt(v)'
  <2>1. SameWorker(v) /\ DraftAt(v)
    BY OthersStay DEF TypeInv, DraftsOK
  <2> QED BY <2>1 DEF SameWorker, DraftAt, Saving, IsDuplicate
<1> QED BY <1>1, OwnDraft DEF DraftsOK

LEMMA LocksTyping ==
  ASSUME TypeInv, NEW w \in Workers, RunStep(w)
  PROVE  LocksOK'
<1>1. ASSUME ahead' = Served(w) PROVE LocksOK'
  BY <1>1, ServedTyping DEF TypeInv, LocksOK
<1>2. CASE Claim(w)
  <2>1. Asking(w) \subseteq Workers \cup {"sweeper"}
    BY DEF Asking
  <2> QED BY <1>2, <2>1, ServedTyping DEF Claim, TypeInv, LocksOK
<1>3. CASE Plan(w) \/ BeginSave(w) \/ NothingToClaim(w) \/ FinalRead(w) \/ Cancel(w) \/ Fail(w)
  BY <1>1, <1>3 DEF Plan, BeginSave, NothingToClaim, FinalRead, Cancel, Fail, Unwind
<1>4. CASE \/ StartRun(w) \/ SaveStarted(w) \/ StepOn(w) \/ Drop(w) \/ EndOfSave(w)
           \/ StartOperation(w) \/ SaveEvidence(w) \/ DeleteCheckpoint(w) \/ MarkCheckpoint(w)
           \/ FinalSave(w)
  <2>1. UNCHANGED ahead
    BY <1>4 DEF StartRun, SaveStarted, StepOn, LoopEnds, OperationEnds, ResumeRun, LoseLease,
                ContextFails, Drop, EndOfSave, Create, SaveRunning, Commit, MarkUnknown, EndSave,
                StartOperation, SaveEvidence, DeleteCheckpoint, MarkCheckpoint, FinalSave
  <2> QED BY <2>1 DEF TypeInv, LocksOK
<1> QED BY <1>2, <1>3, <1>4, RunCases

\* The rest of the state in a step of a run.
RestOK ==
    /\ StoresOK /\ RunsOK /\ LateOK /\ SharedOK /\ SweeperOK /\ OperatorOK /\ HistoryOK

LEMMA EndOfSaveTyping ==
  ASSUME TypeInv, NEW w \in Workers, EndOfSave(w)
  PROVE  RestOK'
<1>1. PICK d \in draft[w] : EndSave(w, d)
  BY DEF EndOfSave, Create, SaveRunning, Commit, MarkUnknown
<1>2. d \in TaskSaves /\ Replace(d) /\ UNCHANGED <<late, shared, others, history>>
  BY <1>1 DEF EndSave, TypeInv, DraftsOK
<1>3. StoresOK'
  BY <1>2, ReplaceTyping DEF TypeInv
<1>4. LateOK' /\ SharedOK' /\ SweeperOK' /\ OperatorOK' /\ HistoryOK'
  BY <1>2 DEF TypeInv, LateOK, SharedOK, SweeperOK, OperatorOK, HistoryOK,
              late, shared, others, history, counts
<1>5. RunsOK'
  <2>1. CASE Create(w)
    <3>1. PICK e \in draft[w] :
            /\ todo' = [todo EXCEPT ![w] = @ \ {e.task}]
            /\ keys' = [keys EXCEPT ![w] = @ \cup {Key[e.task]}]
      BY <2>1 DEF Create
    <3>2. e.task \in Tasks
      BY <3>1 DEF TypeInv, DraftsOK, TaskSaves
    <3> QED BY <2>1, <3>1, <3>2 DEF Create, TypeInv, RunsOK
  <2>2. CASE SaveRunning(w)
    BY <2>2, StepTyping DEF SaveRunning, TypeInv, Active, Outside, Holding, InTry, InHandler, Results
  <2>3. CASE Commit(w)
    <3>1. pc[w] = "commit" /\ \E r \in {"accepted", "rejected"} : Step(w, "delete_checkpoint", r)
      BY <2>3 DEF Commit
    <3> QED BY <3>1, StepTyping DEF TypeInv, Active, InTry, Holding, Results
  <2>4. CASE MarkUnknown(w)
    <3>1. pc[w] = "mark_unknown" /\ Step(w, "mark_checkpoint", result[w]) /\ result[w] \in Results
      BY <2>4 DEF MarkUnknown, TypeInv, RunsOK
    <3> QED BY <3>1, StepTyping DEF TypeInv, Active, InHandler, Holding
  <2> QED BY <2>1, <2>2, <2>3, <2>4 DEF EndOfSave
<1> QED BY <1>3, <1>4, <1>5 DEF RestOK

LEMMA FaultTyping ==
  ASSUME TypeInv, NEW w \in Workers, Cancel(w) \/ Fail(w)
  PROVE  RestOK'
<1>1. \E r \in {"cancelled", "raised"} : Unwind(w, r)
  BY DEF Cancel, Fail
<1>2. RunsOK' /\ SharedOK'
  BY <1>1, UnwindTyping
<1>3. StoresOK' /\ SweeperOK' /\ OperatorOK'
  BY DEF Cancel, Fail, stores, others, TypeInv, StoresOK, SweeperOK, OperatorOK
<1>4. LateOK' /\ torn' \in BOOLEAN
  <2>1. CASE UNCHANGED <<late, torn>>
    BY <2>1 DEF late, TypeInv, LateOK, HistoryOK
  <2>2. CASE draft[w] # {} /\ lateTasks' = lateTasks \cup draft[w]
             /\ UNCHANGED <<lateEvidence, lateMission, torn>>
    BY <2>2 DEF TypeInv, LateOK, DraftsOK, HistoryOK
  <2>3. CASE /\ pc[w] = "save_evidence"
             /\ lateEvidence' = lateEvidence \cup
                    {[task |-> task[w], attempt |-> attempt[w], base |-> evidence]}
             /\ torn' = (torn \/ lateEvidence # {})
             /\ UNCHANGED <<lateTasks, lateMission>>
    <3>1. [task |-> task[w], attempt |-> attempt[w], base |-> evidence] \in EvidenceSaves
      BY <2>3 DEF TypeInv, RunsOK, StoresOK, EvidenceSaves, Holding, InTry
    <3> QED BY <2>3, <3>1 DEF TypeInv, LateOK
  <2>4. CASE /\ pc[w] \in {"save_started", "final_save"}
             /\ lateMission' = lateMission \cup {result[w]}
             /\ torn' = (torn \/ lateMission # {})
             /\ UNCHANGED <<lateTasks, lateEvidence>>
    BY <2>4 DEF TypeInv, RunsOK, LateOK, MissionStatuses
  <2> QED BY <2>1, <2>2, <2>3, <2>4 DEF Cancel, Fail, Detach
<1>5. HistoryOK'
  BY <1>4 DEF Cancel, Fail, TypeInv, HistoryOK
<1> QED BY <1>2, <1>3, <1>4, <1>5 DEF RestOK

LEMMA FinalReadTyping ==
  ASSUME TypeInv, NEW w \in Workers, FinalRead(w) PROVE RestOK'
<1>1. StoresOK' /\ LateOK' /\ torn' \in BOOLEAN
  BY ReadTyping DEF FinalRead
<1>2. Verdict(failed[w]) \in MissionStatuses \cap Results
  BY DEF Verdict, MissionStatuses, Results
<1>3. "final_save" \in Active /\ "final_save" \notin Holding
  BY DEF Active, Outside, Holding, InTry, InHandler
<1>4. RunsOK'
  BY <1>2, <1>3, StepTyping DEF FinalRead, TypeInv
<1>5. SharedOK' /\ SweeperOK' /\ OperatorOK'
  BY DEF FinalRead, shared, others, TypeInv, SharedOK, SweeperOK, OperatorOK
<1>6. HistoryOK'
  BY <1>1 DEF FinalRead, counts, TypeInv, HistoryOK
<1> QED BY <1>1, <1>4, <1>5, <1>6 DEF RestOK

LEMMA FinalSaveTyping ==
  ASSUME TypeInv, NEW w \in Workers, FinalSave(w) PROVE RestOK'
<1>1. result[w] \in MissionStatuses
  BY DEF FinalSave, TypeInv, RunsOK
<1>2. StoresOK' /\ torn' \in BOOLEAN
  BY <1>1 DEF FinalSave, StoreMission, TypeInv, StoresOK, HistoryOK
<1>3. RunsOK'
  BY ForgetTyping DEF FinalSave, TypeInv
<1>4. LateOK' /\ SharedOK' /\ SweeperOK' /\ OperatorOK'
  BY DEF FinalSave, late, shared, others, TypeInv, LateOK, SharedOK, SweeperOK, OperatorOK
<1>5. HistoryOK'
  BY <1>2 DEF FinalSave, counts, TypeInv, HistoryOK
<1> QED BY <1>2, <1>3, <1>4, <1>5 DEF RestOK

LEMMA ContextFailsTyping ==
  ASSUME TypeInv, NEW w \in Workers, ContextFails(w) PROVE RestOK'
<1>1. "mark_unknown" \in Active /\ "raised" \in Results /\ pc[w] \in Holding
  BY DEF ContextFails, Active, InHandler, Holding, Results
<1>2. RunsOK'
  BY <1>1, StepTyping DEF ContextFails, TypeInv
<1>3. StoresOK' /\ LateOK' /\ SharedOK' /\ SweeperOK' /\ OperatorOK'
  BY DEF ContextFails, stores, late, shared, others, TypeInv, StoresOK, LateOK, SharedOK,
         SweeperOK, OperatorOK
<1>4. HistoryOK'
  BY DEF ContextFails, TypeInv, HistoryOK
<1> QED BY <1>2, <1>3, <1>4 DEF RestOK

LEMMA MarkCheckpointTyping ==
  ASSUME TypeInv, NEW w \in Workers, MarkCheckpoint(w) PROVE RestOK'
<1>1. RunsOK'
  BY ForgetTyping, LeaveTyping DEF MarkCheckpoint, TypeInv
<1>2. SharedOK'
  BY DEF MarkCheckpoint, FreeLeaseOf, Released, Free, Lease, TypeInv, SharedOK
<1>3. StoresOK' /\ LateOK' /\ SweeperOK' /\ OperatorOK' /\ HistoryOK'
  BY DEF MarkCheckpoint, stores, late, others, counts, history, TypeInv, StoresOK, LateOK,
         SweeperOK, OperatorOK, HistoryOK
<1> QED BY <1>1, <1>2, <1>3 DEF RestOK

LEMMA TypingRun ==
    ASSUME TypeInv, NEW w \in Workers, RunStep(w)
    PROVE  TypeInv'
<1> SUFFICES RestOK'
  BY DraftsTyping, LocksTyping DEF TypeInv, RestOK
<1> USE ConstantAssumption
    DEF TypeInv, RestOK, StoresOK, RunsOK, LateOK, SharedOK, SweeperOK, OperatorOK, HistoryOK,
        Holding, TaskStatuses, MissionStatuses, Active, Outside, InTry, InHandler, Results,
        Lease, Free, stores, locals, late, shared, others, counts, history
<1>1. CASE StartRun(w)
  BY <1>1 DEF StartRun
<1>2. CASE SaveStarted(w)
  BY <1>2 DEF SaveStarted, StoreMission, Step
<1>3. CASE LoopEnds(w)
  BY <1>3 DEF LoopEnds, Step
<1>4. CASE Plan(w)
  <2>1. \E S \in SUBSET Tasks : todo' = [todo EXCEPT ![w] = S]
    BY <1>4 DEF Plan, Fresh
  <2>2. left[w] - 1 \in Nat
    BY <1>4 DEF Plan
  <2> QED BY <1>4, <2>1, <2>2 DEF Plan, Stored, ReadTasks
<1>5. CASE BeginSave(w)
  BY <1>5 DEF BeginSave
<1>6. CASE Drop(w)
  BY <1>6 DEF Drop
<1>7. CASE Claim(w)
  BY <1>7 DEF Claim, Candidates, Pending, Acquired, ReadTasks
<1>8. CASE NothingToClaim(w)
  BY <1>8 DEF NothingToClaim, ReadTasks
<1>9. CASE StartOperation(w)
  BY <1>9 DEF StartOperation
<1>10. CASE OperationEnds(w)
  BY <1>10 DEF OperationEnds, Step
<1>11. CASE ResumeRun(w)
  <2>1. CASE Step(w, "save_evidence", "none")
    BY <1>11, <2>1 DEF ResumeRun, Step
  <2>2. CASE Step(w, "mark_unknown", "raised")
    BY <1>11, <2>2 DEF ResumeRun, Step
  <2> QED
    BY <1>11, <2>1, <2>2 DEF ResumeRun
<1>12. CASE LoseLease(w)
  BY <1>12 DEF LoseLease, Step
<1>13. CASE SaveEvidence(w)
  BY <1>13 DEF SaveEvidence, StoreEvidence, Step
<1>14. CASE DeleteCheckpoint(w)
  BY <1>14 DEF DeleteCheckpoint, FreeLeaseOf, Released, LeaveTask
<1> HIDE DEF TypeInv, RestOK, StoresOK, RunsOK, LateOK, SharedOK, SweeperOK, OperatorOK, HistoryOK,
             stores, locals, late, shared, others, counts, history
<1>15. StepOn(w) => RestOK'
  BY <1>3, <1>10, <1>11, <1>12, ContextFailsTyping DEF StepOn
<1> QED
  BY SMTT(40), <1>1, <1>2, <1>4, <1>5, <1>6, <1>7, <1>8, <1>9, <1>13, <1>14, <1>15,
     MarkCheckpointTyping, EndOfSaveTyping, FinalReadTyping, FinalSaveTyping,
     FaultTyping, RunCases

-------------------------------------------------------------------------------
(* Steps without a run.                                                      *)

Elsewhere ==
    \/ \E t \in Tasks : Expire(t)
    \/ LateLands \/ StrayEnds \/ SweepPop \/ Recover \/ SweepFails
    \/ Resolve \/ OperatorDies

LEMMA NextCases ==
  ASSUME Next PROVE (\E w \in Workers : RunStep(w)) \/ Elsewhere \/ Crash
BY DEF Next, RunStep, Elsewhere

LEMMA ElsewhereFrame ==
  ASSUME Elsewhere
  PROVE  UNCHANGED <<locals, draft, started>>
BY DEF Elsewhere, Expire, LateLands, StrayEnds, SweepPop, Recover, SweepRead, ReadTasks, SweepBegin,
       SweepSave, SweepCheckpoint, SweepEnds, SweepFails, Resolve, ResolveRead, ResolveBegin,
       ResolveSave, ResolveDelete, OperatorDies, counts, history

LEMMA LandingTyping ==
  ASSUME TypeInv, LateLands PROVE StoresOK' /\ LateOK'
<1> USE DEF TypeInv
<1>1. ASSUME NEW d \in lateTasks, Replace(d), lateTasks' = lateTasks \ {d},
             UNCHANGED <<lateEvidence, lateMission>>
      PROVE  StoresOK' /\ LateOK'
  BY <1>1, ReplaceTyping DEF LateOK
<1>2. ASSUME NEW e \in lateEvidence,
             evidence' = [e.base EXCEPT ![e.task] = @ \cup {e.attempt}],
             lateEvidence' = lateEvidence \ {e},
             UNCHANGED <<stored, mission, lateTasks, lateMission>>
      PROVE  StoresOK' /\ LateOK'
  BY <1>2 DEF LateOK, StoresOK, EvidenceSaves
<1>3. ASSUME NEW s \in lateMission, mission' = s, lateMission' = lateMission \ {s},
             UNCHANGED <<stored, evidence, lateTasks, lateEvidence>>
      PROVE  StoresOK' /\ LateOK'
  BY <1>3 DEF LateOK, StoresOK
<1> QED BY <1>1, <1>2, <1>3 DEF LateLands

LEMMA TypingRest ==
    ASSUME TypeInv, Elsewhere \/ Crash PROVE TypeInv'
<1> USE DEF TypeInv
<1>0. ASSUME UNCHANGED <<locals, draft>>
      PROVE  RunsOK' /\ DraftsOK'
  BY <1>0 DEF RunsOK, DraftsOK, DraftAt, Saving, IsDuplicate, locals
<1>s. ASSUME NEW x, ahead' = Served(x) PROVE LocksOK'
  BY <1>s, ServedTyping DEF LocksOK
<1>1. ASSUME NEW t \in Tasks, Expire(t) PROVE TypeInv'
  <2>1. SharedOK'
    BY <1>1 DEF Expire, SharedOK, Lease
  <2>2. StoresOK' /\ LocksOK' /\ LateOK' /\ SweeperOK' /\ OperatorOK' /\ HistoryOK'
    BY <1>1 DEF Expire, StoresOK, LocksOK, LateOK, SweeperOK, OperatorOK, HistoryOK,
                stores, late, others, counts, history
  <2>3. UNCHANGED <<locals, draft>>
    BY <1>1 DEF Expire
  <2> QED BY <1>0, <2>1, <2>2, <2>3
<1>2. CASE StrayEnds
  BY <1>0, <1>2 DEF StrayEnds, StoresOK, LocksOK, LateOK, SharedOK, SweeperOK, OperatorOK, HistoryOK,
                    stores, late, others, counts, history
<1>3. CASE LateLands
  <2>1. SharedOK' /\ SweeperOK' /\ OperatorOK' /\ HistoryOK' /\ LocksOK'
    BY <1>3 DEF LateLands, SharedOK, SweeperOK, OperatorOK, HistoryOK, LocksOK, shared, others,
                counts, history
  <2>2. UNCHANGED <<locals, draft>>
    BY <1>3 DEF LateLands
  <2> QED BY <1>0, <1>3, <2>1, <2>2, LandingTyping
<1>4. CASE SweepPop
  <2>1. SharedOK' /\ SweeperOK'
    BY <1>4 DEF SweepPop, AtRest, SharedOK, SweeperOK, Free, Lease
  <2> QED BY <1>0, <1>4, <2>1 DEF SweepPop, StoresOK, LocksOK, LateOK, OperatorOK, HistoryOK,
                    stores, late, counts, history
<1>5. CASE SweepRead
  <2>1. StoresOK' /\ LateOK' /\ torn' \in BOOLEAN /\ UNCHANGED draft
    BY <1>5, ReadTyping DEF SweepRead
  <2>2. PICK t \in sweeper.queue :
          sweeper' = IF NeedsRecovery(t)
                     THEN [sweeper EXCEPT !.step = "save", !.queue = @ \ {t}, !.task = t]
                     ELSE [sweeper EXCEPT !.queue = @ \ {t}]
    BY <1>5 DEF SweepRead
  <2>3. sweeper.step = "read"
    BY <1>5 DEF SweepRead
  <2>4. SweeperOK'
    <3>1. CASE NeedsRecovery(t)
      BY <2>2, <2>3, <3>1 DEF SweeperOK
    <3>2. CASE ~NeedsRecovery(t)
      BY <2>2, <2>3, <3>2 DEF SweeperOK
    <3> QED BY <3>1, <3>2
  <2>5. LocksOK' /\ SharedOK' /\ OperatorOK' /\ HistoryOK' /\ UNCHANGED locals
    BY <1>5, <1>s, <2>1 DEF SweepRead, SharedOK, OperatorOK, HistoryOK, shared, counts
  <2> QED BY <1>0, <2>1, <2>4, <2>5
<1>6. CASE SweepBegin
  <2>1. Save(sweeper.task, "unknown") \in TaskSaves
        /\ Save(sweeper.task, "unknown").task = sweeper.task
        /\ Save(sweeper.task, "unknown").status = "unknown"
    BY <1>6, SaveTyping DEF SweepBegin, SweeperOK, TaskStatuses
  <2>2. SweeperOK'
    BY <1>6, <2>1 DEF SweepBegin, SweeperOK
  <2> QED BY <1>0, <1>6, <1>s, <2>2
          DEF SweepBegin, StoresOK, LateOK, SharedOK, OperatorOK, HistoryOK, stores, late, shared, counts
<1>7. CASE SweepSave
  <2>1. StoresOK'
    BY <1>7, ReplaceTyping DEF SweepSave, SweeperOK
  <2>2. SweeperOK'
    BY <1>7 DEF SweepSave, SweeperOK
  <2> QED BY <1>0, <1>7, <2>1, <2>2
          DEF SweepSave, LocksOK, LateOK, SharedOK, OperatorOK, HistoryOK, late, shared, counts, history
<1>8. CASE SweepCheckpoint
  <2>1. SweeperOK'
    BY <1>8 DEF SweepCheckpoint, SweeperOK
  <2> QED BY <1>0, <1>8, <2>1
          DEF SweepCheckpoint, StoresOK, LocksOK, LateOK, SharedOK, OperatorOK, HistoryOK,
              stores, late, shared, counts, history
<1>9. CASE SweepEnds
  <2>1. SweeperOK'
    BY <1>9 DEF SweepEnds, AtRest, SweeperOK
  <2> QED BY <1>0, <1>9, <2>1
          DEF SweepEnds, StoresOK, LocksOK, LateOK, SharedOK, OperatorOK, HistoryOK,
              stores, late, shared, counts, history
<1>10. CASE SweepFails
  <2>1. SweeperOK' /\ LateOK'
    BY <1>10 DEF SweepFails, AtRest, SweeperOK, LateOK
  <2> QED BY <1>0, <1>10, <1>s, <2>1
          DEF SweepFails, StoresOK, SharedOK, OperatorOK, HistoryOK, stores, shared
<1>11. ASSUME NEW t \in Tasks, NEW retry \in BOOLEAN, ResolveRead(t, retry) PROVE TypeInv'
  <2>1. OperatorOK'
    BY <1>11 DEF ResolveRead, NotCalled, OperatorOK
  <2> QED BY <1>0, <1>11, <2>1
          DEF ResolveRead, StoresOK, LocksOK, LateOK, SharedOK, SweeperOK, HistoryOK,
              stores, late, shared, counts
<1>12. CASE ResolveBegin
  <2>1. PICK s \in TaskStatuses :
           /\ s = IF operator.retry THEN "pending" ELSE "failed"
           /\ operator' = [operator EXCEPT !.draft = {Save(operator.task, s)}]
    BY <1>12 DEF ResolveBegin, TaskStatuses
  <2>2. operator.step = "save" /\ operator.task \in Tasks
    BY <1>12 DEF ResolveBegin, OperatorOK
  <2>3. /\ Save(operator.task, s) \in TaskSaves
        /\ Save(operator.task, s).task = operator.task /\ Save(operator.task, s).status = s
    BY <2>2, SaveTyping
  <2>4. OperatorOK'
    BY <2>1, <2>2, <2>3 DEF OperatorOK
  <2> QED BY <1>0, <1>12, <2>4
          DEF ResolveBegin, StoresOK, LocksOK, LateOK, SharedOK, SweeperOK, HistoryOK,
              stores, late, shared, counts
<1>13. CASE ResolveSave
  <2>1. PICK d \in operator.draft : Replace(d)
    BY <1>13 DEF ResolveSave
  <2>2. d \in TaskSaves /\ operator.task \in Tasks
    BY <2>1 DEF OperatorOK
  <2>3. StoresOK'
    BY <2>1, <2>2, ReplaceTyping
  <2>4. OperatorOK'
    BY <1>13, <2>2 DEF ResolveSave, OperatorOK
  <2>5. HistoryOK'
    BY <1>13, <2>2 DEF ResolveSave, HistoryOK
  <2> QED BY <1>0, <1>13, <2>3, <2>4, <2>5
          DEF ResolveSave, LocksOK, LateOK, SharedOK, SweeperOK, late, shared
<1>14. CASE ResolveDelete
  <2>1. OperatorOK'
    BY <1>14 DEF ResolveDelete, NotCalled, OperatorOK
  <2> QED BY <1>0, <1>14, <2>1
          DEF ResolveDelete, StoresOK, LocksOK, LateOK, SharedOK, SweeperOK, HistoryOK,
              stores, late, shared, counts, history
<1>15. CASE OperatorDies
  <2>1. OperatorOK'
    BY <1>15 DEF OperatorDies, NotCalled, OperatorOK
  <2> QED BY <1>0, <1>15, <2>1
          DEF OperatorDies, StoresOK, LocksOK, LateOK, SharedOK, SweeperOK, HistoryOK,
              stores, late, shared
<1>16. CASE Crash
  <2>1. RunsOK'
    BY <1>16, ForgetTyping DEF Crash
  <2>2. DraftsOK' /\ LocksOK' /\ LateOK'
    BY <1>16 DEF Crash, DraftsOK, DraftAt, LocksOK, LateOK
  <2>3. StoresOK' /\ SharedOK' /\ OperatorOK' /\ HistoryOK'
    BY <1>16, ConstantAssumption DEF Crash, StoresOK, SharedOK, OperatorOK, HistoryOK, Lease, Free, stores
  <2>4. SweeperOK'
    BY <1>16 DEF Crash, AtRest, SweeperOK
  <2> QED
    BY <2>1, <2>2, <2>3, <2>4
<1> HIDE DEF TypeInv
<1> QED
  BY <1>1, <1>2, <1>3, <1>4, <1>5, <1>6, <1>7, <1>8, <1>9, <1>10, <1>11, <1>12, <1>13, <1>14,
     <1>15, <1>16 DEF Elsewhere, Recover, Resolve

LEMMA TypingStep == TypeInv /\ [Next]_vars => TypeInv'
<1>1. ASSUME TypeInv, UNCHANGED vars PROVE TypeInv'
  BY <1>1 DEF vars, stores, locals, late, shared, others, counts, history,
     TypeInv, StoresOK, RunsOK, DraftsOK, DraftAt, Saving, IsDuplicate, LocksOK, LateOK, SharedOK,
     SweeperOK, OperatorOK, HistoryOK
<1> QED
  BY <1>1, TypingRun, TypingRest, NextCases

\* Every variable keeps its type, and a run that works on a task has one.
THEOREM Typing == Spec => []TypeOK
<1>1. Spec => []TypeInv
  BY TypingInit, TypingStep, PTL DEF Spec
<1> QED
  BY <1>1, TypeInvTypeOK, PTL

-------------------------------------------------------------------------------
(* The lease table under runs, sweeper, expiry and crashes: no premise, not   *)
(* even that the runs' owner ids differ.                                      *)

Holder == [t \in Tasks |-> IF lease[t].live THEN lease[t].owner ELSE NoOwner]

LEMMA RunLease ==
  ASSUME NEW w \in Workers, RunStep(w)
  PROVE  UNCHANGED lease \/ Claim(w) \/ (pc[w] \in Holding /\ FreeLeaseOf(w))
<1>1. CASE Cancel(w) \/ Fail(w)
  BY <1>1 DEF Cancel, Fail, Unwind, shared, Holding
<1>2. CASE DeleteCheckpoint(w) \/ MarkCheckpoint(w)
  BY <1>2 DEF DeleteCheckpoint, MarkCheckpoint, Holding, InTry, InHandler
<1>3. CASE ~(Claim(w) \/ Cancel(w) \/ Fail(w) \/ DeleteCheckpoint(w) \/ MarkCheckpoint(w))
  BY <1>3, RunCases
     DEF StartRun, SaveStarted, StepOn, LoopEnds, OperationEnds, ResumeRun, LoseLease, ContextFails,
         Plan, BeginSave, Drop, EndOfSave, Create, SaveRunning, Commit, MarkUnknown, EndSave,
         NothingToClaim, StartOperation, SaveEvidence, FinalRead, FinalSave, shared
<1> QED BY <1>1, <1>2, <1>3

LEMMA ElsewhereLease ==
  ASSUME Elsewhere
  PROVE  UNCHANGED lease \/ SweepPop \/ \E t \in Tasks : Expire(t)
BY DEF Elsewhere, LateLands, StrayEnds, Recover, SweepRead, SweepBegin, SweepSave, SweepCheckpoint,
       SweepEnds, SweepFails, Resolve, ResolveRead, ResolveBegin, ResolveSave, ResolveDelete,
       OperatorDies, shared

\* What each step does to the table.
LEMMA LeaseMoves ==
  ASSUME TypeInv, [Next]_vars
  PROVE  \/ UNCHANGED lease
         \/ \E w \in Workers : Claim(w) \/ (pc[w] \in Holding /\ FreeLeaseOf(w))
         \/ \E t \in Tasks : Expire(t)
         \/ SweepPop
         \/ Crash
<1>1. CASE UNCHANGED vars
  BY <1>1 DEF vars, shared
<1> QED BY <1>1, NextCases, RunLease, ElsewhereLease

LEMMA LeaseContractStep ==
  ASSUME TypeInv, [Next]_vars
  PROVE  [LeaseContract!Next]_Holder
<1>0. lease \in [Tasks -> Lease]
  BY DEF TypeInv, SharedOK
<1>1. ASSUME NEW w \in Workers, Claim(w) PROVE [LeaseContract!Next]_Holder
  <2>1. PICK t \in Tasks : CanAcquire(t, OwnerOf[w])
                           /\ lease' = [lease EXCEPT ![t] = Acquired(t, OwnerOf[w])]
    BY <1>1, Zenon DEF Claim, Candidates, Pending
  <2>2. lease'[t] = Acquired(t, OwnerOf[w]) /\ \A u \in Tasks \ {t} : lease'[u] = lease[u]
    BY <1>0, <2>1
  <2>5. lease'[t].live /\ lease'[t].owner = OwnerOf[w]
    BY <2>2 DEF Acquired
  <2>3. CASE lease[t].live
    <3>1. lease'[t].owner = lease[t].owner
      BY <2>1, <2>3, <2>5 DEF CanAcquire
    <3> QED BY <2>2, <2>3, <2>5, <3>1 DEF Holder
  <2>4. CASE ~lease[t].live
    <3>1. Holder[t] = NoOwner
      BY <2>4 DEF Holder
    <3>2. \A u \in Tasks : (IF lease'[u].live THEN lease'[u].owner ELSE NoOwner)
                             = IF u = t THEN OwnerOf[w] ELSE Holder[u]
      BY <2>2, <2>5 DEF Holder
    <3>3. Holder' = [Holder EXCEPT ![t] = OwnerOf[w]]
      BY <3>2 DEF Holder
    <3>4. OwnerOf[w] \in Owners
      BY ConstantAssumption
    <3> QED BY <3>1, <3>3, <3>4 DEF LeaseContract!Next, LeaseContract!Grant, Holder
  <2> QED BY <2>3, <2>4
<1>2. ASSUME NEW w \in Workers, pc[w] \in Holding, FreeLeaseOf(w) PROVE [LeaseContract!Next]_Holder
  <2>1. task[w] \in Tasks
    BY <1>2 DEF TypeInv, RunsOK
  <2>2. lease'[task[w]] = Released(task[w], OwnerOf[w])
        /\ \A u \in Tasks \ {task[w]} : lease'[u] = lease[u]
    BY <1>0, <1>2, <2>1 DEF FreeLeaseOf
  <2>3. CASE lease[task[w]].owner = OwnerOf[w]
    <3>1. PICK u \in Tasks : u = task[w]
      BY <2>1
    <3>2. LeaseContract!Drop({u})
      BY <2>2, <2>3, <3>1 DEF Released, Free, Holder, LeaseContract!Drop
    <3> QED BY <3>2 DEF LeaseContract!Next
  <2>4. CASE lease[task[w]].owner # OwnerOf[w]
    <3>1. \A u \in Tasks : lease'[u] = lease[u]
      BY <2>2, <2>4 DEF Released
    <3> QED BY <3>1 DEF Holder
  <2> QED BY <2>3, <2>4
<1>3. ASSUME NEW t \in Tasks, Expire(t) PROVE [LeaseContract!Next]_Holder
  <2>1. lease' = [lease EXCEPT ![t].live = FALSE]
    BY <1>3 DEF Expire
  <2>2. LeaseContract!Drop({t})
    BY <1>0, <2>1 DEF Lease, Holder, LeaseContract!Drop
  <2> QED BY <2>2 DEF LeaseContract!Next
<1>4. CASE SweepPop
  BY <1>4 DEF SweepPop, Lapsed, Free, Holder
<1>5. CASE Crash
  <2>1. LeaseContract!Drop(Tasks)
    BY <1>5 DEF Crash, Free, Holder, LeaseContract!Drop
  <2> QED BY <2>1 DEF LeaseContract!Next
<1>6. CASE UNCHANGED lease
  BY <1>6 DEF Holder
<1> QED BY <1>1, <1>2, <1>3, <1>4, <1>5, <1>6, LeaseMoves

\* The leases change hands as LeaseService promises, whatever owner ids the runs
\* have, whichever leases lapse and however runs and sweeper interleave.
THEOREM LeaseRefinement == Spec => ImplementsLeaseService
<1>1. Init => LeaseContract!Init
  BY DEF Init, Free, LeaseContract!Init
<1>2. TypeInv /\ [Next]_vars => [LeaseContract!Next]_Holder
  BY LeaseContractStep
<1>3. Spec => []TypeInv
  BY TypingInit, TypingStep, PTL DEF Spec
<1> QED BY <1>1, <1>2, <1>3, PTL DEF Spec, ImplementsLeaseService, LeaseContract!Spec, Holder


-------------------------------------------------------------------------------
(* Termination, but for fairness: a run descends an order without infinite   *)
(* descent.                                                                  *)

\* A step of a run's own: further in the round.
LEMMA StepNearer ==
  ASSUME TypeInv, NEW w \in Workers, NEW p, NEW r, Step(w, p, r),
         Distance(p, r) < Distance(pc[w], result[w])
  PROVE  Nearer(w)
<1>1. pc'[w] = p /\ result'[w] = r /\ left'[w] = left[w]
  BY DEF Step, TypeInv, RunsOK
<1> QED BY <1>1 DEF Nearer

LEMMA LeaveNearer ==
  ASSUME TypeInv, NEW w \in Workers, NEW f, LeaveTask(w, "plan", f),
         pc[w] \in {"delete_checkpoint", "mark_checkpoint"}
  PROVE  Nearer(w)
<1>1. pc'[w] = "plan" /\ left'[w] = left[w]
  BY DEF LeaveTask, TypeInv, RunsOK
<1> QED BY <1>1 DEF Nearer, Distance

LEMMA UnwindDescends ==
  ASSUME TypeInv, NEW w \in Workers, NEW r, Unwind(w, r)
  PROVE  pc'[w] = "idle" \/ Nearer(w)
<1>1. CASE Forget({w})
  BY <1>1 DEF Forget, TypeInv, RunsOK
<1>2. CASE pc[w] \in InTry /\ Step(w, "mark_unknown", r)
  <2>1. Distance("mark_unknown", r) < Distance(pc[w], result[w])
    BY <1>2 DEF InTry, Distance
  <2> QED BY <1>2, <2>1, StepNearer
<1> QED BY <1>1, <1>2 DEF Unwind

LEMMA OwnDescent ==
  ASSUME TypeInv, NEW w \in Workers, pc[w] # "idle", RunStep(w)
  PROVE  pc'[w] = "idle" \/ Nearer(w)
<1>1. ASSUME Forget({w}) PROVE pc'[w] = "idle"
  BY <1>1, ForgetFrame DEF TypeInv
<1>2. CASE Plan(w)
  <2>1. left[w] \in Nat /\ left'[w] = left[w] - 1
    BY <1>2 DEF Plan, TypeInv, RunsOK
  <2> QED BY <2>1 DEF Nearer
<1>3. CASE Drop(w) \/ Create(w)
  <2>1. PICK t \in todo[w] : todo' = [todo EXCEPT ![w] = @ \ {t}]
    BY <1>3 DEF Drop, Create, TypeInv, DraftsOK, DraftAt, Saving
  <2>2. todo'[w] = todo[w] \ {t} /\ UNCHANGED <<left, pc>> /\ pc[w] = "apply"
    BY <1>3, <2>1 DEF Drop, Create, TypeInv, RunsOK
  <2> QED BY <2>2 DEF Nearer
<1>4. CASE Claim(w) \/ NothingToClaim(w)
  <2>1. /\ pc[w] = "apply" /\ pc'[w] \in {"save_running", "final_read"}
        /\ left' = left
    BY <1>4 DEF Claim, NothingToClaim, TypeInv, RunsOK
  <2> QED BY <2>1 DEF Nearer, Distance
<1>5. CASE SaveStarted(w) \/ SaveRunning(w) \/ SaveEvidence(w) \/ MarkUnknown(w)
  <2>1. PICK p, r : Step(w, p, r) /\ Distance(p, r) < Distance(pc[w], result[w])
    BY <1>5 DEF SaveStarted, SaveRunning, SaveEvidence, MarkUnknown, Distance
  <2> QED BY <2>1, StepNearer
<1>6. CASE StartOperation(w)
  <2>1. pc[w] = "save_checkpoint" /\ pc'[w] = "executing" /\ left' = left
    BY <1>6 DEF StartOperation, TypeInv, RunsOK
  <2> QED BY <2>1 DEF Nearer, Distance
<1>7. CASE StepOn(w)
  <2>1. PICK p, r : Step(w, p, r) /\ Distance(p, r) < Distance(pc[w], result[w])
    BY <1>7 DEF StepOn, LoopEnds, ContextFails, OperationEnds, ResumeRun, LoseLease, Distance
  <2> QED BY <2>1, StepNearer
<1>8. CASE Commit(w) \/ FinalRead(w)
  <2>1. PICK p, r : Step(w, p, r) /\ Distance(p, r) < Distance(pc[w], result[w])
    BY <1>8 DEF Commit, FinalRead, Distance
  <2> QED BY <2>1, StepNearer
<1>9. CASE DeleteCheckpoint(w) \/ MarkCheckpoint(w)
  BY <1>1, <1>9, LeaveNearer DEF DeleteCheckpoint, MarkCheckpoint
<1>10. CASE FinalSave(w)
  BY <1>1, <1>10 DEF FinalSave
<1>11. CASE Cancel(w) \/ Fail(w)
  BY <1>11, UnwindDescends DEF Cancel, Fail
<1>12. CASE StartRun(w)
  BY <1>12 DEF StartRun
<1>13. CASE BeginSave(w)
  <2>1. draft[w] = {}
    BY <1>13 DEF BeginSave, Unlocked, Replacing
  <2>2. draft'[w] # {} /\ UNCHANGED locals
    BY <1>13 DEF BeginSave, TypeInv, DraftsOK
  <2> QED BY <2>1, <2>2 DEF Nearer, locals
<1> QED
  BY <1>2, <1>3, <1>4, <1>5, <1>6, <1>7, <1>8, <1>9, <1>10, <1>11, <1>12, <1>13, RunCases
     DEF EndOfSave

\* However many runs, faults, sweeps and decisions of the operator interleave,
\* what changes of a run brings it nearer to its end.
THEOREM NoEndlessRun == Spec => RunsDescend
<1> DEFINE Down == \A w \in Workers :
                pc[w] # "idle" => pc'[w] = "idle" \/ Unmoved(w) \/ Nearer(w)
<1>1. TypeInv /\ [Next]_vars => [Down]_vars
  <2> SUFFICES ASSUME TypeInv, Next, NEW w \in Workers, pc[w] # "idle"
               PROVE  pc'[w] = "idle" \/ Unmoved(w) \/ Nearer(w)
    OBVIOUS
  <2>1. ASSUME NEW v \in Workers, RunStep(v)
        PROVE  pc'[w] = "idle" \/ Unmoved(w) \/ Nearer(w)
    <3>1. v # w => Unmoved(w)
      BY <2>1, OthersStay DEF TypeInv, SameWorker, Unmoved
    <3> QED BY <2>1, <3>1, OwnDescent
  <2>2. CASE Crash
    BY <2>2 DEF Crash, Forget, TypeInv, RunsOK
  <2>3. CASE Elsewhere
    BY <2>3, ElsewhereFrame DEF locals, Unmoved
  <2> QED BY <2>1, <2>2, <2>3, NextCases
<1> QED BY <1>1, TypingInit, TypingStep, PTL DEF Spec, RunsDescend
===============================================================================
