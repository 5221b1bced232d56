-------------------------- MODULE MissionSafetyProofs --------------------------
(***************************************************************************)
(* Safety of MissionService, for every number of workers and tasks, every  *)
(* planner, verifier, operator and fault, as long as runs do not get into  *)
(* each other's way: each worker has an owner id of its own, and either    *)
(* the event loop keeps the leases of running tasks alive, which is what   *)
(* LeaseHeartbeatProofs shows of a timely loop, or there is one run, and   *)
(* then any lease may lapse at any moment.  What the leases exclude they   *)
(* exclude whatever becomes of the files; the rest holds until saves tear  *)
(* them.                                                                   *)
(***************************************************************************)
EXTENDS MissionServiceProofs

OwnOwners == \A v, w \in Workers : OwnerOf[v] = OwnerOf[w] => v = w
OneRun == \A v, w \in Workers : v = w
Exclusive == OwnOwners /\ (Expiry = "any" => OneRun)

(* Leases: where those of running tasks are kept, a worker past its claim   *)
(* holds the live lease of its task.                                        *)

LeasedAt(w) ==
    Expiry # "any" /\ pc[w] \in Holding => lease[task[w]] = Acquired(task[w], OwnerOf[w])

LeaseInv == \A w \in Workers : LeasedAt(w)

\* From the claim to the verdict.
Busy == {"save_running", "save_checkpoint", "executing", "save_evidence", "commit"}

\* How a worker comes to have a task.
LEMMA OwnHolding ==
  ASSUME TypeInv, NEW w \in Workers, RunStep(w), pc'[w] \in Holding
  PROVE  \/ Claim(w)
         \/ /\ pc[w] \in Holding /\ task'[w] = task[w] /\ UNCHANGED lease
            /\ pc'[w] \in Busy => pc[w] \in Busy
<1> USE DEF Holding, InTry, InHandler, Busy
<1>1. CASE \/ SaveStarted(w) \/ StepOn(w) \/ SaveRunning(w) \/ Commit(w) \/ MarkUnknown(w)
           \/ SaveEvidence(w) \/ FinalRead(w)
  <2>1. UNCHANGED lease
    BY <1>1 DEF SaveStarted, StepOn, LoopEnds, OperationEnds, ResumeRun, LoseLease, ContextFails,
                SaveRunning, Commit, MarkUnknown, EndSave, SaveEvidence, FinalRead, shared
  <2>2. PICK p, r : /\ Step(w, p, r) /\ (p \in Holding => pc[w] \in Holding)
                    /\ p \in Busy => pc[w] \in Busy
    BY <1>1 DEF SaveStarted, StepOn, LoopEnds, OperationEnds, ResumeRun, LoseLease, ContextFails,
                SaveRunning, Commit, MarkUnknown, SaveEvidence, FinalRead
  <2>3. pc'[w] = p /\ task' = task
    BY <2>2, StepFrame DEF TypeInv
  <2> QED BY <2>1, <2>2, <2>3
<1>2. CASE StartRun(w) \/ Plan(w) \/ Drop(w) \/ Create(w) \/ NothingToClaim(w)
  <2>1. pc'[w] \notin Holding
    BY <1>2 DEF StartRun, Plan, Drop, Create, NothingToClaim, TypeInv, RunsOK
  <2> QED BY <2>1
<1>3. CASE BeginSave(w)
  BY <1>3 DEF BeginSave, locals, shared
<1>4. CASE StartOperation(w)
  BY <1>4 DEF StartOperation, shared
<1>5. CASE DeleteCheckpoint(w) \/ MarkCheckpoint(w) \/ FinalSave(w)
  <2>1. pc'[w] \in {"idle", "plan"}
    BY <1>5, ForgetFrame, LeaveFrame DEF DeleteCheckpoint, MarkCheckpoint, FinalSave, TypeInv
  <2> QED BY <2>1
<1>6. CASE Cancel(w) \/ Fail(w)
  <2>1. PICK r : Unwind(w, r)
    BY <1>6 DEF Cancel, Fail
  <2>2. ~Forget({w})
    BY ForgetFrame DEF TypeInv
  <2>3. pc[w] \in InTry /\ Step(w, "mark_unknown", r) /\ UNCHANGED lease
    BY <2>1, <2>2 DEF Unwind
  <2> QED BY <2>3, StepFrame DEF TypeInv
<1> QED BY <1>1, <1>2, <1>3, <1>4, <1>5, <1>6, RunCases DEF EndOfSave

LEMMA LeaseStep ==
  ASSUME Exclusive, TypeInv, LeaseInv, [Next]_vars
  PROVE  LeaseInv'
<1> SUFFICES ASSUME Expiry # "any", NEW v \in Workers, (pc[v] \in Holding)'
             PROVE  (lease[task[v]] = Acquired(task[v], OwnerOf[v]))'
  BY DEF LeaseInv, LeasedAt
<1>0. OwnOwners
  BY DEF Exclusive
<1>h. ASSUME pc[v] \in Holding
      PROVE  /\ task[v] \in Tasks /\ lease[task[v]] = Acquired(task[v], OwnerOf[v])
             /\ lease[task[v]].live /\ lease[task[v]].owner = OwnerOf[v]
  <2>1. task[v] \in Tasks /\ lease[task[v]] = Acquired(task[v], OwnerOf[v])
    BY <1>h DEF LeaseInv, LeasedAt, TypeInv, RunsOK
  <2> QED BY <2>1 DEF Acquired
<1>1. ASSUME NEW w \in Workers, RunStep(w)
      PROVE  (lease[task[v]] = Acquired(task[v], OwnerOf[v]))'
  <2>1. CASE v = w
    <3>1. CASE Claim(v)
      <4>1. PICK t \in Candidates : /\ lease' = [lease EXCEPT ![t] = Acquired(t, OwnerOf[v])]
                                    /\ task' = [task EXCEPT ![v] = t]
        BY <3>1 DEF Claim
      <4>2. t \in Tasks /\ task'[v] = t
        BY <4>1 DEF Candidates, Pending, TypeInv, RunsOK
      <4> QED BY <4>1, <4>2 DEF TypeInv, SharedOK, Acquired
    <3>2. CASE pc[v] \in Holding /\ task'[v] = task[v] /\ UNCHANGED lease
      BY <1>h, <3>2 DEF Acquired
    <3> QED BY <1>1, <2>1, <3>1, <3>2, OwnHolding
  <2>2. CASE v # w
    <3>1. SameWorker(v)
      BY <1>1, <2>2, OthersStay DEF TypeInv
    <3>2. pc[v] \in Holding /\ task'[v] = task[v]
      BY <3>1 DEF SameWorker
    <3>3. OwnerOf[v] # OwnerOf[w]
      BY <1>0, <2>2 DEF OwnOwners
    <3>4. lease'[task[v]] = lease[task[v]]
      <4>1. CASE Claim(w)
        <5>1. PICK t \in Candidates : /\ lease' = [lease EXCEPT ![t] = Acquired(t, OwnerOf[w])]
                                      /\ CanAcquire(t, OwnerOf[w])
          BY <4>1 DEF Claim
        <5>2. t # task[v]
          BY <1>h, <3>2, <3>3, <5>1 DEF CanAcquire
        <5> QED BY <1>h, <3>2, <5>1, <5>2 DEF TypeInv, SharedOK
      <4>2. CASE pc[w] \in Holding /\ FreeLeaseOf(w)
        BY <1>h, <3>2, <3>3, <4>2 DEF FreeLeaseOf, Released, TypeInv, SharedOK, RunsOK
      <4> QED BY <1>1, <4>1, <4>2, RunLease
    <3> QED BY <1>h, <3>2, <3>4 DEF Acquired
  <2> QED BY <2>1, <2>2
<1>2. CASE Elsewhere
  <2>1. pc' = pc /\ task' = task
    BY <1>2, ElsewhereFrame DEF locals
  <2>2. lease'[task[v]] = lease[task[v]]
    <3>1. ASSUME NEW t \in Tasks, Expire(t) PROVE lease'[task[v]] = lease[task[v]]
      BY <1>h, <2>1, <3>1 DEF Expire, TypeInv, SharedOK
    <3>2. CASE SweepPop
      BY <1>h, <2>1, <3>2 DEF SweepPop, Lapsed
    <3> QED BY <1>2, <3>1, <3>2, ElsewhereLease
  <2> QED BY <1>h, <2>1, <2>2 DEF Acquired
<1>3. CASE Crash
  BY <1>3 DEF Crash, Forget, Holding, InTry, InHandler
<1>4. CASE UNCHANGED vars
  BY <1>h, <1>4 DEF vars, locals, shared, Acquired
<1> QED BY <1>1, <1>2, <1>3, <1>4, NextCases

LEMMA LeaseInit == Init => LeaseInv
BY DEF Init, LeaseInv, LeasedAt, Holding, InTry, InHandler

LEMMA LeaseAlways ==
  ASSUME Exclusive PROVE Spec => []LeaseInv
<1>1. TypeInv /\ LeaseInv /\ [Next]_vars => LeaseInv'
  BY LeaseStep
<1> QED BY <1>1, LeaseInit, TypingInit, TypingStep, PTL DEF Spec

\* From its claim to the release of its lease, in handlers too, a task is in the
\* hands of one run.
InOneHand ==
    \A v, w \in Workers :
        pc[v] \in Holding /\ pc[w] \in Holding /\ task[v] = task[w] => v = w

LEMMA OneHand ==
  ASSUME Exclusive, LeaseInv PROVE InOneHand
<1> SUFFICES ASSUME NEW v \in Workers, NEW w \in Workers,
                    pc[v] \in Holding, pc[w] \in Holding, task[v] = task[w]
             PROVE  v = w
  BY DEF InOneHand
<1>1. CASE Expiry = "any"
  BY <1>1 DEF Exclusive, OneRun
<1>2. CASE Expiry # "any"
  <2>1. LeasedAt(v) /\ LeasedAt(w)
    BY DEF LeaseInv
  <2>2. OwnerOf[v] = OwnerOf[w]
    BY <1>2, <2>1 DEF LeasedAt, Acquired
  <2> QED BY <2>2 DEF Exclusive, OwnOwners
<1> QED BY <1>1, <1>2

\* No order of claims, beats, handlers, sweeps, crashes and writes of whatever is
\* in the files puts a task into the hands of two runs.
THEOREM OneRunPerTask == Exclusive => (Spec => []InOneHand)
<1> SUFFICES ASSUME Exclusive PROVE Spec => []InOneHand
  OBVIOUS
<1>1. LeaseInv => InOneHand
  BY OneHand
<1> QED BY <1>1, LeaseAlways, PTL

-------------------------------------------------------------------------------
(* Operations nobody awaits: a beat that finds the lease gone leaves one, and *)
(* so does a cancellation.  The leases of running tasks are not lost here, so  *)
(* the cancellation alone remains.                                             *)

Uninterrupted == OwnOwners /\ Expiry # "any" /\ "cancel" \notin Faults

LEMMA NothingStray ==
  ASSUME Uninterrupted, TypeInv, LeaseInv, stray = {}, [Next]_vars
  PROVE  stray' = {}
<1>1. ASSUME NEW w \in Workers, RunStep(w) PROVE stray' = {}
  <2>1. ~LoseLease(w)
    <3>1. SUFFICES ASSUME pc[w] = "executing" PROVE Holds(w)
      BY DEF LoseLease
    <3>2. lease[task[w]] = Acquired(task[w], OwnerOf[w])
      BY <3>1 DEF LeaseInv, LeasedAt, Uninterrupted, Holding, InTry
    <3> QED BY <3>2 DEF Acquired, Holds
  <2>2. ~Cancel(w)
    BY DEF Cancel, Uninterrupted
  <2>3. CASE Fail(w)
    BY <2>3 DEF Fail, Unwind, shared
  <2>4. CASE ~Fail(w)
    BY <1>1, <2>1, <2>2, <2>4, RunCases
       DEF StartRun, SaveStarted, StepOn, LoopEnds, OperationEnds, ResumeRun, ContextFails, Plan,
           BeginSave, Drop, EndOfSave, Create, SaveRunning, Commit, MarkUnknown, EndSave, Claim,
           NothingToClaim, StartOperation, SaveEvidence, DeleteCheckpoint, MarkCheckpoint, FinalRead,
           FinalSave, shared
  <2> QED BY <2>3, <2>4
<1>2. CASE Elsewhere \/ Crash
  BY <1>2 DEF Elsewhere, Expire, LateLands, StrayEnds, SweepPop, Recover, SweepRead, SweepBegin,
      SweepSave, SweepCheckpoint, SweepEnds, SweepFails, Resolve, ResolveRead, ResolveBegin,
      ResolveSave, ResolveDelete, OperatorDies, Crash, shared
<1>3. CASE UNCHANGED vars
  BY <1>3 DEF vars, shared
<1> QED BY <1>1, <1>2, <1>3, NextCases

\* Unless a run is cancelled, the agent never runs twice at the same time on one
\* task: two workers would both hold the task's lease.
THEOREM OneAgentAtATime == Uninterrupted => (Spec => []ExclusiveExecution)
<1> SUFFICES ASSUME Uninterrupted PROVE Spec => []ExclusiveExecution
  OBVIOUS
<1>0. Exclusive
  BY DEF Uninterrupted, Exclusive
<1>1. Init => stray = {}
  BY DEF Init
<1>2. TypeInv /\ LeaseInv /\ stray = {} /\ [Next]_vars => (stray = {})'
  BY NothingStray
<1>3. LeaseInv /\ stray = {} => ExclusiveExecution
  <2> SUFFICES ASSUME LeaseInv, stray = {} PROVE ExclusiveExecution
    OBVIOUS
  <2>1. ASSUME NEW t \in Tasks, NEW w, w \in Operations(t)
        PROVE  w \in Workers /\ OwnerOf[w] = lease[t].owner
    <3>1. w \in Workers /\ task[w] = t /\ pc[w] = "executing"
      BY <2>1 DEF Operations
    <3>2. lease[t] = Acquired(t, OwnerOf[w])
      BY <3>1 DEF LeaseInv, LeasedAt, Uninterrupted, Holding, InTry
    <3> QED BY <3>1, <3>2 DEF Acquired
  <2> QED BY <2>1 DEF ExclusiveExecution, Uninterrupted, OwnOwners
<1>4. Spec => []TypeInv
  BY TypingInit, TypingStep, PTL DEF Spec
<1>5. Spec => [](stray = {})
  BY <1>0, <1>1, <1>2, <1>4, LeaseAlways, PTL DEF Spec
<1> QED BY <1>0, <1>3, <1>5, LeaseAlways, PTL

-------------------------------------------------------------------------------
(* The files.  Until saves tear them, one task save at most is under way, and *)
(* what it has read is still what is in the file: it lands as if it wrote its *)
(* own record only.                                                           *)

TasksClean ==
    /\ \A v, w \in Workers : draft[v] # {} /\ draft[w] # {} => v = w
    /\ (\E w \in Workers : draft[w] # {}) =>
          sweeper.draft = {} /\ operator.draft = {} /\ lateTasks = {}
    /\ sweeper.draft # {} => operator.draft = {} /\ lateTasks = {}
    /\ operator.draft # {} => lateTasks = {}
    /\ \A d, e \in lateTasks : d = e
    /\ \A w \in Workers : \A d \in draft[w] : d.base = stored
    /\ \A d \in sweeper.draft \cup operator.draft \cup lateTasks : d.base = stored

EvidenceClean ==
    /\ \A e, f \in lateEvidence : e = f
    /\ \A e \in lateEvidence : e.base = evidence

Clean == TasksClean /\ EvidenceClean

StoreTask(t, s) ==
    /\ stored' = [stored EXCEPT ![t] = s]
    /\ UNCHANGED <<evidence, mission>>

LEMMA Lands ==
  ASSUME Clean,
         NEW d, \/ \E w \in Workers : d \in draft[w]
                \/ d \in sweeper.draft \cup operator.draft \cup lateTasks,
         Replace(d)
  PROVE  StoreTask(d.task, d.status)
<1>1. d.base = stored
  BY DEF Clean, TasksClean
<1> QED BY <1>1 DEF Replace, Written, StoreTask

LEMMA CleanInit == Init => Clean
BY DEF Init, AtRest, NotCalled, Clean, TasksClean, EvidenceClean

\* Nothing is known to be torn before it is.
LEMMA TornStays ==
  ASSUME [Next]_vars, torn PROVE torn'
<1>1. ASSUME NEW w \in Workers, RunStep(w) PROVE torn'
  <2>1. CASE \/ StartRun(w) \/ SaveStarted(w) \/ StepOn(w) \/ Plan(w) \/ BeginSave(w) \/ Drop(w)
             \/ EndOfSave(w) \/ Claim(w) \/ NothingToClaim(w) \/ StartOperation(w)
    BY <2>1 DEF StartRun, SaveStarted, StoreMission, StepOn, LoopEnds, OperationEnds, ResumeRun,
         LoseLease, ContextFails, Plan, ReadTasks, BeginSave, Drop, EndOfSave, Create, SaveRunning,
         Commit, MarkUnknown, EndSave, Claim, NothingToClaim, StartOperation, history
  <2>2. CASE \/ SaveEvidence(w) \/ DeleteCheckpoint(w) \/ MarkCheckpoint(w) \/ FinalRead(w)
             \/ FinalSave(w) \/ Cancel(w) \/ Fail(w)
    BY <2>2 DEF SaveEvidence, StoreEvidence, DeleteCheckpoint, MarkCheckpoint, FinalRead, ReadTasks,
         FinalSave, StoreMission, Cancel, Detach, Fail, history
  <2> QED BY <1>1, <2>1, <2>2, RunCases
<1>2. CASE Elsewhere
  BY <1>2 DEF Elsewhere, Expire, LateLands, StrayEnds, SweepPop, Recover, SweepRead, ReadTasks,
       SweepBegin, SweepSave, SweepCheckpoint, SweepEnds, SweepFails, Resolve, ResolveRead,
       ResolveBegin, ResolveSave, ResolveDelete, OperatorDies, history
<1>3. CASE Crash \/ UNCHANGED vars
  BY <1>3 DEF Crash, vars, history
<1> QED BY <1>1, <1>2, <1>3, NextCases

\* A step that has no part in saves.
LEMMA CleanQuiet ==
  ASSUME Clean, UNCHANGED <<stored, evidence, draft, lateTasks, lateEvidence>>,
         sweeper'.draft = sweeper.draft, operator'.draft = operator.draft
  PROVE  Clean'
BY DEF Clean, TasksClean, EvidenceClean

LEMMA NoneReplaces ==
  ASSUME Replacing = {}
  PROVE  sweeper.draft = {} /\ \A v \in Workers : draft[v] = {}
<1>1. \A v \in Workers : draft[v] \subseteq Replacing
  BY DEF Replacing
<1>2. sweeper.draft \subseteq Replacing
  BY DEF Replacing
<1> QED BY <1>1, <1>2

\* The save of a worker.
LEMMA CleanSaves ==
  ASSUME TypeInv, Clean, ~torn', NEW w \in Workers,
         BeginSave(w) \/ EndOfSave(w) \/ Cancel(w) \/ Fail(w)
  PROVE  Clean'
<1>d. draft \in [Workers -> SUBSET TaskSaves] /\ \A d, e \in draft[w] : d = e
  BY DEF TypeInv, DraftsOK, DraftAt
<1>1. CASE BeginSave(w)
  <2>1. PICK t \in Tasks, s \in TaskStatuses : draft' = [draft EXCEPT ![w] = {Save(t, s)}]
    BY <1>1 DEF BeginSave
  <2>2. \A v \in Workers : draft'[v] = IF v = w THEN {Save(t, s)} ELSE draft[v]
    BY <1>d, <2>1
  <2>3. /\ \A v \in Workers : draft[v] = {}
        /\ sweeper.draft = {} /\ operator.draft = {} /\ lateTasks = {}
    BY <1>1, NoneReplaces DEF BeginSave, Unlocked
  <2>4. UNCHANGED <<stored, evidence, sweeper, operator, lateTasks, lateEvidence>>
    BY <1>1 DEF BeginSave, stores, late, others
  <2>5. Save(t, s).base = stored
    BY SaveTyping DEF TypeInv
  <2>6. TasksClean'
    BY <2>2, <2>3, <2>4, <2>5 DEF TasksClean
  <2> QED BY <2>4, <2>6 DEF Clean, EvidenceClean
<1>2. CASE EndOfSave(w)
  <2>1. PICK d \in draft[w] : EndSave(w, d)
    BY <1>2 DEF EndOfSave, Create, SaveRunning, Commit, MarkUnknown
  <2>2. /\ \A v \in Workers : draft'[v] = {}
        /\ sweeper.draft = {} /\ operator.draft = {} /\ lateTasks = {}
    BY <1>d, <2>1 DEF EndSave, Clean, TasksClean
  <2>3. UNCHANGED <<evidence, sweeper, operator, lateTasks, lateEvidence>>
    BY <2>1 DEF EndSave, Replace, late, others
  <2> QED BY <2>2, <2>3 DEF Clean, TasksClean, EvidenceClean
<1>3. CASE Cancel(w) \/ Fail(w)
  <2>1. \A v \in Workers : draft'[v] = IF v = w THEN {} ELSE draft[v]
    BY <1>3, <1>d DEF Cancel, Fail, Unwind
  <2>2. UNCHANGED <<stored, evidence, sweeper, operator>>
    BY <1>3 DEF Cancel, Fail, stores, others
  <2>3. CASE UNCHANGED <<lateTasks, lateEvidence>>
    BY <2>1, <2>2, <2>3 DEF Clean, TasksClean, EvidenceClean
  <2>4. CASE draft[w] # {} /\ lateTasks' = lateTasks \cup draft[w] /\ UNCHANGED lateEvidence
    <3>1. /\ \A v \in Workers : draft'[v] = {}
          /\ sweeper.draft = {} /\ operator.draft = {} /\ lateTasks' = draft[w]
      BY <2>1, <2>4 DEF Clean, TasksClean
    <3> QED BY <1>d, <2>2, <2>4, <3>1 DEF Clean, TasksClean, EvidenceClean
  <2>5. CASE /\ lateEvidence' = lateEvidence \cup
                   {[task |-> task[w], attempt |-> attempt[w], base |-> evidence]}
             /\ torn' = (torn \/ lateEvidence # {})
             /\ UNCHANGED lateTasks
    <3>1. lateEvidence' = {[task |-> task[w], attempt |-> attempt[w], base |-> evidence]}
      BY <2>5
    <3>2. EvidenceClean'
      BY <2>2, <3>1 DEF EvidenceClean
    <3>3. TasksClean'
      BY <2>1, <2>2, <2>5 DEF Clean, TasksClean
    <3> QED BY <3>2, <3>3 DEF Clean
  <2> QED BY <1>3, <2>3, <2>4, <2>5 DEF Cancel, Detach, Fail, late
<1> QED BY <1>1, <1>2, <1>3

LEMMA CleanRun ==
  ASSUME TypeInv, Clean, ~torn', NEW w \in Workers, RunStep(w)
  PROVE  Clean'
<1>1. CASE BeginSave(w) \/ EndOfSave(w) \/ Cancel(w) \/ Fail(w)
  BY <1>1, CleanSaves
<1>2. CASE \/ StartRun(w) \/ SaveStarted(w) \/ StepOn(w) \/ Plan(w) \/ Drop(w) \/ Claim(w)
           \/ NothingToClaim(w) \/ StartOperation(w) \/ DeleteCheckpoint(w) \/ MarkCheckpoint(w)
           \/ FinalRead(w) \/ FinalSave(w)
  <2>1. UNCHANGED <<stored, evidence, draft, lateTasks, lateEvidence, sweeper, operator>>
    BY <1>2 DEF StartRun, SaveStarted, StoreMission, StepOn, LoopEnds, OperationEnds, ResumeRun,
         LoseLease, ContextFails, Plan, ReadTasks, Drop, Claim, NothingToClaim, StartOperation,
         DeleteCheckpoint, MarkCheckpoint, FinalRead, FinalSave, stores, late, others
  <2> QED BY <2>1, CleanQuiet
<1>3. CASE SaveEvidence(w)
  <2>1. UNCHANGED <<stored, draft, lateTasks, lateEvidence, sweeper, operator>>
    BY <1>3 DEF SaveEvidence, StoreEvidence, late, others
  <2>2. lateEvidence = {}
    BY <1>3 DEF SaveEvidence, StoreEvidence
  <2> QED BY <2>1, <2>2 DEF Clean, TasksClean, EvidenceClean
<1> QED BY <1>1, <1>2, <1>3, RunCases

LEMMA CleanRest ==
  ASSUME TypeInv, Clean, ~torn', Elsewhere \/ Crash
  PROVE  Clean'
<1> USE DEF TypeInv
<1>o. sweeper.step # "save" => sweeper.draft = {}
  BY DEF SweeperOK
<1>p. operator.step # "save" => operator.draft = {}
  BY DEF OperatorOK
<1>1. CASE (\E t \in Tasks : Expire(t)) \/ StrayEnds \/ SweepPop \/ SweepCheckpoint \/ SweepEnds
           \/ (\E t \in Tasks, retry \in BOOLEAN : ResolveRead(t, retry)) \/ ResolveDelete
  <2>1. UNCHANGED <<stored, evidence, draft, lateTasks, lateEvidence>>
    BY <1>1 DEF Expire, StrayEnds, SweepPop, SweepCheckpoint, SweepEnds, ResolveRead, ResolveDelete,
                stores, late
  <2>2. sweeper'.draft = sweeper.draft
    <3>1. CASE SweepPop \/ SweepEnds
      <4>1. sweeper.step # "save" /\ sweeper'.draft = {}
        <5>1. CASE SweepPop
          BY <5>1 DEF SweepPop, AtRest
        <5>2. CASE SweepEnds
          BY <5>2 DEF SweepEnds, AtRest
        <5> QED BY <3>1, <5>1, <5>2
      <4> QED BY <1>o, <4>1
    <3>2. CASE SweepCheckpoint
      BY <3>2 DEF SweepCheckpoint, SweeperOK
    <3>3. CASE UNCHANGED sweeper
      BY <3>3
    <3> QED BY <1>1, <3>1, <3>2, <3>3 DEF Expire, StrayEnds, ResolveRead, ResolveDelete, others
  <2>3. operator'.draft = operator.draft
    <3>1. CASE (\E t \in Tasks, retry \in BOOLEAN : ResolveRead(t, retry)) \/ ResolveDelete
      <4>1. operator.step # "save" /\ operator'.draft = {}
        <5>1. ASSUME NEW t \in Tasks, NEW retry \in BOOLEAN, ResolveRead(t, retry)
              PROVE  operator.step # "save" /\ operator'.draft = {}
          BY <5>1 DEF ResolveRead, NotCalled
        <5>2. CASE ResolveDelete
          BY <5>2 DEF ResolveDelete, NotCalled
        <5> QED BY <3>1, <5>1, <5>2
      <4> QED BY <1>p, <4>1
    <3>2. CASE UNCHANGED operator
      BY <3>2
    <3> QED BY <1>1, <3>1, <3>2 DEF Expire, StrayEnds, SweepPop, SweepEnds, SweepCheckpoint, others
  <2> QED BY <2>1, <2>2, <2>3, CleanQuiet
<1>2. CASE SweepRead
  <2>1. UNCHANGED <<stored, evidence, draft, lateTasks, lateEvidence, operator>>
    BY <1>2 DEF SweepRead, ReadTasks, stores, late
  <2>2. PICK t \in sweeper.queue :
          sweeper' = IF NeedsRecovery(t)
                     THEN [sweeper EXCEPT !.step = "save", !.queue = @ \ {t}, !.task = t]
                     ELSE [sweeper EXCEPT !.queue = @ \ {t}]
    BY <1>2 DEF SweepRead
  <2>3. sweeper'.draft = sweeper.draft
    <3>1. CASE NeedsRecovery(t)
      BY <2>2, <3>1 DEF SweeperOK
    <3>2. CASE ~NeedsRecovery(t)
      BY <2>2, <3>2 DEF SweeperOK
    <3> QED BY <3>1, <3>2
  <2> QED BY <2>1, <2>3, CleanQuiet
<1>3. CASE SweepBegin
  <2>1. /\ \A v \in Workers : draft[v] = {}
        /\ operator.draft = {} /\ lateTasks = {}
    BY <1>3, NoneReplaces DEF SweepBegin, Unlocked
  <2>2. UNCHANGED <<stored, evidence, draft, operator, lateTasks, lateEvidence>>
    BY <1>3 DEF SweepBegin, stores, late
  <2>3. sweeper'.draft = {Save(sweeper.task, "unknown")} /\ Save(sweeper.task, "unknown").base = stored
    BY <1>3, SaveTyping DEF SweepBegin, SweeperOK, TaskStatuses
  <2> QED BY <2>1, <2>2, <2>3 DEF Clean, TasksClean, EvidenceClean
<1>4. CASE SweepSave
  <2>1. sweeper.draft # {} /\ UNCHANGED <<evidence, draft, operator, lateTasks, lateEvidence>>
    BY <1>4 DEF SweepSave, Replace, late
  <2>2. sweeper'.draft = {}
    BY <1>4 DEF SweepSave, SweeperOK
  <2> QED BY <2>1, <2>2 DEF Clean, TasksClean, EvidenceClean
<1>5. CASE SweepFails
  <2>1. UNCHANGED <<stored, evidence, draft, operator, lateEvidence>> /\ sweeper'.draft = {}
    BY <1>5 DEF SweepFails, AtRest, stores
  <2>2. lateTasks' \in {lateTasks, lateTasks \cup sweeper.draft}
    BY <1>5 DEF SweepFails
  <2>3. CASE sweeper.draft = {}
    <3>1. lateTasks' = lateTasks
      BY <2>2, <2>3
    <3> QED BY <2>1, <2>3, <3>1, CleanQuiet
  <2>4. CASE sweeper.draft # {}
    <3>1. lateTasks' \in {{}, sweeper.draft} /\ operator.draft = {} /\ \A v \in Workers : draft[v] = {}
      BY <2>2, <2>4 DEF Clean, TasksClean
    <3>2. \A d, e \in sweeper.draft : d = e
      BY DEF SweeperOK
    <3> QED BY <2>1, <3>1, <3>2 DEF Clean, TasksClean, EvidenceClean
  <2> QED BY <2>3, <2>4
<1>6. CASE ResolveBegin
  <2>1. /\ \A v \in Workers : draft[v] = {}
        /\ sweeper.draft = {} /\ lateTasks = {}
    BY <1>6, NoneReplaces DEF ResolveBegin
  <2>2. UNCHANGED <<stored, evidence, draft, sweeper, lateTasks, lateEvidence>>
    BY <1>6 DEF ResolveBegin, stores, late
  <2>3. PICK s \in TaskStatuses : operator' = [operator EXCEPT !.draft = {Save(operator.task, s)}]
    BY <1>6 DEF ResolveBegin, TaskStatuses
  <2>4. operator'.draft = {Save(operator.task, s)} /\ Save(operator.task, s).base = stored
    BY <1>6, <2>3, SaveTyping DEF ResolveBegin, OperatorOK
  <2> QED BY <2>1, <2>2, <2>4 DEF Clean, TasksClean, EvidenceClean
<1>7. CASE ResolveSave
  <2>1. operator.draft # {} /\ UNCHANGED <<evidence, draft, sweeper, lateTasks, lateEvidence>>
    BY <1>7 DEF ResolveSave, Replace, late
  <2>2. operator'.draft = {}
    BY <1>7 DEF ResolveSave, OperatorOK
  <2> QED BY <2>1, <2>2 DEF Clean, TasksClean, EvidenceClean
<1>8. CASE OperatorDies
  <2>1. UNCHANGED <<stored, evidence, draft, sweeper, lateTasks, lateEvidence>> /\ operator'.draft = {}
    BY <1>8 DEF OperatorDies, NotCalled, stores, late
  <2> QED BY <2>1 DEF Clean, TasksClean, EvidenceClean
<1>9. CASE Crash
  <2>1. /\ UNCHANGED <<stored, evidence, operator>> /\ sweeper'.draft = {}
        /\ lateTasks' = {} /\ lateEvidence' = {} /\ \A v \in Workers : draft'[v] = {}
    BY <1>9 DEF Crash, AtRest, stores
  <2> QED BY <2>1 DEF Clean, TasksClean, EvidenceClean
<1>10. CASE LateLands
  <2>1. UNCHANGED <<draft, sweeper, operator>>
    BY <1>10 DEF LateLands, others
  <2>2. ASSUME NEW d \in lateTasks, Replace(d), lateTasks' = lateTasks \ {d}, UNCHANGED lateEvidence
        PROVE  Clean'
    <3>1. lateTasks' = {} /\ UNCHANGED evidence
      BY <2>2 DEF Clean, TasksClean, Replace
    <3>2. /\ sweeper.draft = {} /\ operator.draft = {} /\ \A v \in Workers : draft[v] = {}
      BY <2>2 DEF Clean, TasksClean
    <3> QED BY <2>1, <2>2, <3>1, <3>2 DEF Clean, TasksClean, EvidenceClean
  <2>3. ASSUME NEW e \in lateEvidence, lateEvidence' = lateEvidence \ {e},
               UNCHANGED <<stored, lateTasks>>
        PROVE  Clean'
    <3>1. lateEvidence' = {}
      BY <2>3 DEF Clean, EvidenceClean
    <3> QED BY <2>1, <2>3, <3>1 DEF Clean, TasksClean, EvidenceClean
  <2>4. CASE UNCHANGED <<stored, evidence, lateTasks, lateEvidence>>
    BY <2>1, <2>4, CleanQuiet
  <2> QED BY <1>10, <2>2, <2>3, <2>4 DEF LateLands
<1> QED BY <1>1, <1>2, <1>3, <1>4, <1>5, <1>6, <1>7, <1>8, <1>9, <1>10 DEF Elsewhere, Recover, Resolve

-------------------------------------------------------------------------------
(* The invariant, as long as nothing is torn.                                 *)

\* The right to run that a claim rests on is there until the agent starts.
RightAt(w) ==
    LET t == task[w] IN
    /\ pc[w] \in {"save_running", "save_checkpoint"} => started[t] <= approvals[t]
    /\ pc[w] = "save_checkpoint" /\ stored[t] = "pending" => started[t] < approvals[t]

\* The attempt in hand is the task's last, and no verdict precedes its own.
AttemptAt(w) ==
    LET t == task[w] IN
    /\ pc[w] \in Holding => stored[t] # "absent"
    /\ pc[w] \in Busy => stored[t] # "completed"
    /\ pc[w] \in {"executing", "save_evidence", "commit"} => attempt[w] = started[t]
    /\ pc[w] = "commit" => attempt[w] \in evidence[t]

WorkersInv == \A w \in Workers : RightAt(w) /\ AttemptAt(w)

TaskInv(t) ==
    /\ started[t] <= approvals[t] + 1
    /\ stored[t] \in {"absent", "pending"} => started[t] <= approvals[t]
    /\ stored[t] = "completed" => started[t] \in evidence[t]

TasksInv == \A t \in Tasks : TaskInv(t)

\* Proposals are not stored yet and are of one plan; whatever sweeper and
\* operator are about to overwrite is.
TodoInv ==
    /\ \A w \in Workers : \A t \in todo[w] : stored[t] = "absent"
    /\ \A v, w \in Workers : \A t \in todo[v] \cap todo[w] : v = w
OthersInv ==
    /\ sweeper.step = "save" => stored[sweeper.task] # "absent"
    /\ operator.step = "save" => stored[operator.task] # "absent"

\* A save that lands late finds no run in its way: the one that began it is over
\* or in its handler, and others take no task up before they have read the file.
Late(d) ==
    /\ d.status \in {"pending", "running", "completed", "failed", "unknown"}
    /\ d.status = "pending" =>
          stored[d.task] = "absent" /\ \A w \in Workers : d.task \notin todo[w]
    /\ d.status # "pending" => stored[d.task] # "absent"
    /\ d.status = "completed" =>
          /\ started[d.task] \in evidence[d.task]
          /\ \A w \in Workers : pc[w] \in Busy => task[w] # d.task

LateInv == \A d \in lateTasks : Late(d)

SafetyInv == Clean /\ WorkersInv /\ TasksInv /\ TodoInv /\ OthersInv /\ LateInv

-------------------------------------------------------------------------------
(* What a step of a run can touch.                                           *)

Same(t) ==
    /\ stored'[t] = stored[t] /\ evidence'[t] = evidence[t]
    /\ started'[t] = started[t] /\ approvals'[t] = approvals[t]

\* The tasks that a step of w writes to.
Own(w) == IF pc[w] \in Holding THEN {task[w]} ELSE IF pc[w] = "apply" THEN todo[w] ELSE {}

Write(w) ==
    \/ \E t \in Tasks, s \in TaskStatuses : Saving(w, t, s) /\ StoreTask(t, s)
    \/ pc[w] = "save_evidence" /\ StoreEvidence(task[w], attempt[w])

LEMMA SavesOwn ==
  ASSUME TypeInv, Clean, NEW w \in Workers, NEW d \in draft[w], EndSave(w, d)
  PROVE  /\ d.task \in Tasks /\ d.status \in TaskStatuses
         /\ Saving(w, d.task, d.status) /\ StoreTask(d.task, d.status)
<1>1. d \in TaskSaves /\ Saving(w, d.task, d.status)
  BY DEF TypeInv, DraftsOK, DraftAt
<1>2. Replace(d)
  BY DEF EndSave
<1> QED BY <1>1, <1>2, Lands DEF TaskSaves

LEMMA RunWrites ==
  ASSUME TypeInv, Clean, NEW w \in Workers, RunStep(w)
  PROVE  /\ Write(w) \/ UNCHANGED <<stored, evidence>>
         /\ UNCHANGED <<approvals, sweeper, operator>>
         /\ UNCHANGED started \/ StartOperation(w)
         /\ EndOfSave(w) \/ UNCHANGED stored
<1>1. CASE EndOfSave(w)
  <2>1. PICK d \in draft[w] : EndSave(w, d)
    BY <1>1 DEF EndOfSave, Create, SaveRunning, Commit, MarkUnknown
  <2>2. UNCHANGED <<approvals, sweeper, operator, started>>
    BY <2>1 DEF EndSave, others, history, counts
  <2> QED BY <1>1, <2>1, <2>2, SavesOwn DEF Write
<1>2. CASE SaveEvidence(w)
  BY <1>2 DEF SaveEvidence, StoreEvidence, Write, others, counts
<1>3. CASE \/ StartRun(w) \/ SaveStarted(w) \/ StepOn(w) \/ Plan(w) \/ BeginSave(w) \/ Drop(w)
           \/ Claim(w) \/ NothingToClaim(w) \/ StartOperation(w) \/ DeleteCheckpoint(w)
           \/ MarkCheckpoint(w) \/ FinalRead(w) \/ FinalSave(w) \/ Cancel(w) \/ Fail(w)
  BY <1>3 DEF StartRun, SaveStarted, StoreMission, StepOn, LoopEnds, OperationEnds, ResumeRun,
       LoseLease, ContextFails, Plan, ReadTasks, BeginSave, Drop, Claim, NothingToClaim,
       StartOperation, DeleteCheckpoint, MarkCheckpoint, FinalRead, FinalSave, Cancel, Fail,
       stores, others, history, counts
<1> QED BY <1>1, <1>2, <1>3, RunCases

LEMMA WriteFrame ==
  ASSUME TypeInv, NEW w \in Workers, Write(w)
  PROVE  /\ \A t \in Tasks \ Own(w) : stored'[t] = stored[t] /\ evidence'[t] = evidence[t]
         /\ \A t \in Tasks : evidence[t] \subseteq evidence'[t]
<1> USE DEF TypeInv, StoresOK, Own, Holding, InTry, InHandler
<1>1. ASSUME NEW t \in Own(w), NEW s, StoreTask(t, s)
      PROVE  /\ \A u \in Tasks \ Own(w) : stored'[u] = stored[u] /\ evidence'[u] = evidence[u]
             /\ \A u \in Tasks : evidence[u] \subseteq evidence'[u]
  BY <1>1 DEF StoreTask
<1>2. ASSUME NEW t \in Own(w), NEW n, StoreEvidence(t, n)
      PROVE  /\ \A u \in Tasks \ Own(w) : stored'[u] = stored[u] /\ evidence'[u] = evidence[u]
             /\ \A u \in Tasks : evidence[u] \subseteq evidence'[u]
  BY <1>2 DEF StoreEvidence
<1>3. ASSUME NEW t, NEW s, Saving(w, t, s) PROVE t \in Own(w)
  BY <1>3 DEF Saving
<1>4. pc[w] = "save_evidence" => task[w] \in Own(w)
  OBVIOUS
<1> QED BY <1>1, <1>2, <1>3, <1>4 DEF Write

LEMMA RunFrame ==
  ASSUME TypeInv, Clean, NEW w \in Workers, RunStep(w)
  PROVE  \A t \in Tasks \ Own(w) : Same(t)
<1>1. \A t \in Tasks \ Own(w) : stored'[t] = stored[t] /\ evidence'[t] = evidence[t]
  BY RunWrites, WriteFrame
<1>2. \A t \in Tasks \ Own(w) : started'[t] = started[t]
  <2>1. CASE StartOperation(w)
    <3>1. Own(w) = {task[w]} /\ started' = [started EXCEPT ![task[w]] = @ + 1]
      BY <2>1 DEF StartOperation, Own, Holding
    <3> QED BY <3>1 DEF TypeInv, HistoryOK
  <2> QED BY <2>1, RunWrites
<1> QED BY <1>1, <1>2, RunWrites DEF Same

\* The task in another worker's hands is out of reach.
LEMMA OthersSame ==
  ASSUME Exclusive, TypeInv, LeaseInv, SafetyInv, NEW w \in Workers, RunStep(w),
         NEW v \in Workers \ {w}, pc[v] \in Holding
  PROVE  Same(task[v])
<1>1. task[v] \in Tasks /\ stored[task[v]] # "absent"
  BY DEF TypeInv, RunsOK, SafetyInv, WorkersInv, AttemptAt
<1>2. pc[w] \in Holding => task[w] # task[v]
  BY OneHand DEF InOneHand
<1>3. \A u \in todo[w] : stored[u] = "absent"
  BY DEF SafetyInv, TodoInv
<1>4. task[v] \notin Own(w)
  BY <1>1, <1>2, <1>3 DEF Own
<1> QED BY <1>1, <1>4, RunFrame DEF SafetyInv

\* The other workers' part of the invariant does not notice.
LEMMA OthersKeep ==
  ASSUME Exclusive, TypeInv, LeaseInv, SafetyInv, NEW w \in Workers, RunStep(w),
         NEW v \in Workers \ {w}
  PROVE  RightAt(v)' /\ AttemptAt(v)'
<1>1. SameWorker(v)
  BY OthersStay DEF TypeInv
<1>2. CASE pc[v] \in Holding
  <2>1. RightAt(v) /\ AttemptAt(v)
    BY <1>2 DEF SafetyInv, WorkersInv
  <2> QED BY <1>1, <1>2, <2>1, OthersSame DEF SameWorker, Same, RightAt, AttemptAt
<1>3. CASE pc[v] \notin Holding
  BY <1>1, <1>3 DEF SameWorker, RightAt, AttemptAt, Holding, InTry, Busy
<1> QED BY <1>2, <1>3

-------------------------------------------------------------------------------
(* What a step of w does to its own part and to the tasks it writes to.      *)

Mine(w) == RightAt(w) /\ AttemptAt(w) /\ \A t \in todo[w] : stored[t] = "absent"

Kept(w) == Mine(w)' /\ \A t \in Own(w) : TaskInv(t)'

\* A worker without a task keeps its proposals.
LEMMA Emptyhanded ==
  ASSUME NEW w \in Workers, pc'[w] \notin Holding, \A t \in todo'[w] : stored'[t] = "absent"
  PROVE  Mine(w)'
BY DEF Mine, RightAt, AttemptAt, Holding, InTry, Busy

LEMMA OwnClaim ==
  ASSUME TypeInv, SafetyInv, NEW w \in Workers, Claim(w)
  PROVE  Kept(w)
<1>1. PICK t \in Candidates : task' = [task EXCEPT ![w] = t]
  BY DEF Claim
<1>2. t \in Tasks /\ stored[t] = "pending" /\ task'[w] = t
  BY <1>1 DEF Candidates, Pending, TypeInv, RunsOK
<1>3. /\ pc'[w] = "save_running" /\ todo'[w] = {} /\ Own(w) = {}
      /\ UNCHANGED <<stored, evidence, started, approvals>>
  BY DEF Claim, ReadTasks, stores, counts, TypeInv, RunsOK, Own, Holding, InTry, InHandler
<1>5. TaskInv(t)
  BY <1>2 DEF SafetyInv, TasksInv
<1> QED BY <1>2, <1>3, <1>5 DEF Kept, Mine, RightAt, AttemptAt, TaskInv

LEMMA OwnCreate ==
  ASSUME TypeInv, SafetyInv, NEW w \in Workers, Create(w)
  PROVE  Kept(w)
<1>1. PICK d \in draft[w] : EndSave(w, d) /\ todo' = [todo EXCEPT ![w] = @ \ {d.task}]
  BY DEF Create
<1>2. /\ pc[w] = "apply" /\ UNCHANGED <<pc, started, approvals>>
      /\ todo'[w] = todo[w] \ {d.task} /\ Own(w) = todo[w] /\ todo[w] \subseteq Tasks
  BY <1>1 DEF Create, EndSave, history, counts, TypeInv, RunsOK, Own, Holding, InTry, InHandler
<1>3. \A u \in todo[w] : stored[u] = "absent" /\ TaskInv(u)
  BY <1>2 DEF SafetyInv, TodoInv, TasksInv
<1>4. d.status = "pending" /\ StoreTask(d.task, d.status)
  BY <1>1, <1>2, SavesOwn DEF SafetyInv, Saving
<1>5. evidence' = evidence
      /\ \A u \in Tasks : stored'[u] = stored[u] \/ (u = d.task /\ stored'[u] = "pending")
  BY <1>4 DEF StoreTask, TypeInv, StoresOK
<1>6. \A u \in todo[w] : TaskInv(u)'
  BY <1>2, <1>3, <1>5 DEF TaskInv
<1>7. Mine(w)'
  BY <1>2, <1>3, <1>5, Emptyhanded DEF Holding, InTry, InHandler
<1> QED BY <1>2, <1>6, <1>7 DEF Kept

\* In a step that only moves on, nothing is written.
LEMMA OwnQuiet ==
  ASSUME TypeInv, SafetyInv, NEW w \in Workers,
         \/ StartRun(w) \/ SaveStarted(w) \/ StepOn(w) \/ Plan(w) \/ BeginSave(w) \/ Drop(w)
         \/ NothingToClaim(w) \/ DeleteCheckpoint(w) \/ MarkCheckpoint(w) \/ FinalRead(w)
         \/ FinalSave(w) \/ Cancel(w) \/ Fail(w)
  PROVE  Kept(w)
<1>0. RunStep(w)
  BY DEF RunStep, Work, StepOn
<1>1. UNCHANGED <<stored, evidence, started, approvals>>
  BY DEF StartRun, SaveStarted, StepOn, LoopEnds, OperationEnds, ResumeRun, LoseLease, ContextFails,
         Plan, BeginSave, Drop, NothingToClaim, DeleteCheckpoint, MarkCheckpoint, FinalRead, FinalSave,
         Cancel, Fail, ReadTasks, StoreMission, stores, history, counts
<1>2. Own(w) \subseteq Tasks
  BY DEF TypeInv, RunsOK, Own
<1>3. \A t \in Own(w) : TaskInv(t)'
  BY <1>1, <1>2 DEF SafetyInv, TasksInv, TaskInv
<1>t. ASSUME todo'[w] \subseteq todo[w] PROVE \A t \in todo'[w] : stored'[t] = "absent"
  BY <1>1, <1>t DEF SafetyInv, TodoInv
<1>m. ASSUME pc'[w] \in {pc[w], "mark_unknown"} \/ (pc[w] = "executing" /\ pc'[w] = "save_evidence"),
             pc[w] \in Holding, UNCHANGED <<task, todo, attempt>>
      PROVE  Mine(w)'
  BY <1>1, <1>m, <1>t DEF Mine, RightAt, AttemptAt, SafetyInv, WorkersInv, Holding, InTry, InHandler, Busy
<1>4. CASE StartRun(w) \/ Drop(w) \/ NothingToClaim(w)
  <2>1. pc'[w] \notin Holding /\ todo'[w] \subseteq todo[w]
    BY <1>4 DEF StartRun, Drop, NothingToClaim, TypeInv, RunsOK, Holding, InTry, InHandler
  <2> QED BY <1>3, <1>t, <2>1, Emptyhanded DEF Kept
<1>5. CASE Plan(w)
  <2>1. pc'[w] \notin Holding
    BY <1>5 DEF Plan, TypeInv, RunsOK, Holding, InTry, InHandler
  <2>2. todo'[w] \subseteq Tasks \ Stored
    BY <1>5 DEF Plan, Fresh, TypeInv, RunsOK
  <2> QED BY <1>1, <1>3, <2>1, <2>2, Emptyhanded DEF Kept, Stored
<1>6. CASE SaveStarted(w) \/ LoopEnds(w) \/ FinalRead(w)
  <2>1. pc'[w] \notin Holding /\ todo' = todo
    BY <1>6, StepFrame DEF SaveStarted, LoopEnds, FinalRead, Holding, InTry, InHandler, TypeInv
  <2> QED BY <1>3, <1>t, <2>1, Emptyhanded DEF Kept
<1>7. CASE FinalSave(w) \/ DeleteCheckpoint(w) \/ MarkCheckpoint(w)
  <2>1. pc'[w] \in {"idle", "plan"} /\ todo'[w] \in {{}, todo[w]}
    BY <1>7, ForgetFrame, LeaveFrame DEF FinalSave, DeleteCheckpoint, MarkCheckpoint, TypeInv
  <2> QED BY <1>3, <1>t, <2>1, Emptyhanded DEF Kept, Holding, InTry, InHandler
<1>8. CASE OperationEnds(w) \/ ResumeRun(w) \/ LoseLease(w) \/ ContextFails(w)
  <2>1. /\ pc[w] \in {"executing", "save_checkpoint"}
        /\ pc'[w] \in {pc[w], "mark_unknown"} \/ (pc[w] = "executing" /\ pc'[w] = "save_evidence")
        /\ UNCHANGED <<task, todo, attempt>>
    BY <1>8, StepFrame DEF OperationEnds, ResumeRun, LoseLease, ContextFails, TypeInv
  <2> QED BY <1>3, <1>m, <2>1 DEF Kept, Holding, InTry
<1>9. CASE BeginSave(w)
  <2>1. UNCHANGED locals
    BY <1>9 DEF BeginSave
  <2>2. CASE pc[w] \in Holding
    BY <1>3, <1>m, <2>1, <2>2 DEF Kept, locals
  <2>3. CASE pc[w] \notin Holding
    BY <1>3, <1>t, <2>1, <2>3, Emptyhanded DEF Kept, locals
  <2> QED BY <2>2, <2>3
<1>10. CASE Cancel(w) \/ Fail(w)
  <2>1. PICK r : Unwind(w, r)
    BY <1>10 DEF Cancel, Fail
  <2>2. CASE Forget({w})
    <3>1. pc'[w] = "idle" /\ todo'[w] = {}
      BY <2>2, ForgetFrame DEF TypeInv
    <3> QED BY <1>3, <3>1, Emptyhanded DEF Kept, Holding, InTry, InHandler
  <2>3. CASE pc[w] \in InTry /\ Step(w, "mark_unknown", r)
    <3>1. pc'[w] = "mark_unknown" /\ UNCHANGED <<task, todo, attempt>>
      BY <2>3, StepFrame DEF TypeInv
    <3> QED BY <1>3, <1>m, <2>3, <3>1 DEF Kept, Holding
  <2> QED BY <2>1, <2>2, <2>3 DEF Unwind
<1> QED BY <1>4, <1>5, <1>6, <1>7, <1>8, <1>9, <1>10 DEF StepOn

\* What a worker stores of the task it holds.
LEMMA OwnStore ==
  ASSUME TypeInv, SafetyInv, NEW w \in Workers,
         SaveRunning(w) \/ SaveEvidence(w) \/ Commit(w) \/ MarkUnknown(w)
  PROVE  Kept(w)
<1>0. RunStep(w)
  BY DEF RunStep, Work
<1>1. /\ UNCHANGED <<started, approvals>> /\ pc[w] \in Holding /\ Own(w) = {task[w]}
      /\ \E p, r : Step(w, p, r)
  BY DEF SaveRunning, SaveEvidence, Commit, MarkUnknown, EndSave, history, counts,
         Holding, InTry, InHandler, Own
<1>p. PICK t \in Tasks : t = task[w]
  BY <1>1 DEF TypeInv, RunsOK
<1>2. UNCHANGED <<task, todo, attempt>>
  BY <1>1, StepFrame DEF TypeInv
<1>3. TaskInv(t) /\ RightAt(w) /\ AttemptAt(w)
  BY DEF SafetyInv, TasksInv, WorkersInv
<1>4. \A u \in todo'[w] : stored'[u] = "absent"
  <2> SUFFICES ASSUME NEW u \in todo[w] PROVE stored'[u] = "absent"
    BY <1>2
  <2>1. u \in Tasks /\ stored[u] = "absent" /\ u # t
    BY <1>1, <1>p, <1>3 DEF SafetyInv, TodoInv, TypeInv, RunsOK, AttemptAt
  <2>2. Same(u)
    BY <1>0, <1>1, <1>p, <2>1, RunFrame DEF SafetyInv
  <2> QED BY <2>1, <2>2 DEF Same
<1>5. CASE SaveEvidence(w)
  <2>1. /\ pc[w] = "save_evidence" /\ pc'[w] = "commit" /\ attempt[w] \in evidence'[t]
        /\ evidence[t] \subseteq evidence'[t] /\ UNCHANGED stored
    BY <1>p, <1>5, StepFrame DEF SaveEvidence, StoreEvidence, TypeInv, StoresOK
  <2> QED BY <1>1, <1>2, <1>p, <1>3, <1>4, <2>1
         DEF Kept, Mine, RightAt, AttemptAt, TaskInv, Holding, InTry, Busy
<1>6. CASE SaveRunning(w) \/ Commit(w) \/ MarkUnknown(w)
  <2>1. PICK d \in draft[w] : EndSave(w, d)
    BY <1>6 DEF SaveRunning, Commit, MarkUnknown
  <2>2. Saving(w, d.task, d.status) /\ StoreTask(d.task, d.status)
    BY <2>1, SavesOwn DEF SafetyInv
  <2>3. d.task = t /\ evidence' = evidence
    BY <1>p, <1>6, <2>2 DEF Saving, SaveRunning, Commit, MarkUnknown, StoreTask
  <2>4. stored'[t] = d.status
    BY <2>2, <2>3 DEF StoreTask, TypeInv, StoresOK
  <2>5. \/ pc[w] = "save_running" /\ pc'[w] = "save_checkpoint" /\ d.status = "running"
        \/ pc[w] = "commit" /\ pc'[w] = "delete_checkpoint" /\ d.status \in {"completed", "failed"}
        \/ pc[w] = "mark_unknown" /\ pc'[w] = "mark_checkpoint" /\ d.status = "unknown"
    BY <1>6, <2>2, StepFrame DEF Saving, SaveRunning, Commit, MarkUnknown, TypeInv
  <2> QED BY <1>1, <1>2, <1>p, <1>3, <1>4, <2>3, <2>4, <2>5
         DEF Kept, Mine, RightAt, AttemptAt, TaskInv, Busy
<1> QED BY <1>5, <1>6

LEMMA OwnStart ==
  ASSUME TypeInv, SafetyInv, NEW w \in Workers, StartOperation(w)
  PROVE  Kept(w)
<1>p. PICK t \in Tasks : t = task[w]
  BY DEF StartOperation, TypeInv, RunsOK, Holding
<1>1. /\ pc[w] = "save_checkpoint" /\ pc'[w] = "executing"
      /\ UNCHANGED <<stored, evidence, task, todo, approvals>>
      /\ Own(w) = {t}
  BY <1>p DEF StartOperation, stores, TypeInv, RunsOK, Own, Holding
<1>2. started'[t] = started[t] + 1 /\ attempt'[w] = started[t] + 1
  BY <1>p, <1>1 DEF StartOperation, TypeInv, RunsOK, HistoryOK
<1>3. RightAt(w) /\ AttemptAt(w) /\ TaskInv(t)
  BY <1>p, <1>1 DEF SafetyInv, WorkersInv, TasksInv
<1>4. started[t] \in Nat /\ approvals[t] \in Nat
  BY <1>p, <1>1 DEF TypeInv, HistoryOK
<1>5. TaskInv(t)'
  BY <1>p, <1>1, <1>2, <1>3, <1>4 DEF TaskInv, RightAt, AttemptAt, Holding, Busy
<1>6. Mine(w)'
  BY <1>p, <1>1, <1>2, <1>3 DEF Mine, RightAt, AttemptAt, SafetyInv, TodoInv, Holding, Busy
<1> QED BY <1>p, <1>1, <1>5, <1>6 DEF Kept

LEMMA OwnStep ==
  ASSUME TypeInv, SafetyInv, NEW w \in Workers, RunStep(w)
  PROVE  Kept(w)
BY OwnClaim, OwnCreate, OwnQuiet, OwnStore, OwnStart, RunCases DEF EndOfSave

-------------------------------------------------------------------------------
(* The invariant is inductive.                                               *)

\* Proposals are made by Plan only.
LEMMA TodoShrinks ==
  ASSUME TypeInv, NEW w \in Workers, RunStep(w), ~Plan(w)
  PROVE  todo'[w] \subseteq todo[w]
<1>1. CASE \E p, r : Step(w, p, r)
  BY <1>1, StepFrame DEF TypeInv
<1>2. CASE Forget({w}) \/ LeaveTask(w, "plan", failed[w] \/ result[w] = "rejected")
           \/ LeaveTask(w, "plan", TRUE)
  BY <1>2, ForgetFrame, LeaveFrame DEF TypeInv
<1>3. CASE \/ StartRun(w) \/ BeginSave(w) \/ Drop(w) \/ Create(w) \/ Claim(w) \/ NothingToClaim(w)
           \/ StartOperation(w)
  BY <1>3 DEF StartRun, BeginSave, Drop, Create, Claim, NothingToClaim, StartOperation, locals,
              TypeInv, RunsOK
<1>4. CASE Cancel(w) \/ Fail(w)
  BY <1>1, <1>2, <1>4 DEF Cancel, Fail, Unwind
<1> QED
  BY <1>1, <1>2, <1>3, <1>4, RunCases
     DEF SaveStarted, StepOn, LoopEnds, OperationEnds, ResumeRun, LoseLease, ContextFails, EndOfSave,
         SaveRunning, Commit, MarkUnknown, SaveEvidence, DeleteCheckpoint, MarkCheckpoint, FinalRead,
         FinalSave

LEMMA TodoRun ==
  ASSUME TypeInv, SafetyInv, NEW w \in Workers, RunStep(w)
  PROVE  TodoInv'
<1>1. ASSUME NEW v \in Workers \ {w} PROVE todo'[v] = todo[v]
  BY OthersStay DEF TypeInv, SameWorker
<1>2. ASSUME NEW v \in Workers \ {w}, NEW t \in todo[v] PROVE stored'[t] = "absent"
  <2>1. t \in Tasks /\ stored[t] = "absent"
    BY DEF SafetyInv, TodoInv, TypeInv, RunsOK
  <2>2. pc[w] \in Holding => stored[task[w]] # "absent"
    BY DEF SafetyInv, WorkersInv, AttemptAt
  <2>3. t \notin Own(w)
    BY <2>1, <2>2 DEF Own, SafetyInv, TodoInv
  <2> QED BY <2>1, <2>3, RunFrame DEF Same, SafetyInv
<1>3. ASSUME NEW v \in Workers \ {w}, NEW t \in todo'[w] PROVE t \notin todo[v]
  <2>1. CASE Plan(w)
    BY <2>1 DEF Plan, Fresh, TypeInv, RunsOK
  <2>2. CASE ~Plan(w)
    BY <2>2, TodoShrinks DEF SafetyInv, TodoInv
  <2> QED BY <2>1, <2>2
<1>4. \A t \in todo'[w] : stored'[t] = "absent"
  BY OwnStep DEF Kept, Mine
<1>5. \A v \in Workers : \A t \in todo'[v] : stored'[t] = "absent"
  BY <1>1, <1>2, <1>4
<1>6. \A v, u \in Workers : \A t \in todo'[v] \cap todo'[u] : v = u
  BY <1>1, <1>3 DEF SafetyInv, TodoInv
<1> QED BY <1>5, <1>6 DEF TodoInv

LEMMA OthersRun ==
  ASSUME TypeInv, SafetyInv, NEW w \in Workers, RunStep(w)
  PROVE  OthersInv'
<1>1. ASSUME NEW t \in Tasks, stored[t] # "absent" PROVE stored'[t] # "absent"
  <2>1. CASE t \notin Own(w)
    BY <1>1, <2>1, RunFrame DEF Same, SafetyInv
  <2>2. CASE UNCHANGED stored
    BY <1>1, <2>2
  <2>3. CASE EndOfSave(w)
    <3>1. PICK d \in draft[w] : EndSave(w, d)
      BY <2>3 DEF EndOfSave, Create, SaveRunning, Commit, MarkUnknown
    <3>2. Saving(w, d.task, d.status) /\ StoreTask(d.task, d.status)
      BY <3>1, SavesOwn DEF SafetyInv
    <3> QED BY <1>1, <3>2 DEF Saving, StoreTask, TypeInv, StoresOK
  <2> QED BY <2>1, <2>2, <2>3, RunWrites DEF SafetyInv
<1> QED BY <1>1, RunWrites DEF SafetyInv, OthersInv, TypeInv, SweeperOK, OperatorOK

\* The only writes that a run leaves behind are those of the save it is cancelled
\* in.
LEMMA RunLate ==
  ASSUME NEW w \in Workers, RunStep(w)
  PROVE  \/ Cancel(w) /\ draft[w] # {} /\ lateTasks' = lateTasks \cup draft[w]
         \/ lateTasks' = lateTasks
BY RunCases
   DEF StartRun, SaveStarted, StepOn, LoopEnds, OperationEnds, ResumeRun, LoseLease, ContextFails,
         Plan, ReadTasks, BeginSave, Drop, EndOfSave, Create, SaveRunning, Commit, MarkUnknown, EndSave,
         Claim, NothingToClaim, StartOperation, SaveEvidence, DeleteCheckpoint, MarkCheckpoint,
         FinalRead, FinalSave, Cancel, Detach, Fail, late

\* Late writes: a cancelled run leaves one, and no run goes on in front of it.
LEMMA LateRun ==
  ASSUME Exclusive, TypeInv, LeaseInv, SafetyInv, ~torn', NEW w \in Workers, RunStep(w)
  PROVE  LateInv'
<1>0. \A v \in Workers \ {w} : SameWorker(v)
  BY OthersStay DEF TypeInv
<1>1. CASE Cancel(w) /\ draft[w] # {} /\ lateTasks' = lateTasks \cup draft[w]
  <2> SUFFICES ASSUME NEW d \in draft[w] PROVE Late(d)'
    <3>1. lateTasks' = draft[w]
      BY <1>1 DEF SafetyInv, Clean, TasksClean
    <3> QED BY <3>1 DEF LateInv
  <2>1. d.task \in Tasks /\ Saving(w, d.task, d.status)
    BY DEF TypeInv, DraftsOK, DraftAt, TaskSaves
  <2>2. UNCHANGED <<stored, evidence, started>>
    BY <1>1 DEF Cancel, stores
  <2>3. PICK r : Unwind(w, r)
    BY <1>1 DEF Cancel
  <2>4. CASE pc[w] = "apply"
    <3>1. pc'[w] = "idle" /\ todo'[w] = {}
      BY <2>3, <2>4, ForgetFrame DEF Unwind, InTry, InHandler, TypeInv
    <3>2. d.status = "pending" /\ d.task \in todo[w]
      BY <2>1, <2>4 DEF Saving
    <3>3. stored[d.task] = "absent" /\ \A v \in Workers \ {w} : d.task \notin todo[v]
      BY <3>2 DEF SafetyInv, TodoInv
    <3>4. \A v \in Workers : d.task \notin todo'[v]
      BY <1>0, <3>1, <3>3 DEF SameWorker
    <3> QED BY <2>2, <3>2, <3>3, <3>4 DEF Late
  <2>5. CASE pc[w] # "apply"
    <3>1. pc[w] \in Holding /\ task[w] = d.task /\ d.status \in {"running", "completed", "failed", "unknown"}
      BY <2>1, <2>5 DEF Saving, Holding, InTry, InHandler
    <3>2. stored[d.task] # "absent"
      BY <3>1 DEF SafetyInv, WorkersInv, AttemptAt
    <3>3. ASSUME d.status = "completed"
          PROVE  /\ started[d.task] \in evidence[d.task]
                 /\ \A v \in Workers : pc'[v] \in Busy => task'[v] # d.task
      <4>1. pc[w] = "commit"
        BY <2>1, <3>3 DEF Saving
      <4>2. started[d.task] \in evidence[d.task]
        BY <3>1, <4>1 DEF SafetyInv, WorkersInv, AttemptAt
      <4>3. pc'[w] \notin Busy
        BY <2>3, <4>1, ForgetFrame, StepFrame DEF Unwind, Outside, InHandler, Busy, TypeInv
      <4>4. ASSUME NEW v \in Workers \ {w}, pc'[v] \in Busy PROVE task'[v] # d.task
        <5>1. pc[v] \in Holding /\ task'[v] = task[v]
          BY <1>0, <4>4 DEF SameWorker, Holding, InTry, Busy
        <5> QED BY <3>1, <5>1, OneHand DEF InOneHand
      <4> QED BY <4>2, <4>3, <4>4
    <3> QED BY <2>2, <3>1, <3>2, <3>3 DEF Late
  <2> QED BY <2>4, <2>5
<1>2. CASE lateTasks' = lateTasks
  <2> SUFFICES ASSUME NEW d \in lateTasks PROVE Late(d)'
    BY <1>2 DEF LateInv
  <2>1. Late(d) /\ d.task \in Tasks
    BY DEF SafetyInv, LateInv, TypeInv, LateOK, TaskSaves
  <2>2. draft[w] = {}
    BY DEF SafetyInv, Clean, TasksClean
  <2>3. UNCHANGED stored
    <3>1. ~EndOfSave(w)
      BY <2>2 DEF EndOfSave, Create, SaveRunning, Commit, MarkUnknown
    <3> QED BY <3>1, RunWrites DEF SafetyInv
  <2>4. ~Plan(w) /\ ~Claim(w)
    BY DEF Plan, Claim, ReadTasks
  <2>5. \A v \in Workers : d.task \notin todo[v] => d.task \notin todo'[v]
    BY <1>0, <2>4, TodoShrinks DEF SameWorker
  <2>6. ASSUME d.status = "completed"
        PROVE  /\ started'[d.task] \in evidence'[d.task]
               /\ \A v \in Workers : pc'[v] \in Busy => task'[v] # d.task
    <3>1. \A v \in Workers : pc[v] \in Busy => task[v] # d.task
      BY <2>1, <2>6 DEF Late
    <3>2. started'[d.task] = started[d.task]
      <4>1. ASSUME StartOperation(w) PROVE started'[d.task] = started[d.task]
        <5>1. task[w] # d.task /\ started' = [started EXCEPT ![task[w]] = @ + 1]
          BY <3>1, <4>1 DEF StartOperation, Busy
        <5> QED BY <2>1, <5>1 DEF TypeInv, HistoryOK
      <4> QED BY <4>1, RunWrites DEF SafetyInv
    <3>3. evidence[d.task] \subseteq evidence'[d.task]
      BY <2>1, RunWrites, WriteFrame DEF SafetyInv
    <3>4. started[d.task] \in evidence[d.task]
      BY <2>1, <2>6 DEF Late
    <3>5. pc'[w] \in Busy => task'[w] # d.task
      <4>1. pc'[w] \in Busy => pc'[w] \in Holding
        BY DEF Busy, Holding, InTry
      <4> QED BY <2>4, <3>1, <4>1, OwnHolding
    <3> QED BY <1>0, <3>1, <3>2, <3>3, <3>4, <3>5 DEF SameWorker
  <2> QED BY <2>1, <2>3, <2>5, <2>6 DEF Late
<1> QED BY <1>1, <1>2, RunLate

LEMMA SafetyRun ==
  ASSUME Exclusive, TypeInv, LeaseInv, SafetyInv, ~torn', NEW w \in Workers, RunStep(w)
  PROVE  SafetyInv'
<1>1. Kept(w)
  BY OwnStep
<1>2. WorkersInv'
  BY <1>1, OthersKeep DEF Kept, Mine, WorkersInv
<1>3. TasksInv'
  <2> SUFFICES ASSUME NEW t \in Tasks PROVE TaskInv(t)'
    BY DEF TasksInv
  <2>1. CASE t \in Own(w)
    BY <1>1, <2>1 DEF Kept
  <2>2. CASE t \notin Own(w)
    <3>1. Same(t)
      BY <2>2, RunFrame DEF SafetyInv
    <3> QED BY <3>1 DEF SafetyInv, TasksInv, TaskInv, Same
  <2> QED BY <2>1, <2>2
<1>4. Clean'
  BY CleanRun DEF SafetyInv
<1> QED BY <1>2, <1>3, <1>4, TodoRun, OthersRun, LateRun DEF SafetyInv

\* What steps without a run may do to a task, saves that land late included.
Harmless(t) ==
    \/ stored'[t] = stored[t]
    \/ stored[t] # "absent" /\ stored'[t] \in {"running", "unknown", "failed"}
    \/ stored[t] # "absent" /\ stored'[t] = "pending" /\ approvals'[t] = approvals[t] + 1
    \/ /\ stored[t] = "absent" /\ stored'[t] = "pending"
       /\ \A w \in Workers : t \notin todo[w]
    \/ /\ stored[t] # "absent" /\ stored'[t] = "completed"
       /\ started[t] \in evidence[t]
       /\ \A w \in Workers : pc[w] \in Busy => task[w] # t

LEMMA HarmlessKeeps ==
  ASSUME TypeInv, SafetyInv, UNCHANGED <<locals, started>>,
         \A t \in Tasks : evidence[t] \subseteq evidence'[t],
         \A t \in Tasks : approvals'[t] \in Nat /\ approvals[t] <= approvals'[t],
         \A t \in Tasks : Harmless(t)
  PROVE  WorkersInv' /\ TasksInv' /\ TodoInv'
<1> USE DEF locals
<1>1. ASSUME NEW w \in Workers PROVE RightAt(w)' /\ AttemptAt(w)'
  <2>1. CASE pc[w] \in Holding
    <3>1. PICK t \in Tasks : t = task[w]
      BY <2>1 DEF TypeInv, RunsOK
    <3>2. RightAt(w) /\ AttemptAt(w) /\ Harmless(t)
      BY DEF SafetyInv, WorkersInv
    <3>3. started[t] \in Nat /\ approvals[t] \in Nat
      BY DEF TypeInv, HistoryOK
    <3> QED BY <2>1, <3>1, <3>2, <3>3 DEF RightAt, AttemptAt, Harmless, Busy
  <2>2. CASE pc[w] \notin Holding
    BY <2>2 DEF RightAt, AttemptAt, Holding, InTry, Busy
  <2> QED BY <2>1, <2>2
<1>2. ASSUME NEW t \in Tasks PROVE TaskInv(t)'
  <2>1. started[t] \in Nat /\ approvals[t] \in Nat /\ TaskInv(t) /\ Harmless(t)
    BY DEF TypeInv, HistoryOK, SafetyInv, TasksInv
  <2> QED BY <2>1 DEF TaskInv, Harmless
<1>3. TodoInv'
  <2>1. ASSUME NEW w \in Workers, NEW t \in todo[w] PROVE stored'[t] = "absent"
    <3>1. t \in Tasks /\ stored[t] = "absent"
      BY DEF SafetyInv, TodoInv, TypeInv, RunsOK
    <3> QED BY <3>1 DEF Harmless
  <2> QED BY <2>1 DEF SafetyInv, TodoInv
<1> QED BY <1>1, <1>2, <1>3 DEF WorkersInv, TasksInv

LEMMA OthersStored ==
  ASSUME TypeInv, SafetyInv, \A t \in Tasks : Harmless(t),
         sweeper'.step = "save" => stored[sweeper'.task] # "absent" /\ sweeper'.task \in Tasks,
         operator'.step = "save" => stored[operator'.task] # "absent" /\ operator'.task \in Tasks
  PROVE  OthersInv'
BY DEF OthersInv, Harmless

LEMMA LateStays ==
  ASSUME TypeInv, SafetyInv, UNCHANGED <<locals, started, stored>>,
         \A t \in Tasks : evidence[t] \subseteq evidence'[t],
         NEW d \in TaskSaves, Late(d)
  PROVE  Late(d)'
BY DEF Late, locals, TaskSaves

\* The evidence file in a step without a run.
LEMMA EvidenceRest ==
  ASSUME TypeInv, Clean, Elsewhere
  PROVE  /\ \A t \in Tasks : evidence[t] \subseteq evidence'[t]
         /\ UNCHANGED evidence \/ UNCHANGED <<stored, lateTasks>>
<1>1. CASE LateLands
  <2>1. ASSUME NEW e \in lateEvidence, UNCHANGED <<stored, lateTasks>>,
               evidence' = [e.base EXCEPT ![e.task] = @ \cup {e.attempt}]
        PROVE  \A t \in Tasks : evidence[t] \subseteq evidence'[t]
    BY <2>1 DEF Clean, EvidenceClean, TypeInv, StoresOK
  <2>2. ASSUME NEW e \in lateEvidence,
               evidence' = [e.base EXCEPT ![e.task] = @ \cup {e.attempt}],
               UNCHANGED <<stored, mission, lateTasks, lateMission>>
        PROVE  UNCHANGED <<stored, lateTasks>> /\ \A t \in Tasks : evidence[t] \subseteq evidence'[t]
    BY SMTT(60), <2>1, <2>2
  <2> QED BY <1>1, <2>2 DEF LateLands, Replace
<1>2. CASE ~LateLands
  BY <1>2 DEF Elsewhere, Expire, StrayEnds, SweepPop, Recover, SweepRead, ReadTasks, SweepBegin,
       SweepSave, Replace, SweepCheckpoint, SweepEnds, SweepFails, Resolve, ResolveRead, ResolveBegin,
       ResolveSave, ResolveDelete, OperatorDies, stores
<1> QED BY <1>1, <1>2

\* Steps that only move the sweeper or the operator on, or touch leases or
\* evidence only.
LEMMA SafetyQuiet ==
  ASSUME TypeInv, SafetyInv, ~torn', Elsewhere, UNCHANGED <<stored, approvals>>
  PROVE  SafetyInv'
<1>0. UNCHANGED <<locals, started>> /\ \A t \in Tasks : Harmless(t)
  BY ElsewhereFrame DEF Harmless
<1>a. \A t \in Tasks : approvals[t] \in Nat
  BY DEF TypeInv, HistoryOK
<1>e. \A t \in Tasks : evidence[t] \subseteq evidence'[t]
  BY EvidenceRest DEF SafetyInv
<1>1. WorkersInv' /\ TasksInv' /\ TodoInv'
  BY <1>0, <1>a, <1>e, HarmlessKeeps
<1>2. OthersInv'
  <2>1. sweeper'.step = "save" => stored[sweeper'.task] # "absent" /\ sweeper'.task \in Tasks
    <3>1. CASE UNCHANGED sweeper
      BY <3>1 DEF SafetyInv, OthersInv, TypeInv, SweeperOK
    <3>2. CASE SweepRead
      <4>1. PICK t \in sweeper.queue :
              sweeper' = IF NeedsRecovery(t)
                         THEN [sweeper EXCEPT !.step = "save", !.queue = @ \ {t}, !.task = t]
                         ELSE [sweeper EXCEPT !.queue = @ \ {t}]
        BY <3>2 DEF SweepRead
      <4>2. sweeper.step = "read"
        BY <3>2 DEF SweepRead
      <4>3. CASE NeedsRecovery(t)
        BY <4>1, <4>3 DEF NeedsRecovery, TypeInv, SweeperOK
      <4>4. CASE ~NeedsRecovery(t)
        BY <4>1, <4>2, <4>4 DEF TypeInv, SweeperOK
      <4> QED BY <4>3, <4>4
    <3>3. CASE SweepBegin
      <4>1. sweeper'.task = sweeper.task /\ sweeper.step = "save"
        BY <3>3 DEF SweepBegin, TypeInv, SweeperOK
      <4> QED BY <4>1 DEF SafetyInv, OthersInv, TypeInv, SweeperOK
    <3>4. CASE SweepPop
      BY <3>4 DEF SweepPop, AtRest
    <3>5. CASE SweepEnds \/ SweepFails
      BY <3>5 DEF SweepEnds, SweepFails, AtRest
    <3>6. CASE SweepSave \/ SweepCheckpoint
      <4>1. sweeper'.step \in {"checkpoint", "read"}
        BY <3>6 DEF SweepSave, SweepCheckpoint, TypeInv, SweeperOK
      <4> QED BY <4>1
    <3> QED BY <3>1, <3>2, <3>3, <3>4, <3>5, <3>6
            DEF Elsewhere, Recover, Resolve, Expire, LateLands, StrayEnds, ResolveRead, ResolveBegin,
                ResolveSave, ResolveDelete, OperatorDies, others
  <2>2. operator'.step = "save" => stored[operator'.task] # "absent" /\ operator'.task \in Tasks
    <3>1. CASE UNCHANGED operator
      BY <3>1 DEF SafetyInv, OthersInv, TypeInv, OperatorOK
    <3>2. ASSUME NEW t \in Tasks, NEW retry \in BOOLEAN, ResolveRead(t, retry)
          PROVE  stored[operator'.task] # "absent" /\ operator'.task \in Tasks
      BY <3>2 DEF ResolveRead, MayResolve, NotCalled
    <3>3. CASE ResolveBegin
      <4>1. operator'.task = operator.task /\ operator.step = "save"
        BY <3>3 DEF ResolveBegin, TypeInv, OperatorOK
      <4> QED BY <4>1 DEF SafetyInv, OthersInv, TypeInv, OperatorOK
    <3>4. CASE ResolveSave \/ ResolveDelete \/ OperatorDies
      <4>1. operator'.step \in {"delete", "idle"}
        <5>1. CASE ResolveSave
          BY <5>1 DEF ResolveSave, TypeInv, OperatorOK
        <5>2. CASE ResolveDelete \/ OperatorDies
          BY <5>2 DEF ResolveDelete, OperatorDies, NotCalled
        <5> QED BY <3>4, <5>1, <5>2
      <4> QED BY <4>1
    <3> QED BY <3>1, <3>2, <3>3, <3>4
            DEF Elsewhere, Recover, Resolve, Expire, LateLands, StrayEnds, SweepPop, SweepRead,
                SweepBegin, SweepSave, SweepCheckpoint, SweepEnds, SweepFails, others
  <2> QED BY SMTT(60), <1>0, <2>1, <2>2, OthersStored
<1>3. LateInv'
  <2> SUFFICES ASSUME NEW d \in lateTasks' PROVE Late(d)
    <3>1. lateTasks' \subseteq TaskSaves
      BY TypingRest DEF TypeInv, LateOK
    <3> QED BY <1>0, <1>e, <3>1, LateStays DEF LateInv
  <2>1. CASE d \in lateTasks
    BY <2>1 DEF SafetyInv, LateInv
  <2>2. CASE d \in sweeper.draft
    BY SMTT(60), <2>2 DEF TypeInv, SweeperOK, SafetyInv, OthersInv, Late
  <2>3. lateTasks' \subseteq lateTasks \cup sweeper.draft
    BY DEF Elsewhere, Expire, LateLands, StrayEnds, SweepPop, Recover, SweepRead, ReadTasks, SweepBegin,
       SweepSave, SweepCheckpoint, SweepEnds, SweepFails, Resolve, ResolveRead, ResolveBegin,
       ResolveSave, ResolveDelete, OperatorDies, late
  <2> QED BY <2>1, <2>2, <2>3
<1> QED BY <1>1, <1>2, <1>3, CleanRest DEF SafetyInv

\* A save that lands: of the sweeper, of the operator, or late.
LEMMA SafetyLanding ==
  ASSUME TypeInv, SafetyInv, ~torn',
         NEW d \in sweeper.draft \cup operator.draft \cup lateTasks, Replace(d),
         UNCHANGED <<locals, started>>,
         \A t \in Tasks : approvals'[t] \in Nat /\ approvals[t] <= approvals'[t],
         Late(d) \/ /\ stored[d.task] # "absent"
                    /\ d.status = "pending" /\ approvals'[d.task] = approvals[d.task] + 1,
         sweeper'.step = "save" => sweeper' = sweeper,
         operator'.step = "save" => operator' = operator,
         lateTasks' = {}, Clean'
  PROVE  SafetyInv'
<1>1. StoreTask(d.task, d.status) /\ d.task \in Tasks /\ d.status \in TaskStatuses
  BY Lands DEF SafetyInv, TypeInv, SweeperOK, OperatorOK, LateOK, TaskSaves
<1>2. UNCHANGED evidence
      /\ \A t \in Tasks : stored'[t] = IF t = d.task THEN d.status ELSE stored[t]
  BY <1>1 DEF StoreTask, TypeInv, StoresOK
<1>3. \A t \in Tasks : Harmless(t)
  BY <1>2 DEF Harmless, Late
<1>4. WorkersInv' /\ TasksInv' /\ TodoInv'
  BY <1>2, <1>3, HarmlessKeeps
<1>5. OthersInv'
  BY <1>3, OthersStored DEF SafetyInv, OthersInv, TypeInv, SweeperOK, OperatorOK
<1>6. LateInv'
  BY DEF LateInv
<1> QED BY <1>4, <1>5, <1>6 DEF SafetyInv

LEMMA SafetyRest ==
  ASSUME TypeInv, SafetyInv, ~torn', Elsewhere
  PROVE  SafetyInv'
<1>c. Clean'
  BY CleanRest DEF SafetyInv
<1>a. \A t \in Tasks : approvals[t] \in Nat
  BY DEF TypeInv, HistoryOK
<1>f. UNCHANGED <<locals, started>>
  BY ElsewhereFrame
<1>1. CASE SweepSave
  <2>1. PICK d \in sweeper.draft : Replace(d)
    BY <1>1 DEF SweepSave
  <2>2. sweeper'.step = "checkpoint" /\ UNCHANGED <<operator, lateTasks, approvals>>
    BY <1>1 DEF SweepSave, TypeInv, SweeperOK, late, history, counts
  <2>3. lateTasks' = {}
    BY <2>2 DEF SafetyInv, Clean, TasksClean
  <2>4. Late(d)
    BY DEF SafetyInv, OthersInv, TypeInv, SweeperOK, Late
  <2> QED BY <1>a, <1>c, <1>f, <2>1, <2>2, <2>3, <2>4, SafetyLanding
<1>2. CASE ResolveSave
  <2>1. PICK d \in operator.draft : Replace(d)
    BY <1>2 DEF ResolveSave
  <2>2. operator'.step = "delete" /\ UNCHANGED <<sweeper, lateTasks>>
    BY <1>2 DEF ResolveSave, TypeInv, OperatorOK, late
  <2>3. lateTasks' = {}
    BY <2>2 DEF SafetyInv, Clean, TasksClean
  <2>4. /\ d.task = operator.task /\ operator.task \in Tasks /\ stored[d.task] # "absent"
        /\ d.status = IF operator.retry THEN "pending" ELSE "failed"
    BY DEF SafetyInv, OthersInv, TypeInv, OperatorOK
  <2>5. approvals' = IF operator.retry
                     THEN [approvals EXCEPT ![operator.task] = @ + 1] ELSE approvals
    BY <1>2 DEF ResolveSave
  <2>6. /\ \A t \in Tasks : approvals'[t] \in Nat /\ approvals[t] <= approvals'[t]
        /\ operator.retry => approvals'[d.task] = approvals[d.task] + 1
    BY <1>a, <2>4, <2>5 DEF TypeInv, HistoryOK
  <2>7. Late(d) \/ (d.status = "pending" /\ approvals'[d.task] = approvals[d.task] + 1)
    <3>1. CASE operator.retry
      BY <2>4, <2>6, <3>1
    <3>2. CASE ~operator.retry
      BY <2>4, <3>2 DEF Late
    <3> QED BY <3>1, <3>2
  <2> QED BY <1>c, <1>f, <2>1, <2>2, <2>3, <2>4, <2>6, <2>7, SafetyLanding
<1>3. CASE LateLands /\ stored' # stored
  <2>1. PICK d \in lateTasks : Replace(d) /\ lateTasks' = lateTasks \ {d}
    BY <1>3 DEF LateLands
  <2>2. lateTasks' = {} /\ UNCHANGED <<sweeper, operator, approvals>>
    BY <1>3, <2>1 DEF LateLands, others, history, counts, SafetyInv, Clean, TasksClean
  <2>3. Late(d)
    BY DEF SafetyInv, LateInv
  <2> QED BY <1>a, <1>c, <1>f, <2>1, <2>2, <2>3, SafetyLanding
<1>4. CASE UNCHANGED <<stored, approvals>>
  BY SMTT(60), <1>4, SafetyQuiet
<1>5. SweepSave \/ ResolveSave \/ (LateLands /\ stored' # stored) \/ UNCHANGED <<stored, approvals>>
  BY DEF Elsewhere, Expire, LateLands, StrayEnds, SweepPop, Recover, SweepRead, ReadTasks, SweepBegin,
       SweepCheckpoint, SweepEnds, SweepFails, Resolve, ResolveRead, ResolveBegin,
       ResolveDelete, OperatorDies, stores, history, counts
<1> QED BY <1>1, <1>2, <1>3, <1>4, <1>5

LEMMA SafetyCrash ==
  ASSUME TypeInv, SafetyInv, ~torn', Crash
  PROVE  SafetyInv'
<1>1. /\ UNCHANGED <<stored, evidence, started, approvals, operator>> /\ sweeper'.step = "idle"
      /\ lateTasks' = {} /\ \A w \in Workers : pc'[w] = "idle" /\ todo'[w] = {}
  BY DEF Crash, Forget, AtRest, stores
<1>2. WorkersInv' /\ TodoInv' /\ LateInv'
  BY <1>1 DEF WorkersInv, RightAt, AttemptAt, TodoInv, LateInv, Holding, InTry, InHandler, Busy
<1>3. TasksInv' /\ OthersInv'
  BY <1>1 DEF SafetyInv, TasksInv, TaskInv, OthersInv
<1> QED BY <1>2, <1>3, CleanRest DEF SafetyInv

LEMMA SafetyInit == Init => SafetyInv
<1> SUFFICES ASSUME Init PROVE SafetyInv
  OBVIOUS
<1>0. Clean
  BY CleanInit
<1> USE DEF Init
<1>1. WorkersInv /\ LateInv
  BY DEF WorkersInv, RightAt, AttemptAt, LateInv, Holding, InTry, InHandler, Busy
<1>2. TasksInv
  BY DEF TasksInv, TaskInv
<1>3. TodoInv /\ OthersInv
  BY DEF TodoInv, OthersInv, AtRest, NotCalled
<1> QED BY <1>0, <1>1, <1>2, <1>3 DEF SafetyInv

LEMMA SafetyStep ==
  ASSUME Exclusive, TypeInv, LeaseInv, ~torn => SafetyInv, ~torn', [Next]_vars
  PROVE  SafetyInv'
<1>0. SafetyInv
  BY TornStays
<1>1. CASE UNCHANGED vars
  BY <1>0, <1>1
     DEF vars, stores, locals, late, shared, others, history, counts, SafetyInv, Clean, TasksClean,
         EvidenceClean, WorkersInv, RightAt, AttemptAt, TasksInv, TaskInv, TodoInv, OthersInv,
         LateInv, Late
<1> QED BY <1>0, <1>1, NextCases, SafetyRun, SafetyRest, SafetyCrash

Guarded == ~torn => SafetyInv

LEMMA SafetyAlways ==
  ASSUME Exclusive PROVE Spec => []Guarded
<1>1. TypeInv /\ LeaseInv /\ Guarded /\ [Next]_vars => Guarded'
  BY SafetyStep DEF Guarded
<1>2. Init => Guarded
  BY SafetyInit DEF Guarded
<1> QED BY <1>1, <1>2, LeaseAlways, TypingInit, TypingStep, PTL DEF Spec

\* A task's agent executions never exceed its rights to run: one it is created
\* with and one for each retry that an operator saved.  Overlapping runs, faults
\* at every await and saves that land long after the run that made them was
\* cancelled included, as long as no operation on a file begins before they have.
THEOREM RightToRun == Exclusive => (Spec => []AtMostOncePerApproval)
<1> SUFFICES ASSUME Exclusive PROVE Spec => []AtMostOncePerApproval
  OBVIOUS
<1>1. Guarded => AtMostOncePerApproval
  BY DEF Guarded, SafetyInv, TasksInv, TaskInv, AtMostOncePerApproval
<1> QED BY <1>1, SafetyAlways, PTL

\* With the same proviso a task is stored as completed only with the evidence of
\* its last attempt.
THEOREM VerdictRestsOnEvidence == Exclusive => (Spec => []CompletedHasEvidence)
<1> SUFFICES ASSUME Exclusive PROVE Spec => []CompletedHasEvidence
  OBVIOUS
<1>1. Guarded => CompletedHasEvidence
  BY DEF Guarded, SafetyInv, TasksInv, TaskInv, CompletedHasEvidence
<1> QED BY <1>1, SafetyAlways, PTL
===============================================================================
