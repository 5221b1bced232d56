------------------------------- MODULE AgentLoop -------------------------------
(***************************************************************************)
(* runtime/agent/react.py, the ReAct loop, on its budgeted model           *)
(* (runtime/agent/model_budget.py) and the tool dispatcher.                *)
(*                                                                         *)
(* The agents are executions of one mission in one process: they share the *)
(* model's call lock, its usage totals, and the dispatcher's budgets and   *)
(* stores.  Tokens stand for tokens and cost alike: both are counted and   *)
(* limited in the same way.                                                *)
(***************************************************************************)
EXTENDS ToolDispatch

CONSTANTS
    NoAgent,
    MaxSteps,       \* max_steps of each agent's executions
    MaxCalls,       \* bound, per agent: tool calls in one model response
    MissionTokens, TaskTokens,  \* ModelBudgetLimits
    MaxUsage,       \* bound: tokens one call can use
    MaxExecutions   \* bound: executions begun

ASSUME LoopAssumption ==
    /\ NoAgent \notin Agents
    /\ MaxSteps \in [Agents -> Nat \ {0}]
    /\ MaxCalls \in [Agents -> Nat]
    /\ MaxUsage \in Nat /\ MaxExecutions \in Nat
    /\ MissionTokens \in Nat /\ TaskTokens \in Nat

VARIABLES
    step,      \* the agent's step
    queue,     \* tool calls of the last response not yet answered
    callLock,  \* the agent inside `async with self._call_lock`
    used,      \* recorded tokens: of the mission, and of each task
    begun      \* bound: executions begun so far

loopVars == <<step, queue, callLock, used, begun>>
vars == <<dispatchVars, loopVars>>

ModelSteps == {"asking", "generating", "reporting", "complaining"}

TypeOK ==
    /\ DispatchTypeOK
    /\ pc \in [Agents -> {"idle", "waiting"} \cup ModelSteps \cup DispatchSteps]
    /\ step \in [Agents -> Nat] /\ \A a \in Agents : step[a] <= MaxSteps[a]
    /\ queue \in [Agents -> Nat]
    /\ callLock \in Agents \cup {NoAgent}
    /\ used \in [mission : Nat, task : [Tasks -> Nat]]
    /\ begun \in Nat

Init ==
    /\ DispatchInit
    /\ pc = [a \in Agents |-> "idle"]
    /\ step = [a \in Agents |-> 0]
    /\ queue = [a \in Agents |-> 0]
    /\ callLock = NoAgent
    /\ used = [mission |-> 0, task |-> [t \in Tasks |-> 0]]
    /\ begun = 0

-------------------------------------------------------------------------------
\* execute() returns or raises: its frames, messages among them, are gone.
Finish(a) ==
    /\ Goto(a, "idle")
    /\ EndCall(a)
    /\ step' = [step EXCEPT ![a] = 0]
    /\ queue' = [queue EXCEPT ![a] = 0]
    /\ observed' = [observed EXCEPT ![a] = {}]

\* execute(request)
Execute(a) ==
    /\ pc[a] = "idle"
    /\ begun < MaxExecutions
    /\ begun' = begun + 1
    /\ Goto(a, "waiting")
    /\ step' = [step EXCEPT ![a] = 1]
    /\ UNCHANGED <<request, content, budget, record, observed, audit, executed, faults>>
    /\ UNCHANGED <<queue, callLock, used>>

Exhausted(t) == used.mission >= MissionTokens \/ used.task[t] >= TaskTokens

CallLockFree_Ignored == TRUE
CallLockFree == callLock = NoAgent

\* The call lock is free: ModelBudgetExceeded is raised, or the lock is kept
\* while the call is announced and made.
EnterModel(a) ==
    /\ pc[a] = "waiting"
    /\ CallLockFree
    /\ \/ Exhausted(TaskOf[a]) /\ Finish(a) /\ UNCHANGED callLock
       \/ /\ ~Exhausted(TaskOf[a])
          /\ Goto(a, "asking")
          /\ callLock' = a
          /\ UNCHANGED <<request, content, observed, step, queue>>
    /\ UNCHANGED <<budget, record, audit, executed, faults, used, begun>>

\* model.called is out; the provider is asked.
Ask(a) ==
    /\ pc[a] = "asking"
    /\ Goto(a, "generating")
    /\ UNCHANGED <<request, content, budget, record, observed, audit, executed, faults>>
    /\ UNCHANGED loopVars

\* What the adapter makes of an answer: tokens that are no natural number
\* count as none; the tool calls are well-formed and name offered tools.
Usages == 0 .. MaxUsage
ResponseLengths(a) == 0 .. MaxCalls[a]

\* The provider answers: the usage is recorded, model.completed published.
ModelAnswers(a) ==
    /\ pc[a] = "generating"
    /\ \E u \in Usages :
          used' = [used EXCEPT !.mission = @ + u, !.task[TaskOf[a]] = @ + u]
    /\ \E n \in ResponseLengths(a) : queue' = [queue EXCEPT ![a] = n]
    /\ Goto(a, "reporting")
    /\ UNCHANGED <<request, content, budget, record, observed, audit, executed, faults>>
    /\ UNCHANGED <<step, callLock, begun>>

\* The provider raises, or its answer is malformed: what it used is not recorded.
ModelFails(a) ==
    /\ pc[a] = "generating"
    /\ Goto(a, "complaining")
    /\ UNCHANGED <<request, content, budget, record, observed, audit, executed, faults>>
    /\ UNCHANGED loopVars

LockAfterFailure(a) == IF callLock = a THEN NoAgent ELSE callLock

\* model.failed is out; the execution ends with the provider's exception.
ModelRaises(a) ==
    /\ pc[a] = "complaining"
    /\ callLock' = LockAfterFailure(a)
    /\ Finish(a)
    /\ UNCHANGED <<budget, record, audit, executed, faults, used, begun>>

\* The response is there: final, or with tool calls of which the first starts.
Respond(a) ==
    /\ pc[a] = "reporting"
    /\ callLock' = NoAgent
    /\ \/ queue[a] = 0 /\ Finish(a)
       \/ /\ queue[a] > 0
          /\ \E r \in Requests : StartCall(a, r)
          /\ UNCHANGED <<observed, step, queue>>
    /\ UNCHANGED <<budget, record, audit, executed, faults, used, begun>>

NextStep_SameStep(a) == step[a]
NextStep(a) == step[a] + 1

StepsLeft_OffByOne(a) == step[a] <= MaxSteps[a]
StepsLeft(a) == step[a] < MaxSteps[a]

\* A call has its observation: the next call or the next step follows.
Advance(a) ==
    /\ queue' = [queue EXCEPT ![a] = @ - 1]
    /\ \/ queue[a] > 1 /\ (\E r \in Requests : StartCall(a, r)) /\ UNCHANGED step
       \/ /\ queue[a] = 1 /\ StepsLeft(a)
          /\ Goto(a, "waiting")
          /\ EndCall(a)
          /\ step' = [step EXCEPT ![a] = NextStep(a)]

Observe(a) ==
    /\ \/ CallUnavailable(a) /\ UNCHANGED observed
       \/ CloseCall(a) /\ See(a)
    /\ Advance(a)
    /\ UNCHANGED <<callLock, used, begun>>

\* It was the last call of the last step.
ObserveLast(a) ==
    /\ CallUnavailable(a) \/ CloseCall(a)
    /\ queue[a] = 1 /\ ~StepsLeft(a)
    /\ Finish(a)
    /\ UNCHANGED <<callLock, used, begun>>

\* An exception out of the dispatcher ends the execution.
LoopRaises(a) ==
    /\ FailCall(a)
    /\ Finish(a)
    /\ UNCHANGED <<callLock, used, begun>>

\* asyncio.timeout runs out, or the mission cancels the operation.
Interrupt(a) ==
    /\ pc[a] # "idle"
    /\ Fault
    /\ Leave(a)
    /\ callLock' = LockAfterFailure(a)
    /\ Finish(a)
    /\ UNCHANGED <<used, begun>>

-------------------------------------------------------------------------------
Dispatch(a) ==
    /\ Admit(a) \/ ToolReturns(a) \/ Spill(a) \/ SaveEvidence(a) \/ File(a)
    /\ UNCHANGED loopVars

Read(a) == ReadEvidence(a) /\ UNCHANGED loopVars

Model(a) ==
    \/ Ask(a) \/ ModelAnswers(a) \/ ModelFails(a) \/ ModelRaises(a) \/ Respond(a)

Next ==
    \/ \E a \in Agents :
          \/ Execute(a) \/ EnterModel(a) \/ Model(a)
          \/ Dispatch(a) \/ Read(a) \/ Observe(a) \/ ObserveLast(a)
          \/ LoopRaises(a) \/ Interrupt(a)
          \/ CallRaises(a) /\ UNCHANGED loopVars
    \/ (ClockExpires \/ LandLate) /\ UNCHANGED loopVars

Spec == Init /\ [][Next]_vars

\* Providers, tools, stores and tracer come back with something (each has a
\* timeout of its own); an asyncio.Lock serves its waiters in turn.
Fairness ==
    \A a \in Agents :
        /\ WF_vars(Model(a) \/ Dispatch(a) \/ Observe(a) \/ ObserveLast(a) \/ LoopRaises(a))
        /\ SF_vars(EnterModel(a)) /\ SF_vars(Read(a))

FairSpec == Spec /\ Fairness

-------------------------------------------------------------------------------
\* Tools are executed within the mission's and the task's budget however many
\* agents call at once and whatever fails, and only on requests in scope.
ExecutionsAreEntitled ==
    /\ \A t \in Tasks : executed[t] <= TaskCalls
    /\ calls.mission <= MissionCalls
    /\ \A t \in Tasks : executed[t] <= calls.task[t]
    /\ \A a \in Agents : pc[a] = "executing" => Authorized(request[a])

\* What an agent has seen of a tool is on record: it is saved as evidence,
\* redacted, and behind every artifact reference there is an artifact.  It stays
\* saved while others save, fail and are cancelled, until the thread of a
\* cancelled save writes its old records over the file.
ObservationsOnRecord ==
    \A a \in Agents : \A x \in observed[a] :
        /\ x \in evidence \/ torn
        /\ x.text \in {Redact[y] : y \in Texts}
        /\ x.spilled => x.text \in artifacts

\* The trace of an agent's tool calls balances: each tool.called is followed
\* by one terminal event, but for events that the tracer failed to write and
\* calls that were cancelled.
AuditBalances ==
    \A a \in Agents :
        LET d == open[a] - (IF pc[a] \in InCall THEN 1 ELSE 0)
        IN  d \in -gaps[a] .. gaps[a]

\* However the calls of several agents, their failures and their cancellations
\* interleave, they are charged as if each were checked and charged in one step:
\* no usage is recorded on a budget that another call has used up meanwhile.
Budget == INSTANCE ModelBudget

ImplementsModelBudget == Budget!Spec

\* So the limits are overrun by less than the tokens of one call.
OverspendBounded ==
    /\ used.mission = 0 \/ used.mission < MissionTokens + MaxUsage
    /\ \A t \in Tasks : used.task[t] = 0 \/ used.task[t] < TaskTokens + MaxUsage

\* Every execution ends: its steps are bounded and no lock is left behind.
\* As boundedly many begin, this is that the agents come to rest, always.
ExecutionEnds == []<>(\A a \in Agents : pc[a] = "idle")

\* How far an agent is from the end of its step: at the model, then in a call.
AtModel == {"waiting"} \cup ModelSteps
Distance(p) ==
    CASE p \in {"waiting", "calling"} -> 7
      [] p \in {"asking", "executing"} -> 6
      [] p \in {"generating", "spilling"} -> 5
      [] p = "saving" -> 4
      [] p = "writing" -> 3
      [] p \in {"reporting", "complaining", "filing"} -> 2
      [] p \in {"closing", "failing", "unavailable"} -> 1
      [] p = "idle" -> 0

\* A later step, or in the same step from the model to its calls, or fewer calls
\* left, or further in the same call: an order without infinite descent, as steps
\* are limited and a response has finitely many calls.
Nearer(a) ==
    \/ step'[a] > step[a]
    \/ /\ step'[a] = step[a]
       /\ \/ pc[a] \in AtModel /\ pc'[a] \notin AtModel
          \/ /\ pc[a] \notin AtModel /\ pc'[a] \notin AtModel
             /\ queue'[a] < queue[a]
          \/ /\ pc[a] \in AtModel <=> pc'[a] \in AtModel
             /\ pc[a] \in AtModel \/ queue'[a] = queue[a]
             /\ Distance(pc'[a]) < Distance(pc[a])

Unmoved(a) == pc'[a] = pc[a] /\ step'[a] = step[a] /\ queue'[a] = queue[a]

\* An execution never turns back: whatever agents, tools and faults do, what
\* changes of an execution in progress brings it nearer to its end.
ExecutionsDescend ==
    [][\A a \in Agents :
          pc[a] # "idle" => pc'[a] = "idle" \/ Unmoved(a) \/ Nearer(a)]_vars
===============================================================================
