----------------------------- MODULE ToolDispatch -----------------------------
(***************************************************************************)
(* One tool call through the middleware of application/tool_runtime.py:    *)
(* AuditMiddleware, BudgetController, PolicyMiddleware with ScopePolicy,   *)
(* EvidenceCaptureMiddleware, the tool.  A step is the code between two    *)
(* suspension points: publishing an event (the tracer writes it in a       *)
(* thread), executing the tool, and saving artifact and evidence suspend;  *)
(* reserving budget, asking the policy and starting the tool do not.       *)
(*                                                                         *)
(* Evidence is saved as adapters/storage/file.py saves: under the lock of  *)
(* the process's repository a thread reads the whole file, a second one    *)
(* writes it back.  The writer of a cancelled call goes on without lock.   *)
(*                                                                         *)
(* The callers are agents of one mission in one process; AgentLoop says    *)
(* when they call.  pc is the one program counter of an agent.             *)
(***************************************************************************)
EXTENDS Integers

CONSTANTS
    Agents, Tasks, TaskOf,
    Requests, NoRequest,  \* tool calls a model can ask for
    Registered,        \* those whose capability the registry resolves
    Network,           \* those with a network capability
    Targets, NoTarget, TargetOf,
    Allowed, Blocked,  \* targets that allowed_targets / blocked_targets match
    Unparsable,        \* targets that are no url, on which urlsplit raises
    Texts, NoText, Redact, Large,
    MissionCalls, TaskCalls,  \* BudgetLimits
    MaxFaults          \* bound: faults that strike

ASSUME DispatchAssumption ==
    /\ TaskOf \in [Agents -> Tasks]
    /\ NoRequest \notin Requests
    /\ Registered \subseteq Requests /\ Network \subseteq Requests
    /\ NoTarget \notin Targets
    /\ TargetOf \in [Requests -> Targets \cup {NoTarget}]
    /\ Allowed \subseteq Targets /\ Blocked \subseteq Targets
    /\ Unparsable \subseteq Targets
    /\ NoText \notin Texts
    /\ Redact \in [Texts -> Texts]
    /\ Large \subseteq Texts
    /\ MissionCalls \in Nat /\ TaskCalls \in Nat /\ MaxFaults \in Nat

VARIABLES
    pc,          \* the step an agent is about to take
    request,     \* the call it is making, if any
    content,     \* the redacted text of its result, NoText without one
    calls,       \* reserved calls: of the mission, and of each task
    clock,       \* wall-clock budget: "unset", "running", "expired"
    artifacts,   \* texts in the artifact store
    evidence,    \* evidence saved: a text, or a reference to an artifact
    draft,       \* what the write thread of an agent's save is to leave in the file
    late,        \* the same of threads whose save was cancelled
    observed,    \* results in the messages of the agent's execution
    \* history and bounds
    executed,    \* tool executions begun per task
    open,        \* per agent: tool.called minus terminal events on the trace
    gaps,        \* per agent: its events that may be missing from the trace
    torn,        \* has the write of a cancelled save landed?
    faults

budget == <<calls, clock>>
record == <<artifacts, evidence, draft, late, torn>>
audit == <<open, gaps>>
dispatchVars == <<pc, request, content, budget, record, observed, audit, executed, faults>>

\* A call whose tool.called is out and whose terminal event is not.
InCall == {"executing", "spilling", "saving", "writing", "filing", "closing", "failing"}
DispatchSteps == {"unavailable", "calling"} \cup InCall

Items == [by : Agents, text : Texts, spilled : BOOLEAN]

DispatchTypeOK ==
    /\ request \in [Agents -> Requests \cup {NoRequest}]
    /\ content \in [Agents -> Texts \cup {NoText}]
    /\ calls \in [mission : Nat, task : [Tasks -> Nat]]
    /\ clock \in {"unset", "running", "expired"}
    /\ artifacts \subseteq Texts
    /\ evidence \subseteq Items
    /\ draft \in [Agents -> SUBSET Items]
    /\ late \subseteq SUBSET Items
    /\ torn \in BOOLEAN
    /\ observed \in [Agents -> SUBSET Items]
    /\ executed \in [Tasks -> Nat]
    /\ open \in [Agents -> Int]
    /\ gaps \in [Agents -> Nat]
    /\ faults \in Nat

DispatchInit ==
    /\ request = [a \in Agents |-> NoRequest]
    /\ content = [a \in Agents |-> NoText]
    /\ calls = [mission |-> 0, task |-> [t \in Tasks |-> 0]]
    /\ clock = "unset"
    /\ artifacts = {}
    /\ evidence = {}
    /\ draft = [a \in Agents |-> {}]
    /\ late = {}
    /\ torn = FALSE
    /\ observed = [a \in Agents |-> {}]
    /\ executed = [t \in Tasks |-> 0]
    /\ open = [a \in Agents |-> 0]
    /\ gaps = [a \in Agents |-> 0]
    /\ faults = 0

Goto(a, p) == pc' = [pc EXCEPT ![a] = p]
Fault == faults < MaxFaults /\ faults' = faults + 1

\* The tracer appends the event that a publishes; d is its weight in the balance.
Traced(a, d) ==
    /\ open' = [open EXCEPT ![a] = @ + d]
    /\ UNCHANGED <<gaps, faults>>

\* The tracer fails, which the event bus notes and swallows.
Dropped(a) ==
    /\ Fault
    /\ gaps' = [gaps EXCEPT ![a] = @ + 1]
    /\ UNCHANGED open

Publish(a, d) == Traced(a, d) \/ Dropped(a)

-------------------------------------------------------------------------------
\* The frames of the call are gone.
EndCall(a) ==
    /\ request' = [request EXCEPT ![a] = NoRequest]
    /\ content' = [content EXCEPT ![a] = NoText]

\* dispatch(r): the capability is resolved; the first event is published.
StartCall(a, r) ==
    /\ request' = [request EXCEPT ![a] = r]
    /\ content' = [content EXCEPT ![a] = NoText]
    /\ Goto(a, IF r \in Registered THEN "calling" ELSE "unavailable")

\* BudgetController._reserve
HasBudget_TaskOnly(t) == clock # "expired" /\ calls.task[t] < TaskCalls
HasBudget(t) ==
    /\ clock # "expired"
    /\ calls.mission < MissionCalls
    /\ calls.task[t] < TaskCalls

Reserve(t) == calls' = [calls EXCEPT !.mission = @ + 1, !.task[t] = @ + 1]

\* ScopePolicy.authorize: what it allows, and on what it raises.
Authorized(r) == r \in Network => TargetOf[r] \in Allowed \ Blocked
Unreadable(r) == r \in Network /\ TargetOf[r] \in Unparsable

\* The call is turned down, with or without a budget unit spent on it.
Reject(a) ==
    /\ Goto(a, "closing")
    /\ UNCHANGED <<content, executed>>

Start(a) ==
    /\ Goto(a, "executing")
    /\ executed' = [executed EXCEPT ![TaskOf[a]] = @ + 1]
    /\ UNCHANGED content

\* The policy raises past the budget already reserved.
Misjudge(a) ==
    /\ Unreadable(request[a])
    /\ Goto(a, "failing")
    /\ UNCHANGED <<content, executed>>

Judge(a) ==
    \/ Misjudge(a)
    \/ ~Unreadable(request[a]) /\ ~Authorized(request[a]) /\ Reject(a)
    \/ ~Unreadable(request[a]) /\ Authorized(request[a]) /\ Start(a)

Admission(a) ==
    LET t == TaskOf[a] IN
    \/ ~HasBudget(t) /\ Reject(a) /\ UNCHANGED calls
    \/ HasBudget(t) /\ Reserve(t) /\ Judge(a)

\* tool.called is out: budget, policy and the start of the tool are one step.
Admit(a) ==
    /\ pc[a] = "calling"
    /\ Publish(a, 1)
    /\ clock' = IF clock = "unset" THEN "running" ELSE clock
    /\ Admission(a)
    /\ UNCHANGED <<request, record, observed>>

\* wall_clock_seconds have passed since the mission's first reservation.
ClockExpires ==
    /\ clock = "running"
    /\ clock' = "expired"
    /\ UNCHANGED <<pc, request, content, calls, record, observed, audit, executed, faults>>

\* The tool returns, well or with an error; the text is redacted.
ToolReturns(a) ==
    /\ pc[a] = "executing"
    /\ \E x \in Texts :
          /\ content' = [content EXCEPT ![a] = Redact[x]]
          /\ Goto(a, IF Redact[x] \in Large THEN "spilling" ELSE "saving")
    /\ UNCHANGED <<request, budget, record, observed, audit, executed, faults>>

\* The tool, the artifact store or the evidence repository raises.
CallRaises(a) ==
    /\ pc[a] \in {"executing", "spilling", "saving", "writing"}
    /\ Fault
    /\ draft' = [draft EXCEPT ![a] = {}]
    /\ Goto(a, "failing")
    /\ UNCHANGED <<artifacts, evidence, late, torn>>
    /\ UNCHANGED <<request, content, budget, observed, audit, executed>>

\* A large text goes to the artifact store.
Spill(a) ==
    /\ pc[a] = "spilling"
    /\ artifacts' = artifacts \cup {content[a]}
    /\ Goto(a, "saving")
    /\ UNCHANGED <<evidence, draft, late, torn>>
    /\ UNCHANGED <<request, content, budget, observed, audit, executed, faults>>

Item(a) == [by |-> a, text |-> content[a], spilled |-> content[a] \in Large]

RepositoryFree_Ignored == TRUE
RepositoryFree == \A b \in Agents : pc[b] # "writing"

\* The repository is free: the records are read, the new one is put among them.
ReadEvidence(a) ==
    /\ pc[a] = "saving"
    /\ RepositoryFree
    /\ draft' = [draft EXCEPT ![a] = evidence \cup {Item(a)}]
    /\ Goto(a, "writing")
    /\ UNCHANGED <<artifacts, evidence, late, torn>>
    /\ UNCHANGED <<request, content, budget, observed, audit, executed, faults>>

\* The file is replaced.
SaveEvidence(a) ==
    /\ pc[a] = "writing"
    /\ evidence' = draft[a]
    /\ draft' = [draft EXCEPT ![a] = {}]
    /\ Goto(a, "filing")
    /\ UNCHANGED <<artifacts, late, torn>>
    /\ UNCHANGED <<request, content, budget, observed, audit, executed, faults>>

\* The file is replaced by the thread of a save that was cancelled.
LandLate ==
    /\ \E saved \in late : evidence' = saved /\ late' = late \ {saved}
    /\ torn' = TRUE
    /\ UNCHANGED <<artifacts, draft>>
    /\ UNCHANGED <<pc, request, content, budget, observed, audit, executed, faults>>

\* evidence.created is published.
File(a) ==
    /\ pc[a] = "filing"
    /\ Goto(a, "closing")
    /\ UNCHANGED <<request, content, budget, record, observed, audit, executed, faults>>

\* The terminal event is out and dispatch() returns.
CloseCall(a) ==
    /\ pc[a] = "closing"
    /\ Publish(a, -1)
    /\ UNCHANGED <<budget, record, executed>>

\* The agent appends the result to its messages.
See(a) ==
    observed' = IF content[a] = NoText THEN observed
                ELSE [observed EXCEPT ![a] = @ \cup {Item(a)}]

\* tool.unavailable is out; nothing else happens to the call.
CallUnavailable(a) ==
    /\ pc[a] = "unavailable"
    /\ UNCHANGED <<budget, record, audit, executed, faults>>

FailCall_Silent(a) ==
    /\ pc[a] = "failing"
    /\ UNCHANGED <<audit, faults, budget, record, executed>>

\* tool.failed is out; the exception leaves dispatch().
FailCall(a) ==
    /\ pc[a] = "failing"
    /\ Publish(a, -1)
    /\ UNCHANGED <<budget, record, executed>>

-------------------------------------------------------------------------------
\* What a cancellation leaves of the call: `except Exception` does not see it,
\* so no terminal event follows, but a thread already at work goes on: an artifact
\* is a file of its own, evidence is written over all that others have saved.
Leave(a) ==
    /\ \/ UNCHANGED <<artifacts, late>>
       \/ /\ pc[a] = "spilling"
          /\ artifacts' = artifacts \cup {content[a]} /\ UNCHANGED late
       \/ /\ pc[a] = "writing"
          /\ late' = late \cup {draft[a]} /\ UNCHANGED artifacts
    /\ draft' = [draft EXCEPT ![a] = {}]
    /\ UNCHANGED <<evidence, torn>>
    /\ \/ UNCHANGED open
       \/ pc[a] = "calling" /\ open' = [open EXCEPT ![a] = @ + 1]
       \/ pc[a] \in {"closing", "failing"} /\ open' = [open EXCEPT ![a] = @ - 1]
    /\ gaps' = IF pc[a] \in InCall \cup {"calling"}
               THEN [gaps EXCEPT ![a] = @ + 1] ELSE gaps
    /\ UNCHANGED <<budget, executed>>
===============================================================================
