# xhunter-agent: TLA+ models, model checking and proofs

xhunter runs security missions with an LLM agent.  A mission is a set of tasks;
a worker claims a task under a lease, has the agent work on it with tools, and
stores evidence, a verdict and checkpoints.  This directory holds TLA+ modules
of its control plane, TLC configurations that check them on small instances,
and TLAPS proofs.  Source paths below are relative to `src/xhunter/`.

## Inventory

| part | state it keeps | operations | hard behaviour |
|---|---|---|---|
| `services/mission_service.py` | locals of `run()` | the task loop: plan, claim, run, verify, settle, give the mission a verdict | cancellation and failing stores at each await, crash, two runs on one mission |
| `services/planning_service.py`, `orchestration/planner`, `orchestration/scheduler` | none | apply a plan without duplicates; pick the next task | read of the known keys before the saves |
| `services/task_lease.py` | lease table, heartbeat task, sweeper's queue | acquire, heartbeat, release, pop_expired; cancel an operation whose lease is lost; mark tasks of lapsed leases | clock against event loop; stray operations |
| `services/recovery_service.py`, `application/recovery_commands.py` | none | the operator resolves an unknown outcome | another process; dies half-way |
| `adapters/storage/file.py`, `adapters/checkpoint/file.py`, `adapters/atomic.py` | JSON files, one lock per repository | upsert, get, all | whole-file read-modify-write in threads; cancellation; crash |
| `adapters/artifacts/local.py` | content-addressed files | put, get | two files per artifact |
| `orchestration/dispatcher`, `application/tool_runtime.py` | none | a tool call through audit, budget, policy, evidence | failures and cancellation in the chain |
| `orchestration/policies` | call counters, start time; scope lists | reserve, authorize | several agents at once; limits |
| `runtime/agent/react.py`, `runtime/agent/model_budget.py` | messages, step; usage totals, call lock | the ReAct loop; a budgeted model call | lock across awaits; steps and timeout |
| `adapters/memory.py` (event bus), `adapters/tracing` | subscriptions; trace file | publish, record | handlers that fail |
| `runtime/capability`, `runtime/plugin`, `runtime/mcp`, `plugins/builtin/core.py` | registered tools, disposers, started flag | register, dispose, start, stop | starts that fail half-way; state read before an await |
| `adapters/sandbox/docker.py` | container, started flag, lock | execute, close | timeouts and cancellation around CLI commands |
| `adapters/sandbox/local.py` | the child of a call | execute | a timeout against the command's own end; descendants that hold the pipes; cancellation |
| `plugins/builtin` (five tools) | none | check arguments, start one command | arguments of every kind; policy and tool read them each in their own way |
| `application/config.py`, `application/cli/main.py` and the builders | none | load, validate, build, run a command | environment against file; values that one check passes and the next refuses |
| `adapters/models`, `services/context_service.py`, `services/redaction.py`, `runtime/skill`, `domains/ctf` | none to speak of | conversion, assembly | none across steps |
| the rest of `application` | none | wiring | decides what runs concurrently |

The mission service calls planner, scheduler, lease manager, agent, verifier and
the stores; the agent calls the budgeted model and the dispatcher; the
dispatcher calls the tools, which call the sandbox, and stores evidence and
artifacts; everything publishes events, which the tracer writes.  Runs, agents,
heartbeats and the sweeper are tasks of one event loop and interleave at
awaits; the operator's command is a process of its own and shares the files.
Nothing in the program calls the sweeper, `ExpiredTaskRecovery.recover()`: it is
there for an embedding host, and only tests call it.

What makes each part correct: a task is executed only as often as it was
approved and by one worker at a time; verdicts rest on stored evidence; every
claimed task is settled or recovered; leases keep their promises; saved records
stay saved; tool calls stay within budget and scope and are on record; model
spending is bounded; everything that is started ends.

## Modules

| module | models | composed with |
|---|---|---|
| `LeaseService` | what a lease manager promises, without time | |
| `TaskLease` | `TaskLeaseManager` with its clock | implements `LeaseService` |
| `LeaseHeartbeat` | `run_with_lease_heartbeat` between acquire and release | extends `TaskLease` |
| `ModelBudget` | what a budgeted model promises: check and charge in one step | |
| `TaskLifecycle` | what the control plane promises about a task's life | |
| `MissionService` | `run()`, planning, scheduler, leases, sweeper, operator, stores | implements `TaskLifecycle` and `LeaseService` |
| `RecordStore` | what a repository promises: a save replaces one record | |
| `JsonEntityFile` | `_JsonEntityFile.upsert`, `get`, `all` and `atomic_write` in threads of several processes | implements `RecordStore` |
| `ToolDispatch` | one tool call through the middleware | |
| `AgentLoop` | the ReAct loop and the budgeted model | extends `ToolDispatch`, implements `ModelBudget` |
| `DockerSandbox` | the sandbox's container and lock, one CLI command per step | |
| `CapabilityRegistry` | the tool registry, the core plugin, the MCP managers | |
| `RuntimeBundle` | what the composition root builds, from first call to `close()` | extends both |
| `LocalSandbox` | `LocalSandbox.execute` and the command it runs | |
| `BuiltinTools` | the checks, schemas and commands of the five tools, and where the scope policy finds the target | extends `LocalSandbox` |
| `AppConfig` | where a setting comes from, what `validate_config` and the builders refuse | |
| `LocalRuntime` | a command of the CLI in local mode: configuration, tools, end of the process | extends both |
| `MissionSafetyProofs`, `MissionLifecycleProofs` | safety of `MissionService`; what becomes of its tasks | extend `MissionServiceProofs` |
| other `*Proofs` | theorems about the module they are named after | |
| `MC*` | instances for TLC | |

State and actions correspond to the code as follows.

* **MissionService.** `pc` of a worker names the await at which its `run()`
  is; an action is the code from one await to the next.  The files are
  `stored`, `evidence` and `mission`.  A save of a task is two steps, as in
  `adapters/storage/file.py`: under the repository's lock a thread reads the whole
  file (`BeginSave`; `draft` is what it has read with the change to be made), and
  a thread replaces the whole file (`EndSave`).  The operator's process has a lock
  of its own, so its save (`ResolveBegin`, `ResolveSave`) can overlap.
  `evidence.json` and `missions.json` are written by this process only, and a save
  of them is one step.  A cancelled save leaves the lock at once and its thread
  goes on (`Detach`): `lateTasks`, `lateEvidence` and `lateMission` hold what it
  replaces the file with, at any later time (`LateLands`).  `torn` is history: an
  operation on a file began while such a thread, or a save of the other process,
  was still to write it.  From there on the code promises nothing, which
  `json_store_cancel` shows, and the properties about the files stop there.
  `asyncio.Lock` serves in the order of asking.  Where that order is settled (the
  task is claimed and the save of RUNNING asked for without a suspension in
  between) the model keeps it: `ahead` says who may have asked before.  `Cancel`
  and `Fail` unwind from any await to the handler that the code enters there, or
  out of `run()`; `Crash` drops all but the files.  Checkpoints are read by the
  status command only: the steps that write them are there, with their failures,
  and their contents are not.  `lease` is the table without time: `Expire` lets a
  lease lapse, and the constant `Expiry` says which may.  `stray` holds operations
  that a cancelled run left behind.  `sweeper` and `operator` are step by step.
* **TaskLease** has the table with deadlines and `now`; `promised` is history:
  the deadline each owner was last told.  **LeaseHeartbeat** adds a worker's
  phases around it and the times at which the loop is due.  `disturbed` is
  history: the loop was later than `Setup`, `Lag` or `Settle` allow, or a run began
  on what an abandoned run of its owner left of a lease, as `acquire` then answers
  True without moving the deadline.
* **JsonEntityFile.** `upsert` waits for the lock of its process, reads in a
  thread, writes in a thread, returns; `get` and `all` wait for the same lock and
  read.  A cancelled call whose write thread still runs is `detached`: the lock is
  free and the write lands later.  A process that crashes leaves its temporary
  file; the lock of one process does not keep another out.
* **ToolDispatch, AgentLoop.** `pc` of an agent is its await: in the model
  (waiting for the call lock, announcing, generating, reporting), or in the
  dispatcher (announcing, executing, spilling, saving, filing, closing).
  Reserving budget, asking the policy and starting the tool is one step, as no
  await between them suspends; a target that is no URL makes the policy raise when
  the budget is spent already, and the execution of the agent ends.  Evidence is
  saved as `JsonEntityFile` saves: `draft` is what the write thread of an agent's
  save is to leave in the file, `late` the same of threads whose save was
  cancelled, `torn` that one of them has landed.  Other processes do not write this
  file.  Tokens stand for tokens and cost.  Which targets a scope entry matches is
  left to constants.
* **DockerSandbox, CapabilityRegistry, RuntimeBundle.** `at` of a caller is its
  await: at the lock (entering, closing), at a CLI command inside it
  (inspecting, creating, starting, removing), or at `docker exec` outside it
  (executing).  A step is the answer to one command.  A command whose CLI is
  killed by its timeout, or whose caller is cancelled, may be carried out at
  once, later (`late`) or never; `cut` is history: the commands whose outcome
  was not learnt.  An MCP manager lists its server's tools by a command in the
  sandbox, so its `start()` reads `_started` before that await and registers
  after it; `overlapped` records that two starts of one manager did so at once.
  `clean` is history too: whether a call was in flight at `close()`, and whether a
  manager has been started since, which the code allows.  A command that has just
  ended when its timeout strikes makes `kill()` raise: `close()` then leaves with
  the flag up over a removed container.

* **LocalSandbox, BuiltinTools.** `step` of a caller is its await in `execute()`:
  creating the process, the first `communicate()` bounded by `wait_for`
  (talking), the one after the kill, which nothing bounds (ending), or the wait
  for a child whose start was cancelled (closing).  The command prints, forks,
  ends or hangs as it likes; `holder` is a descendant that keeps its pipes open,
  `abandoned` counts commands left running by cancelled calls or a killed
  process.  What it prints is left out.  `ExpireLate` is a timeout that strikes when asyncio has already dropped the
  ended process: `kill()` raises.  A tool call is judged by the policy, then runs
  through the tool's checks in their order; an argument is known by its kind
  (`Usual`, a NUL or a lone surrogate inside, empty, wrong type, unhashable, null, a
  boolean for a number, a URL inside or outside the scope, without host or
  unparsable, an infinite or too large timeout).  A `twofold` URL is one in which
  `urlsplit`, which the policy asks, and the client that the tool starts read two
  hosts; that other URLs are read alike is an assumption about the two parsers.
  What the helper scripts inside the sandbox do is external.
* **AppConfig, LocalRuntime.** A setting comes from the environment, else from
  the file, else it has its default, but a mistyped value in the file raises even
  where the environment overrides it.  The builders look again at what
  `validate_config` has passed: `doctor` accepts configurations that a command
  with a runtime refuses, and `DoctorPredicts` says for which reasons only.

## Runs

`Faults`, `MaxFaults`, `MaxTime`, `MaxTasks`, `MaxApprovals`, `MaxUsage`, `MaxCalls`,
`MaxExecutions`, `MaxOdd` and `MaxSet` are bounds, and so are `MissionCalls` and the other
limits of the two budgets.

| run | shows |
|---|---|
| lease_heartbeat | with `Setup + Interval + Lag + Settle < TTL` and a punctual loop a run holds its lease from acquire to release (`RunHoldsLease`), so no two workers are in a run on one task; underneath, every order of the manager's operations and the clock keeps `PromiseKept` and implements `LeaseService` |
| mission_cli | one worker, up to three faults of every kind, threads of cancelled saves that land at any time, two planned tasks with one key, an operator in another process: evidence, mission verdict, no duplicates, `TaskLifecycle`, which also counts executions against approvals (1.0 million states) |
| mission_workers | two workers with owner ids of their own, failing stores, crashes, leaked leases, sweeper and operator: exclusive execution, no execution without approval, and `OnlyFaultsStrand`: a task is left running with nobody to deal with it only by a step in which something fails or which tears the file (0.7 million states) |
| mission_host | leases that lapse at any time, a cancellation, sweeps: executions need approvals, runs end, and a running task whose lease a sweep has popped does not stay running (`PoppedTaskIsRecovered`; 0.3 million states) |
| mission_shared_owner | *violated*: two runs with the default `worker_id` execute one task, and the verdict of one is saved over the unknown outcome of the other |
| mission_stuck | *violated*: a crash leaves a task RUNNING that nothing takes up |
| mission_cancel | *violated*: a cancellation before the try block leaves a task RUNNING |
| json_store | concurrent callers in two processes, readers, failing threads, cancellations, crashes: acknowledged saves stick unless a save was cancelled while writing or two processes overlapped, calls return, `RecordStore` |
| json_store_cancel | *violated*: a cancelled save's thread overwrites a save acknowledged after it |
| agent_loop | two agents of one mission contend for its budgets: entitlement, evidence until a cancelled save lands late, audit, `ModelBudget`, termination (0.3 million states) |
| local_runtime | every configuration with an entry in file and environment, every tool with up to two unusual arguments, commands that hang and fork: nothing runs on the host without the acknowledgement, only a URL that policy and tool read differently takes a command out of scope, checks and schema agree but for the laxities named, an answered call is over, calls with a timeout end, `doctor` predicts |
| runtime_bundle | callers and managers share one sandbox: only an internal network, a truthful started flag, no tool without an owner, closed until a manager is started again, calls end |

The properties of `runtime_bundle` name what they exclude, and the excluded
behaviour is the code's: a `docker run` that times out or is cancelled can leave
a container that `close()` does not remove; a `close()` that is cut off in `docker rm`
leaves the flag up; a call that was in flight at `close()`, or a manager started
after it, can start a container again; of two overlapping starts of one manager, the one
that fails disposes of the other's tools.

The four violated properties are findings about the code: see `findings` in
PROJECT.json for the lines and the documents that say otherwise.

`SchemaIsEnforced` and `DoctorPredicts` name what they exclude too: null for an
argument that may be absent, a boolean for a number and an action that is no text
pass the checks, text that UTF-8 cannot encode makes `body.encode()` raise; and a
command refuses what `validate_config` does not look at, such as the model's URL,
NaN, or memory stores under `status` and `recover-task`.

*Why the bounds are enough.*  Two owners, savers, workers and agents give every
pairwise race; the code treats further ones alike.  A second fault can hit the
handling of the first; in `mission_cli` three let a late write meet the handling of
a second fault and the run after it.  Three tasks there give an initial task, and
two proposals with one key, which are interchangeable (the symmetry set `TwoAlike`).
Its constraint `NotTorn` cuts off the steps after a state that is `torn`: every
property of the run holds in such states by its first conjunct, so nothing is
lost.  `mission_host` has one fault because liveness is checked over everything
that lapses; the safety of several faults is that of the two runs before it and
of the proofs.  The clock of `lease_heartbeat` runs past the ttl, so a lease is
taken, lapses and is taken again.  In `agent_loop` two agents want four calls of
the three that the mission has and the two that a task has, so either limit can
bind first; one agent has two steps and the other two calls in a step; a request
may be in scope, out of scope, without a readable URL or unknown; results are
plain, secret or large; and `MaxExecutions = 2` lets two executions begin, one of
each agent or two of one.  Two agents on one task would be two runs on one lease,
which a lease excludes, so `TaskOf` is fixed and different.  Executions are
bounded, so the run stops and deadlock is not checked there.  As boundedly many
begin, `ExecutionEnds` says that the agents come to rest again and again.  In
`runtime_bundle` two managers want the same capability, two callers meet at the
lock, and of two faults the second can hit the `close()` that follows the first.
In `local_runtime` there is one caller, as calls share nothing; two unusual
arguments let one check mask another and a network tool have its two targets
differ; one entry in the file and one in the environment let them agree, override
or miss each other; and of two faults the second can hit the wait that the first
began.  What is proved holds without these bounds.

*Fairness.* In `local_runtime` the event loop runs what is ready, timers fire and
a killed child dies; nothing makes a command end or a descendant let go of its
pipes, so `CallsEnd` has that as its premise. Elsewhere, a step that follows an
await that the code itself ends (a thread, a provider with a timeout, a publish)
is weakly fair. A lock is strongly fair: `asyncio.Lock` serves waiters in order,
and every CLI command has a timeout; so are the steps of a run (`Work`) and of a
sweep (`Recover`), which wait for the lock of the task file again and again. Starting a run, an execution or a save, a
fault, a cancellation and an operator's decision are not fair; only mission_stuck
grants a restarted run and a persistent operator fairness, to show that even they
do not help. No run assumes that a sweep begins or that a lease lapses: only a
sweep that has begun goes on (mission_host).

## Proofs

All proofs are for any number of tasks, owners, workers, savers and any bounds,
from the ASSUMEs of the modules.

* `LeaseHeartbeatProofs`, the manager: `Typing`, `PromiseSafety`, `Exclusion`,
  `Refinement`.  `PromiseKept` is inductive with the types; exclusion follows from
  it, as two promises for one task would need two entries in one place.
  `ManagerUnderLoop`: the workers' calls are among those the manager's
  specification allows.  The workers: `LoopTyping`, and from
  `Setup + Interval + Lag + Settle < TTL` (`Timely`; with the defaults, a ttl of 60
  seconds and a third of it between beats, set-up, lateness and settling have
  less than 40 seconds together) `HeartbeatKeepsLease`, `RunExclusion` and
  `LapsesAreLeaked`.  The invariant `Margin` bounds, in each phase, the time the
  lease still has by the time at which the worker is due; of leases that abandoned
  runs leave behind nothing need be known, as nobody else gets them while they
  are live.
* `MissionServiceProofs`: `Typing`, `LeaseRefinement` (under any runs, whatever
  their owner ids, the leases change hands as `LeaseService` promises) and
  `NoEndlessRun`.
* `MissionSafetyProofs`: `RightToRun`, `VerdictRestsOnEvidence`, `OneRunPerTask` and
  `OneAgentAtATime`.  Premise (`Exclusive`): each worker has an owner id of its own,
  and either no lease lapses while its task is being worked on, which is what
  `LapsesAreLeaked` shows of a punctual loop, or there is one run at a time, and
  then any lease may lapse at any time.  `OneAgentAtATime` needs that no lease
  lapses under a run and excludes cancellations (`Uninterrupted`): a cancelled run,
  or one whose beat finds its lease gone, leaves its agent operation to end by
  itself, and an operator may have the task retried before it has.  The other two
  rest on `SafetyInv`, which holds until the files are torn (`Guarded`).  Its part
  `Clean` says that of all saves of tasks.json, begun, operator's or late, one at
  most is under way and has the file's present content as its base, so that it lands
  (`Lands`) as if it wrote its own record only.  Then: a task past its claim is in
  the hands of one run, because that run holds its live lease or is the only one,
  so what it knows of the task's attempts is still true when it writes, although
  sweeper and operator may change the status in between; a proposal not yet saved
  belongs to one plan; what sweeper and operator are about to overwrite is stored;
  and a late write finds no run in its way (`Late`).  Each kind of step has a lemma
  for what it leaves alone (`RunFrame`, `OthersKeep`) and one for what it does to its
  own task (`OwnStep`).
* `MissionLifecycleProofs`: while a cancelled save is still to land no run reads or
  writes the task file without tearing it (`LateHalts`).  `StrandingTakesAFault`
  under `Exclusive`: a worker lets go of settled tasks only (`SettledInv`), and the
  sweeper has every task it took from the table in its queue or in hand
  (`HandsInv`).  `NoTaskTwice` for one run at a time whose initial tasks have keys
  of their own, whichever leases lapse (`KeysInv`: the run's keys are those of the
  file, and a proposal that is still to land has one that nobody has read); with
  two runs it is false, each can read the keys before the other saves.  Under
  `Steady` (owner ids of their own, no lease lapses, which is how the command line
  runs: it starts no sweeper and a run outlives its process's leases only by a
  crash) `Refinement` of `TaskLifecycle` and `OnlyOperatorResolves`, and for one run
  at a time besides (`CommandLine`) `VerdictStaysTrue` (`VerdictInv`: a verdict of
  completed, in the file or in the hands of a run or a thread, is true, and no run
  has gone on from it).  `SafetyInv` does not suffice for these: `OrderInv` says
  for each step of a worker the status its task is stored in, that what the
  operator is about to overwrite is still the unknown outcome it read, and that a
  late write makes a move of the lifecycle.  That no lease lapses is needed even
  for one run: the sweeper removes a leaked lease before it reads the task, a new
  run can claim and save it in between, and then commits its verdict over the
  unknown outcome that the sweeper has saved.
* `JsonEntityFileProofs`: `Typing`, `SavesStick`, `Refinement`.  The invariant
  says who may be inside the lock of a process, and that a thread between its read
  and its replacement has the file's present content as its base, unless a save
  was cancelled while writing or another process's save came between.
* `AgentLoopProofs`: `Typing`, `Entitlement`, `BudgetRefinement`, `Spending`,
  `EvidenceOnRecord`, `AuditTrail`, `NoEndlessExecution`.  Each invariant comes with a frame lemma that says which steps
  can touch it.  Budget: who is at the model holds the call lock, and
  between the check of the budget and the report nobody else reports, so each call
  is charged as `ModelBudget` does it; that the limits are overrun by less than one
  call (`Spending`) is then a fact about `ModelBudget`.  Evidence: a text
  passes artifact store and repository in order, and until a late write lands
  what a save has read is what the file holds.
* `RuntimeBundleProofs`: `Typing`, `NetworkIsInternal`, `StartedIsTrue`,
  `ToolsHaveOwners`, `AnsweredToolsStay`, `StaysClosed`.  A removal that outlives
  its command can be followed by no other start before it has landed, because
  the container's name is taken until then; a manager that is serving while a
  start of it is under way has overlapping starts.

* `LocalRuntimeProofs`: `Typing`, `AnsweredIsOver`, `ScopeHolds`, `FailsClosed`,
  `SchemaHolds`, `DoctorForesees`.  `ScopeHolds` uses no bound on the unusual
  arguments: what passes the tool's check of its URL and the policy's decision is
  inside the scope, or has no host, or is `twofold`.  `SchemaHolds`: a check that raises
  (`FitsNeverCrashes`) or lets a command through (`SentFits`) is settled argument by
  argument against the schema, whatever the others are; only a call that fits, or
  has null, a boolean or an odd action where the checks are lax, has reached the
  sandbox.  `DoctorForesees`: a setting that loads is in one of its classes,
  whichever source gives it (`ConfigClasses`); then what `validate_config` does not
  look at is all that a later stage can refuse.

`NoEndlessRun` and `NoEndlessExecution` are the safety half of termination: runs of
a mission and executions of an agent descend (`RunsDescend`, `ExecutionsDescend`) an
order in which nothing descends for ever - rounds or steps left, then where in the
round, then proposals or calls left - for every planner, model, fault and
interleaving and without a premise.  What they leave to TLC is that a run that can go on
does (`RunEnds`, `ExecutionEnds`).

Only model-checked: liveness (`RunEnds`, `PoppedTaskIsRecovered`, `SavesReturn`,
`ExecutionEnds`, `CallsEnd`), as fairness and `ENABLED` are out of the prover's reach.
Every safety property of the passing runs is proved.  Only proved:
`ExclusivePromise`, which follows from `PromiseKept`; `OneRunPerTask` and
`OnlyLeakedLapse`, which follow from `RunHoldsLease`; `OverspendBounded`, which follows
from `ImplementsModelBudget`; `InOneHand`; `RunsDescend` and `ExecutionsDescend`; and
`LeaseService` as implemented under whole runs (`LeaseRefinement`).

## Not modelled

* Wording and layout: prompts (`services/context_service.py`, `runtime/skill`, the
  CTF domain), requests to the model, the CLI's output, the mapping of records to
  JSON.  They keep no state across steps; where building one raises, the model
  that uses it lets it raise.
* Redaction is any function on texts, its patterns are left out.  Which hosts a
  scope entry matches is left to constants.
* `application/architecture.py` is a test of imports.
* `BudgetController.release_mission` is called nowhere.
* The repositories of `adapters/memory.py` share the stored objects with their
  callers; a mission run on them only is a test's arrangement.
* Plugins other than the core one, of which the program has none.
* The two files of an artifact, and reading artifacts back.
* What commands, containers, servers and helper scripts do is external: any
  behaviour that their caller can tell apart.

Commands that a cancelled call leaves running on the host are the code's
behaviour and modelled as such: no property excludes them, `ReturnedIsOver` speaks
of calls that were answered.

## Plan

1. Done: leases, mission loop, stores with several processes, agent and
   dispatcher, sandboxes, tools, registry and runtimes, configuration; refinements
   of `LeaseService`, `TaskLifecycle`, `RecordStore` and `ModelBudget`; proofs of every
   safety property of the passing runs.
2. Two runs of one mission on the command line: two processes, each with its own
   lease table, on one set of stores (`MissionService` has one table).
3. Artifacts with their two files, and evidence whose artifact is gone.
4. The memory repositories, whose objects change before they are saved.
