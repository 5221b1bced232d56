---------------------------- MODULE RuntimeBundle ----------------------------
(***************************************************************************)
(* The life of what application/composition.py builds: tools resolved in   *)
(* the registry and executed in the sandbox, MCP managers that list their  *)
(* server's tools in the sandbox, and RuntimeBundle.close, which the       *)
(* commands call when they end.  Callers are tasks of one event loop.      *)
(***************************************************************************)
EXTENDS DockerSandbox, CapabilityRegistry

VARIABLES
    job,     \* what a caller is there for
    bundle,  \* "open", "closing", "closed"
    clean    \* history: at close() no call was in flight, no manager serving,
             \* and no manager was started since

vars == <<sandboxVars, registryVars, job, bundle, clean>>

Jobs == [kind : {"none", "call", "close"}, manager : {NoOne}]
            \cup [kind : {"start"}, manager : Managers]
NoJob == [kind |-> "none", manager |-> NoOne]

TypeOK ==
    /\ SandboxTypeOK /\ RegistryTypeOK
    /\ at \in [Callers -> SandboxSteps \cup {"idle"}]
    /\ job \in [Callers -> Jobs]
    /\ bundle \in {"open", "closing", "closed"}
    /\ clean \in BOOLEAN

Init ==
    /\ SandboxInit /\ RegistryInit
    /\ at = [c \in Callers |-> "idle"]
    /\ job = [c \in Callers |-> NoJob]
    /\ bundle = "open"
    /\ clean = TRUE

Begin(c, kind, m) ==
    /\ at[c] = "idle"
    /\ job' = [job EXCEPT ![c] = [kind |-> kind, manager |-> m]]

Over(c) ==
    /\ Goto(c, "idle")
    /\ job' = [job EXCEPT ![c] = NoJob]

-------------------------------------------------------------------------------
\* dispatch: the capability resolves, the tool asks the sandbox.
BeginCall(c, x) ==
    /\ Resolves(x)
    /\ Begin(c, "call", NoOne)
    /\ Goto(c, "entering")
    /\ UNCHANGED <<flags, daemon, cut, faults, registryVars, bundle, clean>>

\* McpServerManager.start: not _started; the server is asked for its tools.  The
\* manager does not know of the bundle and may be started when that is closed.
BeginStart(c, m) ==
    /\ m \notin serving
    /\ Begin(c, "start", m)
    /\ Goto(c, "entering")
    /\ overlapped' = IF \E d \in Callers : job[d].manager = m
                     THEN overlapped \cup {m} ELSE overlapped
    /\ clean' = (clean /\ bundle = "open")
    /\ UNCHANGED <<flags, daemon, cut, faults>>
    /\ UNCHANGED <<tools, disposers, serving, answered, bundle>>

\* McpServerManager.stop
Stop(m) ==
    /\ Dispose(m)
    /\ UNCHANGED <<sandboxVars, job, bundle, clean>>

\* The tool has its result, or the manager its list, of whatever quality.
Finish(c) ==
    /\ Executed(c)
    /\ Over(c)
    /\ IF job[c].kind = "start"
       THEN LET m == job[c].manager IN
            \/ \E listed \in SUBSET Offers[m] : Register(m, listed)
            \/ RegisterFails(m)
            \/ UNCHANGED registryVars
       ELSE UNCHANGED registryVars
    /\ UNCHANGED <<bundle, clean>>

\* The sandbox could not be started: tool call or start of the manager raise.
Raise(c) ==
    /\ StartFails(c)
    /\ Over(c)
    /\ UNCHANGED <<registryVars, bundle, clean>>

-------------------------------------------------------------------------------
\* RuntimeBundle.close: plugins are stopped, then the sandbox is closed.
Close(c) ==
    /\ bundle = "open"
    /\ Begin(c, "close", NoOne)
    /\ Goto(c, "closing")
    /\ StopAll
    /\ bundle' = "closing"
    /\ clean' = (serving = {} /\ \A d \in Callers \ {c} : at[d] = "idle")
    /\ UNCHANGED <<flags, daemon, cut, faults>>

CloseReturns(c) ==
    /\ NothingToRemove(c) \/ Removed(c)
    /\ Over(c)
    /\ bundle' = "closed"
    /\ UNCHANGED <<registryVars, clean>>

\* The removal raises out of RuntimeBundle.close.
CloseRaises(c) ==
    /\ RemovalRaises(c)
    /\ Over(c)
    /\ UNCHANGED <<registryVars, bundle, clean>>

\* A caller is cancelled.
Cancel(c) ==
    /\ at[c] # "idle"
    /\ Interrupt(c)
    /\ Over(c)
    /\ UNCHANGED <<registryVars, bundle, clean>>

-------------------------------------------------------------------------------
Sandbox(c) ==
    /\ Inspected(c) \/ NetworkCreated(c) \/ ContainerStarted(c)
    /\ UNCHANGED <<registryVars, job, bundle, clean>>

Locking(c) ==
    /\ Enter(c) \/ BeginRemove(c)
    /\ UNCHANGED <<registryVars, job, bundle, clean>>

Daemon ==
    /\ (\E x \in {"run", "rm"} : Land(x)) \/ NetworkAppears
    /\ UNCHANGED <<registryVars, job, bundle, clean>>

Next ==
    \/ \E c \in Callers :
          \/ \E x \in Capabilities : BeginCall(c, x)
          \/ \E m \in Managers : BeginStart(c, m)
          \/ Locking(c) \/ Sandbox(c) \/ Finish(c) \/ Raise(c)
          \/ Close(c) \/ CloseReturns(c) \/ CloseRaises(c) \/ Cancel(c)
    \/ \E m \in Managers : Stop(m)
    \/ Daemon

Spec == Init /\ [][Next]_vars

\* Every CLI command has a timeout; asyncio.Lock serves its waiters in turn.
Fairness ==
    \A c \in Callers :
        /\ WF_vars(Sandbox(c) \/ Finish(c) \/ Raise(c))
        /\ SF_vars(Locking(c)) /\ SF_vars(CloseReturns(c))

FairSpec == Spec /\ Fairness

-------------------------------------------------------------------------------
\* After close() no core tool can be called, whatever else goes on.  A runtime
\* closed with no call in flight and no manager serving stays closed until a
\* manager is started: nothing can be called in it any more, so nothing starts a
\* container again, and none is left unless a command's outcome was never learnt.
ClosedForGood ==
    bundle = "closed" =>
        /\ \A x \in CoreTools : ~Resolves(x)
        /\ clean => /\ \A x \in Capabilities : ~Resolves(x)
                    /\ cut = {} => ~container

\* Every tool call, start and close ends: the lock is left on every path.
CallsEnd == \A c \in Callers : at[c] # "idle" ~> at[c] = "idle"
===============================================================================
