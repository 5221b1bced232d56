----------------------------- MODULE DockerSandbox -----------------------------
(***************************************************************************)
(* adapters/sandbox/docker.py on the Docker CLI (subprocess_transport.py): *)
(* execute() starts the sandbox's one container when it is not started,    *)
(* close() removes it, both inside one asyncio.Lock.                       *)
(*                                                                         *)
(* A step is the answer to one CLI command.  A command that times out has  *)
(* its CLI killed, one whose caller is cancelled keeps its CLI: either     *)
(* way the daemon may carry it out, at once or later.  The daemon, which   *)
(* other programs use too, is modelled by its answers.                     *)
(*                                                                         *)
(* The callers are the tasks of one process; RuntimeBundle says what they  *)
(* call for and where they go on.  at is the one program counter of each.  *)
(***************************************************************************)
EXTENDS Naturals

CONSTANTS
    Callers, NoCaller,
    MaxFaults      \* bound: failing or timed-out commands, and cancellations

ASSUME SandboxAssumption == NoCaller \notin Callers /\ MaxFaults \in Nat

VARIABLES
    at,         \* where each caller is
    started,    \* _started
    lock,       \* the caller inside `async with self._lock`
    \* the daemon
    container,  \* is there a container of this sandbox's name?
    network,    \* the configured network: "absent", "internal", "open"
    late,       \* commands without a waiting caller, still to be carried out
    \* history and bounds
    cut,        \* commands whose outcome the sandbox did not learn
    faults

flags == <<started, lock>>
daemon == <<container, network, late>>
sandboxVars == <<at, flags, daemon, cut, faults>>

Starting == {"inspecting", "creating", "starting"}
InLock == Starting \cup {"removing"}
SandboxSteps == {"entering", "executing", "closing"} \cup InLock

SandboxTypeOK ==
    /\ started \in BOOLEAN
    /\ lock \in Callers \cup {NoCaller}
    /\ container \in BOOLEAN
    /\ network \in {"absent", "internal", "open"}
    /\ late \in [{"run", "rm"} -> Nat]
    /\ cut \subseteq {"run", "rm", "close"}
    /\ faults \in Nat

SandboxInit ==
    /\ started = FALSE
    /\ lock = NoCaller
    /\ container = FALSE
    /\ network \in {"absent", "internal", "open"}
    /\ late = [x \in {"run", "rm"} |-> 0]
    /\ cut = {}
    /\ faults = 0

Goto(c, p) == at' = [at EXCEPT ![c] = p]
Fault == faults < MaxFaults /\ faults' = faults + 1

-------------------------------------------------------------------------------
\* What becomes of a command nobody waits for any more.
After(cmd) == IF cmd = "run" THEN TRUE ELSE FALSE

Abandon(cmd) ==
    \/ UNCHANGED <<container, late>>
    \/ container' = After(cmd) /\ UNCHANGED late
    \/ late' = [late EXCEPT ![cmd] = @ + 1] /\ UNCHANGED container

Land(cmd) ==
    /\ late[cmd] > 0
    /\ late' = [late EXCEPT ![cmd] = @ - 1]
    /\ container' = After(cmd)
    /\ UNCHANGED <<at, flags, network, cut, faults>>

\* Another program creates the network.
NetworkAppears ==
    /\ network = "absent"
    /\ network' \in {"internal", "open"}
    /\ UNCHANGED <<at, flags, container, late, cut, faults>>

-------------------------------------------------------------------------------
\* _ensure_started: the lock is free.
Enter(c) ==
    /\ at[c] = "entering"
    /\ lock = NoCaller
    /\ \/ started /\ Goto(c, "executing") /\ UNCHANGED lock
       \/ ~started /\ Goto(c, "inspecting") /\ lock' = c
    /\ UNCHANGED <<started, daemon, cut, faults>>

NetworkFits_Any == network # "absent"
NetworkFits == network = "internal"

\* docker network inspect finds an internal network, or fails.
Inspected(c) ==
    /\ at[c] = "inspecting"
    /\ \/ NetworkFits /\ Goto(c, "starting") /\ UNCHANGED faults
       \/ network = "absent" /\ Goto(c, "creating") /\ UNCHANGED faults
       \/ Fault /\ Goto(c, "creating")
    /\ UNCHANGED <<flags, daemon, cut>>

\* docker network create --internal
NetworkCreated(c) ==
    /\ at[c] = "creating"
    /\ network = "absent"
    /\ network' = "internal"
    /\ Goto(c, "starting")
    /\ UNCHANGED <<flags, container, late, cut, faults>>

\* docker run --detach --name
ContainerStarted(c) ==
    /\ at[c] = "starting"
    /\ ~container
    /\ container' = TRUE
    /\ started' = TRUE
    /\ lock' = NoCaller
    /\ Goto(c, "executing")
    /\ UNCHANGED <<network, late, cut, faults>>

LockAfterFailure_Kept == lock
LockAfterFailure == NoCaller

\* _ensure_started raises: a network that is not internal or that others have
\* created, a name in use, a command that fails, or a command that times out when
\* its CLI is over and asyncio has dropped the process, so that kill() raises.
StartFails(c) ==
    /\ \/ /\ at[c] = "inspecting" /\ network = "open"
          /\ UNCHANGED <<daemon, cut, faults>>
       \/ /\ at[c] = "inspecting" /\ Fault
          /\ UNCHANGED <<daemon, cut>>
       \/ /\ at[c] = "creating" /\ network # "absent"
          /\ UNCHANGED <<daemon, cut, faults>>
       \/ /\ at[c] = "creating" /\ network = "absent" /\ Fault
          /\ network' \in {"absent", "internal"}
          /\ UNCHANGED <<container, late, cut>>
       \/ /\ at[c] = "starting" /\ container
          /\ UNCHANGED <<daemon, cut, faults>>
       \/ /\ at[c] = "starting" /\ ~container /\ Fault
          /\ Abandon("run")
          /\ cut' = cut \cup {"run"}
          /\ UNCHANGED network
    /\ lock' = LockAfterFailure
    /\ UNCHANGED started

\* docker exec has answered: the result goes to the caller.
Executed(c) ==
    /\ at[c] = "executing"
    /\ UNCHANGED <<flags, daemon, cut, faults>>

-------------------------------------------------------------------------------
\* close(): the lock is free and there is a container to remove, or not.
BeginRemove(c) ==
    /\ at[c] = "closing"
    /\ lock = NoCaller
    /\ started
    /\ lock' = c
    /\ Goto(c, "removing")
    /\ UNCHANGED <<started, daemon, cut, faults>>

NothingToRemove(c) ==
    /\ at[c] = "closing"
    /\ lock = NoCaller
    /\ ~started
    /\ UNCHANGED <<flags, daemon, cut, faults>>

AfterRemoval_Kept == started
AfterRemoval == FALSE

\* docker rm --force has answered; a failure is not looked at.
Removed(c) ==
    /\ at[c] = "removing"
    /\ \/ container' = FALSE /\ UNCHANGED <<late, cut, faults>>
       \/ Fault /\ Abandon("rm") /\ cut' = cut \cup {"rm"}
    /\ started' = AfterRemoval
    /\ lock' = NoCaller
    /\ UNCHANGED network

\* close() raises: docker rm times out when its CLI is over, and kill() raises.
RemovalRaises(c) ==
    /\ at[c] = "removing"
    /\ Fault
    /\ container' \in {container, FALSE}
    /\ cut' = cut \cup {"close"}
    /\ lock' = NoCaller
    /\ UNCHANGED <<started, network, late>>

\* A caller is cancelled at c's step; its CLI goes on.
Interrupt(c) ==
    /\ Fault
    /\ lock' = IF lock = c THEN NoCaller ELSE lock
    /\ IF at[c] = "creating" /\ network = "absent"
       THEN network' \in {"absent", "internal"} ELSE UNCHANGED network
    /\ \/ at[c] = "starting" /\ Abandon("run") /\ cut' = cut \cup {"run"}
       \/ at[c] = "removing" /\ Abandon("rm") /\ cut' = cut \cup {"close"}
       \/ at[c] \notin {"starting", "removing"} /\ UNCHANGED <<container, late, cut>>
    /\ UNCHANGED started

-------------------------------------------------------------------------------
\* What _started says of the container is true: it stays up until a close()
\* removes it, unless a close() was cancelled or raised in its removal; and a
\* container that is up is one that close() would remove, unless the outcome of
\* a start or a removal was never learnt.
StartedTellsTruth ==
    /\ started /\ "close" \notin cut => container
    /\ container /\ lock = NoCaller /\ cut = {} => started

\* Fail closed: no container runs in a network that reaches outside, whoever
\* else creates networks meanwhile and whichever command fails.
OnlyInternal == container => network = "internal"
===============================================================================
