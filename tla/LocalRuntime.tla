----------------------------- MODULE LocalRuntime -----------------------------
(***************************************************************************)
(* application/cli/main.py in local mode: a command loads and validates    *)
(* its configuration, builds model and runtime and lets agents call tools; *)
(* RuntimeBundle.close() ends it.  Commands follow one another on a host   *)
(* where commands of earlier tool calls may still run.                     *)
(*                                                                         *)
(* Agents and missions are AgentLoop and MissionService, the Docker        *)
(* sandbox is RuntimeBundle.                                               *)
(***************************************************************************)
EXTENDS BuiltinTools, AppConfig

VARIABLES
    phase,   \* of the process: "stopped", "serving"
    sandbox, \* the sandbox of its runtime: "local", "docker"
    unsafe   \* XHUNTER_ALLOW_UNSAFE_LOCAL_SANDBOX=1 in its environment

vars == <<toolVars, phase, sandbox, unsafe>>

Commands == {"doctor", "run-agent", "run-ctf", "resume-ctf", "status", "recover-task"}
WithRuntime == {"run-agent", "run-ctf", "resume-ctf"}

TypeOK ==
    /\ ToolTypeOK
    /\ phase \in {"stopped", "serving"}
    /\ sandbox \in {"local", "docker"}
    /\ unsafe \in BOOLEAN

Init ==
    /\ ToolInit
    /\ phase = "stopped"
    /\ sandbox = "local"
    /\ unsafe = FALSE

-------------------------------------------------------------------------------
\* How far main() gets with a command on what it has loaded: where it stops, or
\* that it reports, or that agents run.
Reaches(command, g, environment) ==
    IF ~Valid(g) THEN "validate"
    ELSE IF command = "doctor" THEN "report"
    ELSE IF command \notin WithRuntime
         THEN IF HasFileControlPlane(g) THEN "report" ELSE "control plane"
    ELSE IF ~BuildsModel(g) THEN "model"
    ELSE IF ~BuildsRuntime(g, environment) THEN "runtime"
    ELSE "agents"

Launches ==
    {[reached |-> IF Loads(s) THEN Reaches(command, Config(s), u) ELSE "load", sandbox |-> Config(s).sandbox, unsafe |-> u] :
        command \in Commands, s \in Sources, u \in BOOLEAN}

\* A process is started; it ends at once unless agents run.
Launch ==
    /\ phase = "stopped"
    /\ \E l \in Launches :
          /\ unsafe' = l.unsafe
          /\ IF l.reached = "agents"
             THEN phase' = "serving" /\ sandbox' = l.sandbox
             ELSE UNCHANGED <<phase, sandbox>>
    /\ UNCHANGED toolVars

\* The agents are done: close() disposes tools and closes the sandbox, which
\* for a LocalSandbox does nothing.
Close ==
    /\ phase = "serving"
    /\ \A c \in Callers : step[c] = "idle"
    /\ phase' = "stopped"
    /\ answer' = [c \in Callers |-> "none"]
    /\ child' = [c \in Callers |-> "none"]
    /\ call' = [c \in Callers |-> NoCall]
    /\ UNCHANGED <<step, endless, holder, abandoned, faults, sandbox, unsafe>>

\* The process is killed; its commands are not.
Crash ==
    /\ phase = "serving"
    /\ Fault
    /\ phase' = "stopped"
    /\ step' = [c \in Callers |-> "idle"]
    /\ abandoned' = [c \in Callers |-> IF Drained(c) THEN abandoned[c] ELSE abandoned[c] + 1]
    /\ answer' = [c \in Callers |-> "none"]
    /\ child' = [c \in Callers |-> "none"]
    /\ holder' = [c \in Callers |-> FALSE]
    /\ call' = [c \in Callers |-> NoCall]
    /\ UNCHANGED <<endless, sandbox, unsafe>>

Next ==
    \/ Launch \/ Close \/ Crash
    \/ \E c \in Callers :
          /\ phase = "serving" /\ sandbox = "local"
          /\ ToolStep(c)
          /\ UNCHANGED <<phase, sandbox, unsafe>>
    \/ \E c \in Callers :
          /\ phase = "stopped"
          /\ EndAbandoned(c)
          /\ UNCHANGED <<call, phase, sandbox, unsafe>>

Spec == Init /\ [][Next]_vars
FairSpec == Spec /\ SandboxFairness

\* Tools run commands on the host only when the environment of the process
\* acknowledges it: "bootstrap fails closed", whatever file and environment say.
HostRunsAreAcknowledged ==
    (\E c \in Callers : child[c] # "none") => sandbox = "local" /\ unsafe

\* A command refuses a configuration that `doctor` accepts only for something that
\* validate_config does not look at: for agents the model's key, name and url, the
\* scope entries, Docker's network and workspace, and the acknowledgement of local
\* mode; for status and recover-task stores that are in memory.
Unforeseen ==
    {c \in [command : Commands, config : Configs, unsafe : BOOLEAN] :
        LET g == c.config IN
        /\ Reaches("doctor", g, c.unsafe) = "report"
        /\ Reaches(c.command, g, c.unsafe) \notin {"report", "agents"}
        /\ IF c.command \in WithRuntime
           THEN /\ "empty" \notin {g.api_key, g.model} /\ g.base_url = "http"
                /\ g.targets = "good"
                /\ g.sandbox = "docker" => g.network = "named"
                /\ g.sandbox = "local" => c.unsafe
           ELSE "memory" \notin {g.storage, g.checkpoint}}
DoctorPredicts == Unforeseen = {}
===============================================================================
