----------------------------- MODULE LocalSandbox -----------------------------
(***************************************************************************)
(* adapters/sandbox/local.py: execute() runs one command as a child of the *)
(* host process until it is over.  The first communicate() is bounded by   *)
(* wait_for(); on timeout the child is killed and a second communicate()   *)
(* waits for it.  communicate() ends when every holder of the output pipes *)
(* has closed them and the child has ended.  The output is left out.       *)
(*                                                                         *)
(* asyncio, the kernel and the command are external: a child may leave a   *)
(* descendant that holds its pipes, and it may end at any moment.          *)
(***************************************************************************)
EXTENDS Naturals

CONSTANTS
    Callers,     \* agents of the process, each with one call at a time
    MaxFaults    \* bound: cancellations and commands that do not start

ASSUME LocalSandboxAssumption == MaxFaults \in Nat

VARIABLES
    step,       \* where execute() is
    endless,    \* is its timeout infinite?
    child,      \* its child process
    holder,     \* does a descendant of the child hold the output pipes?
    abandoned,  \* commands of cancelled calls that still run
    answer,     \* how the latest call was answered
    faults

sandboxVars == <<step, endless, child, holder, abandoned, answer, faults>>

\* "talking" and "ending" await the first and the second communicate();
\* "starting" and "closing" await the pipes of create_subprocess_exec().
Steps == {"idle", "starting", "talking", "ending", "closing"}
Children == {"none", "running", "killed", "done", "failed"}

\* How a call ends here; tools add endings without a command.
Endings == {"none", "refused", "unstarted", "done", "failed", "timeout",
            "raised", "cancelled"}
ToolEndings == {"denied", "rejected", "crashed"}

SandboxTypeOK ==
    /\ step \in [Callers -> Steps]
    /\ endless \in [Callers -> BOOLEAN]
    /\ child \in [Callers -> Children]
    /\ holder \in [Callers -> BOOLEAN]
    /\ abandoned \in [Callers -> Nat]
    /\ answer \in [Callers -> Endings \cup ToolEndings]
    /\ faults \in Nat

SandboxInit ==
    /\ step = [c \in Callers |-> "idle"]
    /\ endless = [c \in Callers |-> FALSE]
    /\ child = [c \in Callers |-> "none"]
    /\ holder = [c \in Callers |-> FALSE]
    /\ abandoned = [c \in Callers |-> 0]
    /\ answer = [c \in Callers |-> "none"]
    /\ faults = 0

Ended(c) == child[c] \in {"none", "done", "failed"}

\* End of file on the output pipes, and the exit status is known.
Drained_WithoutEof(c) == Ended(c)
Drained(c) == Ended(c) /\ ~holder[c]

Goto(c, s) == step' = [step EXCEPT ![c] = s]
Fault == faults < MaxFaults /\ faults' = faults + 1
Answer(c, how) == answer' = [answer EXCEPT ![c] = how]

\* No command is left of an earlier call but those it abandoned.
Clear(c) ==
    /\ child' = [child EXCEPT ![c] = "none"]
    /\ holder' = [holder EXCEPT ![c] = FALSE]

-------------------------------------------------------------------------------
\* The call ends before there is a process.
EndsBefore(c, how) ==
    /\ Answer(c, how)
    /\ Clear(c)
    /\ UNCHANGED <<step, endless, abandoned>>

Refused(timeout) == timeout = "zero"

\* execute(request), up to the suspension in create_subprocess_exec().  A command
\* with a NUL in it cannot be passed on: a ValueError, which is not caught.
Execute(c, timeout, passable) ==
    \/ Refused(timeout) /\ EndsBefore(c, "refused") /\ UNCHANGED faults
    \/ ~Refused(timeout) /\ ~passable /\ EndsBefore(c, "raised") /\ UNCHANGED faults
    \/ ~Refused(timeout) /\ passable /\ EndsBefore(c, "unstarted") /\ Fault
    \/ /\ ~Refused(timeout) /\ passable
       /\ Goto(c, "starting")
       /\ endless' = [endless EXCEPT ![c] = timeout = "infinite"]
       /\ child' = [child EXCEPT ![c] = "running"]
       /\ holder' = [holder EXCEPT ![c] = FALSE]
       /\ Answer(c, "none")
       /\ UNCHANGED <<abandoned, faults>>

Connect(c) ==
    /\ step[c] = "starting"
    /\ Goto(c, "talking")
    /\ UNCHANGED <<endless, child, holder, abandoned, answer, faults>>

Return(c, how) ==
    /\ Drained(c)
    /\ Goto(c, "idle")
    /\ Answer(c, how)
    /\ UNCHANGED <<endless, child, holder, abandoned, faults>>

Finish(c) ==
    /\ step[c] = "talking"
    /\ Return(c, child[c])

Kill_Not(c) == child[c]
Kill(c) == IF child[c] = "running" THEN "killed" ELSE child[c]

\* TimeoutError: the second communicate() has no timeout.
Expire(c) ==
    /\ step[c] = "talking"
    /\ ~endless[c]
    /\ Goto(c, "ending")
    /\ child' = [child EXCEPT ![c] = Kill(c)]
    /\ UNCHANGED <<endless, holder, abandoned, answer, faults>>

\* The timeout strikes when the command is over and asyncio has dropped the
\* process, but communicate() has not been resumed: kill() raises.
ExpireLate(c) ==
    /\ step[c] = "talking"
    /\ ~endless[c]
    /\ Return(c, "raised")

FinishKilled(c) ==
    /\ step[c] = "ending"
    /\ Return(c, "timeout")

\* A call cancelled in create_subprocess_exec() kills the child and waits.
CancelStart(c) ==
    /\ step[c] = "starting"
    /\ Fault
    /\ Goto(c, "closing")
    /\ child' = [child EXCEPT ![c] = Kill(c)]
    /\ UNCHANGED <<endless, holder, abandoned, answer>>

\* What still runs of the command runs on without a call.
Abandon(c) ==
    /\ Answer(c, "cancelled")
    /\ abandoned' = [abandoned EXCEPT ![c] = IF Drained(c) THEN @ ELSE @ + 1]
    /\ Clear(c)
    /\ UNCHANGED endless

\* Its pipes are closed on this side: only the child is waited for.
Closed(c) ==
    /\ step[c] = "closing"
    /\ Ended(c)
    /\ Goto(c, "idle")
    /\ Abandon(c)
    /\ UNCHANGED faults

\* A call cancelled in communicate() leaves its command to itself.
Cancel(c) ==
    /\ step[c] \in {"talking", "ending"}
    /\ Fault
    /\ Goto(c, "idle")
    /\ Abandon(c)

SandboxStep(c) ==
    \/ Connect(c) \/ Finish(c) \/ Expire(c) \/ ExpireLate(c)
    \/ FinishKilled(c) \/ CancelStart(c) \/ Closed(c) \/ Cancel(c)

-------------------------------------------------------------------------------
\* The command: forks, ends.
Fork(c) ==
    /\ child[c] = "running"
    /\ holder' = [holder EXCEPT ![c] = TRUE]
    /\ UNCHANGED <<step, endless, child, abandoned, answer, faults>>

LetGo(c) ==
    /\ holder[c]
    /\ holder' = [holder EXCEPT ![c] = FALSE]
    /\ UNCHANGED <<step, endless, child, abandoned, answer, faults>>

Exit(c) ==
    /\ child[c] = "running"
    /\ \E s \in {"done", "failed"} : child' = [child EXCEPT ![c] = s]
    /\ UNCHANGED <<step, endless, holder, abandoned, answer, faults>>

Die(c) ==
    /\ child[c] = "killed"
    /\ child' = [child EXCEPT ![c] = "failed"]
    /\ UNCHANGED <<step, endless, holder, abandoned, answer, faults>>

EndAbandoned(c) ==
    /\ abandoned[c] > 0
    /\ abandoned' = [abandoned EXCEPT ![c] = @ - 1]
    /\ UNCHANGED <<step, endless, child, holder, answer, faults>>

CommandStep(c) ==
    \/ Fork(c) \/ LetGo(c) \/ Exit(c) \/ Die(c) \/ EndAbandoned(c)

\* The event loop runs what is ready, timers fire, and a killed child dies;
\* nothing makes a command end or a descendant let go.
SandboxFairness ==
    \A c \in Callers :
        /\ WF_sandboxVars(Connect(c)) /\ WF_sandboxVars(Finish(c))
        /\ WF_sandboxVars(Expire(c)) /\ WF_sandboxVars(FinishKilled(c))
        /\ WF_sandboxVars(Closed(c)) /\ WF_sandboxVars(Die(c))
===============================================================================
