-------------------------- MODULE LocalRuntimeProofs --------------------------
(***************************************************************************)
(* Theorems about LocalRuntime, for every number of callers, every output  *)
(* and number of faults, every combination of arguments and every table    *)
(* of settings: what a call that has answered leaves behind, what its      *)
(* answer says, what it may have contacted, when commands run at all, and  *)
(* that the two checks made of the same thing agree: schema and tool,      *)
(* doctor and builders.                                                    *)
(***************************************************************************)
EXTENDS LocalRuntime, TLAPS

(* Typing.                                                                 *)

Quiet(c) == child[c] = "none" /\ ~holder[c]

LEMMA SentUrl ==
  ASSUME NEW t \in Network, NEW a, Outcome(t, a) = "sent"
  PROVE  a.url \in Urls \cup Unpassable \cup {"blank"}
<1>1. 1 \in DOMAIN Checks[t] /\ Checks[t][1] = Url
  BY DEF Network, Checks, HttpChecks, BrowserChecks
<1>2. Seen(a, Checks[t][1].arg) \in Checks[t][1].passes
  <2> DEFINE stops == {i \in DOMAIN Checks[t] : Seen(a, Checks[t][i].arg) \notin Checks[t][i].passes}
  <2>1. stops = {}
    BY DEF Outcome
  <2> QED BY <1>1, <2>1
<1> QED BY <1>1, <1>2 DEF Url, Check, Seen

\* A call that is not sent ends in one of the ways the answer knows.
LEMMA EndingOf ==
  ASSUME NEW t \in Tools, NEW a
  PROVE  EndsHow(t, a) \in {"sent", "denied", "rejected", "crashed", "raised"}
BY DEF EndsHow, Judged, Outcome

\* What a network tool is given was admitted or has no host.
Admitted == {"", "inside", "twofold", "nul", "surrogate", "blank"}
LEMMA AdmittedUrl ==
  ASSUME NEW t \in Network, NEW a, EndsHow(t, a) = "sent"
  PROVE  a.url \in Admitted
<1>1. Judged(t, a) = "admitted" /\ Outcome(t, a) = "sent"
  BY DEF EndsHow, Judged
<1>2. PolicyReads(Wanted(a)) = "inside"
  BY <1>1 DEF Judged
<1>3. Wanted(a) \in {"inside", "twofold", "nul", "surrogate"}
  BY <1>2 DEF PolicyReads, Unpassable
<1> QED BY <1>1, <1>3, SentUrl DEF Wanted, Urls, Unpassable, Admitted

LEMMA CallTyping ==
  ASSUME TypeOK, NEW c \in Callers, CallTool(c)
  PROVE  call' \in [Callers -> CallType]
<1>1. PICK t, a :
        /\ t \in Tools
        /\ call' = [call EXCEPT ![c] =
                    [url       |-> IF EndsHow(t, a) = "sent" /\ t \in Network THEN a.url ELSE "",
                     fits      |-> HowFits(t, a),
                     encodable |-> Encodable(t, a)]]
  BY DEF CallTool
<1>2. (IF EndsHow(t, a) = "sent" /\ t \in Network THEN a.url ELSE "") \in Strings \cup {""}
  BY AdmittedUrl DEF Strings, Urls, Texts, Unpassable, Admitted
<1>3. HowFits(t, a) \in {"strictly", "loosely", "no"} /\ Encodable(t, a) \in BOOLEAN
  BY DEF HowFits, Encodable
<1>4. [url       |-> IF EndsHow(t, a) = "sent" /\ t \in Network THEN a.url ELSE "",
       fits      |-> HowFits(t, a),
       encodable |-> Encodable(t, a)] \in CallType
  BY <1>2, <1>3 DEF CallType
<1> HIDE DEF CallType
<1> QED BY <1>1, <1>4 DEF TypeOK, ToolTypeOK

LEMMA AnswerTyping ==
  ASSUME SandboxTypeOK, NEW c \in Callers, NEW how \in Endings \cup ToolEndings, Answer(c, how)
  PROVE  answer' \in [Callers -> Endings \cup ToolEndings]
BY DEF Answer, SandboxTypeOK

LEMMA ClearTyping ==
  ASSUME SandboxTypeOK, NEW c \in Callers, Clear(c)
  PROVE  child' \in [Callers -> Children] /\ holder' \in [Callers -> BOOLEAN]
BY DEF Clear, SandboxTypeOK, Children

LEMMA EndsBeforeTyping ==
  ASSUME SandboxTypeOK, NEW c \in Callers, NEW how \in Endings \cup ToolEndings,
         EndsBefore(c, how), faults' \in Nat
  PROVE  SandboxTypeOK'
<1>1. answer' \in [Callers -> Endings \cup ToolEndings]
  BY AnswerTyping DEF EndsBefore
<1> QED BY <1>1, ClearTyping DEF EndsBefore, SandboxTypeOK

LEMMA FaultTyping == SandboxTypeOK /\ (Fault \/ UNCHANGED faults) => faults' \in Nat
BY DEF SandboxTypeOK, Fault

LEMMA ExecuteTyping ==
  ASSUME SandboxTypeOK, NEW c \in Callers, NEW timeout, NEW passable,
         Execute(c, timeout, passable)
  PROVE  SandboxTypeOK'
<1>1. faults' \in Nat
  BY FaultTyping DEF Execute
<1>2. CASE \E how \in {"refused", "raised", "unstarted"} : EndsBefore(c, how)
  BY <1>1, <1>2, EndsBeforeTyping DEF Endings
<1>3. CASE ~ \E how \in {"refused", "raised", "unstarted"} : EndsBefore(c, how)
  <2>1. Goto(c, "starting") /\ Answer(c, "none")
    BY <1>3 DEF Execute
  <2>2. answer' \in [Callers -> Endings \cup ToolEndings]
    BY <2>1, AnswerTyping DEF Endings
  <2>3. step' \in [Callers -> Steps] /\ child' \in [Callers -> Children]
    BY <1>3, <2>1 DEF Execute, Goto, Steps, Children, SandboxTypeOK
  <2>4. endless' \in [Callers -> BOOLEAN] /\ holder' \in [Callers -> BOOLEAN]
    BY <1>3 DEF Execute, SandboxTypeOK
  <2>5. abandoned' \in [Callers -> Nat]
    BY <1>3 DEF Execute, SandboxTypeOK
  <2> QED BY <1>1, <2>2, <2>3, <2>4, <2>5 DEF SandboxTypeOK
<1> QED BY <1>2, <1>3

LEMMA SandboxTyping ==
  ASSUME SandboxTypeOK, NEW c \in Callers, SandboxStep(c) \/ CommandStep(c)
  PROVE  SandboxTypeOK'
<1>1. CASE Connect(c) \/ Expire(c) \/ CancelStart(c)
  <2>1. step' \in [Callers -> Steps] /\ child' \in [Callers -> Children]
    BY <1>1 DEF Connect, Expire, CancelStart, Kill, Goto, SandboxTypeOK, Steps, Children
  <2>2. faults' \in Nat
    BY <1>1, FaultTyping DEF Connect, Expire, CancelStart, SandboxTypeOK
  <2> QED BY <1>1, <2>1, <2>2 DEF Connect, Expire, CancelStart, SandboxTypeOK
<1>2. CASE Finish(c) \/ ExpireLate(c) \/ FinishKilled(c)
  <2>1. PICK how \in {"done", "failed", "none", "raised", "timeout"} : Return(c, how)
    BY <1>2 DEF Finish, ExpireLate, FinishKilled, Return, Drained, Ended
  <2>2. answer' \in [Callers -> Endings \cup ToolEndings]
    BY <2>1, AnswerTyping DEF Return, SandboxTypeOK, Endings
  <2>3. step' \in [Callers -> Steps]
    BY <2>1 DEF Return, Goto, SandboxTypeOK, Steps
  <2> QED BY <2>1, <2>2, <2>3 DEF Return, SandboxTypeOK
<1>3. CASE Closed(c) \/ Cancel(c)
  <2>1. Abandon(c) /\ Goto(c, "idle") /\ (Fault \/ UNCHANGED faults)
    BY <1>3 DEF Closed, Cancel
  <2>2. answer' \in [Callers -> Endings \cup ToolEndings]
    BY <2>1, AnswerTyping DEF Abandon, Endings
  <2>3. abandoned' \in [Callers -> Nat] /\ step' \in [Callers -> Steps]
    BY <2>1 DEF Abandon, Goto, SandboxTypeOK, Steps
  <2> QED BY <2>1, <2>2, <2>3, ClearTyping, FaultTyping DEF Abandon, SandboxTypeOK
<1>4. CASE CommandStep(c)
  <2>0. abandoned[c] > 0 => abandoned[c] - 1 \in Nat
    BY DEF SandboxTypeOK
  <2>1. abandoned' \in [Callers -> Nat]
    BY <1>4, <2>0 DEF CommandStep, Fork, LetGo, Exit, Die, EndAbandoned, SandboxTypeOK
  <2>2. child' \in [Callers -> Children] /\ holder' \in [Callers -> BOOLEAN]
    BY <1>4 DEF CommandStep, Fork, LetGo, Exit, Die, EndAbandoned, SandboxTypeOK, Children
  <2> QED BY <1>4, <2>1, <2>2 DEF CommandStep, Fork, LetGo, Exit, Die, EndAbandoned, SandboxTypeOK
<1> QED BY <1>1, <1>2, <1>3, <1>4 DEF SandboxStep

LEMMA LaunchTyping ==
  ASSUME TypeOK, Launch
  PROVE  TypeOK'
<1>1. PICK l \in Launches :
        /\ unsafe' = l.unsafe
        /\ (l.reached = "agents" /\ sandbox' = l.sandbox) \/ sandbox' = sandbox
  BY DEF Launch
<1>2. PICK command \in Commands, s \in Sources, u \in BOOLEAN :
        l.reached = (IF Loads(s) THEN Reaches(command, Config(s), u) ELSE "load") /\ l.sandbox = Config(s).sandbox /\ l.unsafe = u
  BY SMT DEF Launches
<1>3. l.reached = "agents" => l.sandbox \in {"local", "docker"}
  BY <1>2 DEF Reaches, BuildsRuntime, BuildsSandbox
<1>4. unsafe' \in BOOLEAN
  BY <1>1, <1>2, Zenon
<1>5. sandbox' \in {"local", "docker"}
  BY <1>1, <1>3 DEF TypeOK
<1>6. phase' \in {"stopped", "serving"} /\ UNCHANGED toolVars
  BY DEF Launch, TypeOK
<1> QED BY <1>4, <1>5, <1>6 DEF TypeOK, ToolTypeOK, toolVars, sandboxVars, SandboxTypeOK

LEMMA CrashTyping ==
  ASSUME TypeOK, Crash
  PROVE  TypeOK'
<1> USE DEF TypeOK, ToolTypeOK
<1>1. faults' \in Nat
  BY FaultTyping DEF Crash
<1>2. abandoned' \in [Callers -> Nat]
  <2>1. abandoned \in [Callers -> Nat]
    BY DEF SandboxTypeOK
  <2> HIDE DEF TypeOK, ToolTypeOK
  <2>2. \A d \in Callers : abandoned[d] + 1 \in Nat
    BY <2>1
  <2> QED BY <2>1, <2>2 DEF Crash
<1> QED BY <1>1, <1>2 DEF Crash, NoCall, CallType, SandboxTypeOK, Endings, Children, Steps, Strings

LEMMA CallToolTyping ==
  ASSUME TypeOK, NEW c \in Callers, CallTool(c), UNCHANGED <<phase, sandbox, unsafe>>
  PROVE  TypeOK'
<1>1. call' \in [Callers -> CallType]
  BY CallTyping
<1>2. PICK t, a :
        /\ t \in Tools
        /\ \/ EndsHow(t, a) # "sent" /\ EndsBefore(c, EndsHow(t, a)) /\ UNCHANGED faults
           \/ Execute(c, TimeoutOf(a), Passable(t, a))
  BY DEF CallTool
<1>3. CASE EndsHow(t, a) # "sent" /\ EndsBefore(c, EndsHow(t, a)) /\ UNCHANGED faults
  <2>1. EndsHow(t, a) \in Endings \cup ToolEndings
    BY <1>2, <1>3, EndingOf DEF Endings, ToolEndings
  <2> QED BY <1>1, <1>3, <2>1, FaultTyping, EndsBeforeTyping DEF TypeOK, ToolTypeOK
<1>4. CASE Execute(c, TimeoutOf(a), Passable(t, a))
  BY <1>1, <1>4, ExecuteTyping DEF TypeOK, ToolTypeOK
<1> QED BY <1>2, <1>3, <1>4

LEMMA TypingStep == TypeOK /\ [Next]_vars => TypeOK'
<1> SUFFICES ASSUME TypeOK, [Next]_vars PROVE TypeOK'
  OBVIOUS
<1>1. CASE Close
  BY <1>1 DEF Close, NoCall, CallType, TypeOK, ToolTypeOK, SandboxTypeOK, Endings, Children, Strings
<1>2. ASSUME NEW c \in Callers, SandboxStep(c) \/ CommandStep(c),
             UNCHANGED <<call, phase, sandbox, unsafe>>
      PROVE  TypeOK'
  BY <1>2, SandboxTyping DEF TypeOK, ToolTypeOK
<1>3. CASE UNCHANGED vars
  BY <1>3 DEF vars, toolVars, sandboxVars, TypeOK, ToolTypeOK, SandboxTypeOK
<1> QED BY <1>1, <1>2, <1>3, LaunchTyping, CrashTyping, CallToolTyping DEF Next, ToolStep, CommandStep

\* Every variable of process, tools and sandbox keeps its type.
THEOREM Typing == Spec => []TypeOK
<1>1. Init => TypeOK
  <2> SUFFICES ASSUME Init PROVE TypeOK
    OBVIOUS
  <2>1. SandboxTypeOK
    BY DEF Init, ToolInit, SandboxInit, SandboxTypeOK, Steps, Children, Endings
  <2>2. call \in [Callers -> CallType]
    BY DEF Init, ToolInit, NoCall, CallType
  <2> QED BY <2>1, <2>2 DEF Init, TypeOK, ToolTypeOK
<1> QED BY <1>1, TypingStep, PTL DEF Spec

-------------------------------------------------------------------------------
(* What an answered call leaves.  That nothing of its command runs is what    *)
(* makes the output it was answered with final: Emit needs someone alive.     *)

CallAt(c) ==
    /\ step[c] = "idle" => Ended(c) /\ ~holder[c]
    /\ call[c].url \in Admitted

CallsInv == \A c \in Callers : CallAt(c)

\* The caller d does not notice.
SameCall(d) ==
    /\ step'[d] = step[d] /\ child'[d] = child[d] /\ holder'[d] = holder[d]
    /\ answer'[d] = answer[d] /\ call'[d] = call[d]

LEMMA SameKeeps ==
  ASSUME NEW d \in Callers, CallAt(d), SameCall(d)
  PROVE  CallAt(d)'
BY DEF CallAt, SameCall, Ended

LEMMA Nothing == NoCall.url = "" /\ NoCall.fits = "strictly"
BY DEF NoCall

LEMMA AnswerNow ==
  ASSUME TypeOK, NEW c \in Callers, NEW how, Answer(c, how)
  PROVE  answer'[c] = how /\ \A d \in Callers \ {c} : answer'[d] = answer[d]
BY DEF Answer, TypeOK, ToolTypeOK, SandboxTypeOK

LEMMA ClearNow ==
  ASSUME TypeOK, NEW c \in Callers, Clear(c)
  PROVE  /\ child'[c] = "none" /\ ~holder'[c]
         /\ \A d \in Callers \ {c} :
               child'[d] = child[d] /\ holder'[d] = holder[d]
BY DEF Clear, TypeOK, ToolTypeOK, SandboxTypeOK

LEMMA CallCall ==
  ASSUME TypeOK, CallsInv, NEW c \in Callers, CallTool(c)
  PROVE  CallsInv'
<1>1. PICK t, a : t \in Tools /\
        /\ call' = [call EXCEPT ![c] =
                       [url |-> IF EndsHow(t, a) = "sent" /\ t \in Network THEN a.url ELSE "",
                        fits |-> HowFits(t, a), encodable |-> Encodable(t, a)]]
        /\ \/ EndsHow(t, a) # "sent" /\ EndsBefore(c, EndsHow(t, a))
           \/ Execute(c, TimeoutOf(a), Passable(t, a))
        /\ step[c] = "idle"
  BY DEF CallTool
<1>2. call'[c].url \in Admitted /\ \A d \in Callers \ {c} : call'[d] = call[d]
  BY <1>1, AdmittedUrl DEF TypeOK, ToolTypeOK, Admitted
<1>3. ASSUME NEW how \in {"denied", "rejected", "crashed", "raised", "refused", "unstarted"},
             EndsBefore(c, how)
      PROVE  CallsInv'
  <2>1. CallAt(c)'
    BY <1>1, <1>2, <1>3, AnswerNow, ClearNow DEF EndsBefore, CallAt, Ended
  <2>2. \A d \in Callers \ {c} : SameCall(d)
    BY <1>2, <1>3, AnswerNow, ClearNow DEF EndsBefore, SameCall
  <2> QED BY <2>1, <2>2, SameKeeps DEF CallsInv
<1>4. CASE ~ \E how \in {"denied", "rejected", "crashed", "raised", "refused", "unstarted"} :
               EndsBefore(c, how)
  <2>1. Execute(c, TimeoutOf(a), Passable(t, a))
    BY <1>1, <1>4, EndingOf
  <2>2. Goto(c, "starting") /\ Answer(c, "none")
    BY <1>4, <2>1 DEF Execute
  <2>3. step'[c] = "starting" /\ \A d \in Callers \ {c} : step'[d] = step[d]
    BY <2>2 DEF Goto, TypeOK, ToolTypeOK, SandboxTypeOK
  <2>4. CallAt(c)'
    BY <1>2, <2>3 DEF CallAt
  <2>5. \A d \in Callers \ {c} :
          child'[d] = child[d] /\ holder'[d] = holder[d]
    BY <1>4, <2>1 DEF Execute, TypeOK, ToolTypeOK, SandboxTypeOK
  <2>6. \A d \in Callers \ {c} : SameCall(d)
    BY <1>2, <2>2, <2>3, <2>5, AnswerNow DEF SameCall
  <2> QED BY <2>4, <2>6, SameKeeps DEF CallsInv
<1> QED BY <1>3, <1>4

LEMMA CallSandbox ==
  ASSUME TypeOK, CallsInv, NEW c \in Callers, SandboxStep(c) \/ CommandStep(c), UNCHANGED call
  PROVE  CallsInv'
<1> DEFINE Elsewhere == \A d \in Callers \ {c} :
              /\ step'[d] = step[d] /\ child'[d] = child[d] /\ holder'[d] = holder[d]
             
<1> USE DEF Goto
<1>1. CASE Connect(c) \/ Expire(c) \/ CancelStart(c)
  <2>1. step'[c] # "idle" /\ step[c] # "idle" /\ UNCHANGED answer
    BY <1>1 DEF Connect, Expire, CancelStart, TypeOK, ToolTypeOK, SandboxTypeOK
  <2>2. Elsewhere
    BY <1>1 DEF Connect, Expire, CancelStart, TypeOK, ToolTypeOK, SandboxTypeOK
  <2>3. CallAt(c)'
    BY <2>1 DEF CallsInv, CallAt
  <2>4. \A d \in Callers \ {c} : CallAt(d)'
    <3> SUFFICES ASSUME NEW d \in Callers \ {c} PROVE CallAt(d)'
      OBVIOUS
    <3>1. SameCall(d)
      BY <2>1, <2>2 DEF SameCall
    <3> QED BY <3>1, SameKeeps DEF CallsInv
  <2> QED BY <2>3, <2>4 DEF CallsInv
<1>2. CASE Finish(c) \/ ExpireLate(c) \/ FinishKilled(c)
  <2>1. PICK how : Return(c, how)
    BY <1>2 DEF Finish, ExpireLate, FinishKilled
  <2>2. step'[c] = "idle" /\ Elsewhere
    BY <2>1 DEF Return, TypeOK, ToolTypeOK, SandboxTypeOK
  <2>3. \A d \in Callers \ {c} : answer'[d] = answer[d]
    BY <2>1, AnswerNow DEF Return
  <2>4. CallAt(c)'
    BY <2>1, <2>2 DEF Return, Drained, CallsInv, CallAt, Ended
  <2> QED BY <2>1, <2>2, <2>3, <2>4, SameKeeps DEF CallsInv, SameCall
<1>3. CASE Closed(c) \/ Cancel(c)
  <2>1. Abandon(c) /\ Goto(c, "idle")
    BY <1>3 DEF Closed, Cancel
  <2>2. step'[c] = "idle" /\ \A d \in Callers \ {c} : step'[d] = step[d]
    BY <2>1 DEF TypeOK, ToolTypeOK, SandboxTypeOK
  <2>3. CallAt(c)'
    <3>2. child'[c] = "none" /\ ~holder'[c]
      BY <2>1, ClearNow DEF Abandon
    <3> QED BY <2>2, <3>2 DEF CallsInv, CallAt, Ended
  <2>4. \A d \in Callers \ {c} : SameCall(d)
    BY <2>1, <2>2, AnswerNow, ClearNow DEF Abandon, SameCall
  <2> QED BY <2>3, <2>4, SameKeeps DEF CallsInv
<1>4. CASE CommandStep(c)
  <2>1. UNCHANGED <<step, answer>> /\ Elsewhere
    BY <1>4 DEF CommandStep, Fork, LetGo, Exit, Die, EndAbandoned, TypeOK, ToolTypeOK, SandboxTypeOK
  <2>2. CASE step[c] = "idle"
    <3>1. EndAbandoned(c)
      BY <1>4, <2>2 DEF CommandStep, Fork, LetGo, Exit, Die, CallsInv, CallAt, Ended
    <3> QED BY <3>1, SameKeeps DEF EndAbandoned, CallsInv, SameCall
  <2>3. CASE step[c] # "idle"
    <3>1. CallAt(c)'
      BY <2>1, <2>3 DEF CallsInv, CallAt
    <3> QED BY <2>1, <3>1, SameKeeps DEF CallsInv, SameCall
  <2> QED BY <2>2, <2>3
<1> QED BY <1>1, <1>2, <1>3, <1>4 DEF SandboxStep

\* The process: only one with the acknowledgement runs commands on the host.
ProcessInv ==
    /\ \A c \in Callers : step[c] # "idle" \/ child[c] # "none" =>
           phase = "serving" /\ sandbox = "local"
    /\ phase = "serving" /\ sandbox = "local" => unsafe

SafetyInv == CallsInv /\ ProcessInv

LEMMA SafetyLaunch ==
  ASSUME TypeOK, SafetyInv, Launch
  PROVE  SafetyInv'
<1>1. UNCHANGED toolVars /\ phase = "stopped"
  BY DEF Launch
<1>2. CallsInv'
  BY <1>1, SameKeeps DEF SafetyInv, CallsInv, toolVars, sandboxVars, SameCall
<1>3. PICK l \in Launches :
        /\ unsafe' = l.unsafe
        /\ IF l.reached = "agents"
           THEN phase' = "serving" /\ sandbox' = l.sandbox
           ELSE UNCHANGED <<phase, sandbox>>
  BY DEF Launch
<1>4. PICK command \in Commands, s \in Sources, u \in BOOLEAN :
        l.reached = (IF Loads(s) THEN Reaches(command, Config(s), u) ELSE "load") /\ l.sandbox = Config(s).sandbox /\ l.unsafe = u
  BY SMT DEF Launches
<1>5. l.reached = "agents" /\ l.sandbox = "local" => u
  BY <1>4 DEF Reaches, BuildsRuntime, BuildsSandbox
<1>6. phase' = "serving" /\ sandbox' = "local" => unsafe'
  BY <1>1, <1>3, <1>4, <1>5, Zenon
<1>7. \A c \in Callers : step'[c] = "idle" /\ child'[c] = "none"
  BY <1>1 DEF SafetyInv, ProcessInv, toolVars, sandboxVars
<1> QED BY <1>2, <1>6, <1>7 DEF SafetyInv, ProcessInv

LEMMA SafetyStop ==
  ASSUME TypeOK, SafetyInv, Close \/ Crash
  PROVE  SafetyInv'
<1>1. phase' = "stopped" /\ \A c \in Callers : step'[c] = "idle" /\ child'[c] = "none"
  BY DEF Close, Crash
<1>2. \A c \in Callers : ~holder'[c]
  BY DEF Close, Crash, SafetyInv, CallsInv, CallAt
<1>3. \A c \in Callers : call'[c].url = ""
  <2>1. \A c \in Callers : call'[c] = NoCall
    BY DEF Close, Crash
  <2> QED BY <2>1, Nothing
<1> QED BY <1>1, <1>2, <1>3 DEF SafetyInv, CallsInv, CallAt, Admitted, ProcessInv, Ended

LEMMA SafetyStep == TypeOK /\ SafetyInv /\ [Next]_vars => SafetyInv'
<1> SUFFICES ASSUME TypeOK, SafetyInv, [Next]_vars PROVE SafetyInv'
  OBVIOUS
<1>1. ASSUME NEW c \in Callers, phase = "serving", sandbox = "local", ToolStep(c),
             UNCHANGED <<phase, sandbox, unsafe>>
      PROVE  SafetyInv'
  <2>1. CallsInv'
    BY <1>1, CallCall, CallSandbox DEF ToolStep, SafetyInv
  <2> QED BY <1>1, <2>1 DEF SafetyInv, ProcessInv
<1>2. ASSUME NEW c \in Callers, EndAbandoned(c), UNCHANGED <<call, phase, sandbox, unsafe>>
      PROVE  SafetyInv'
  <2>1. CallsInv'
    BY <1>2, SameKeeps DEF EndAbandoned, SafetyInv, CallsInv, SameCall
  <2> QED BY <1>2, <2>1 DEF EndAbandoned, SafetyInv, ProcessInv
<1>3. CASE UNCHANGED vars
  <2>1. CallsInv'
    BY <1>3, SameKeeps DEF vars, toolVars, sandboxVars, SafetyInv, CallsInv, SameCall
  <2> QED BY <1>3, <2>1 DEF vars, toolVars, sandboxVars, SafetyInv, ProcessInv
<1> QED BY <1>1, <1>2, <1>3, SafetyLaunch, SafetyStop DEF Next

LEMMA SafetyAlways == Spec => []SafetyInv
<1>1. Init => SafetyInv
  <2> SUFFICES ASSUME Init PROVE SafetyInv
    OBVIOUS
  <2>1. \A c \in Callers : call[c] = NoCall
    BY DEF Init, ToolInit
  <2>2. \A c \in Callers : call[c].url = ""
    BY <2>1, Nothing
  <2>3. /\ \A c \in Callers : step[c] = "idle" /\ child[c] = "none" /\ ~holder[c]
        /\ phase = "stopped"
    BY DEF Init, ToolInit, SandboxInit
  <2> QED BY <2>2, <2>3 DEF SafetyInv, CallsInv, CallAt, Admitted, ProcessInv, Ended
<1> QED BY <1>1, SafetyStep, Typing, PTL DEF Spec

\* However a call ends, and whatever its command leaves behind, it is answered
\* only when its child has ended and nobody holds its pipes.
THEOREM AnsweredIsOver == Spec => []ReturnedIsOver
<1>1. SafetyInv => ReturnedIsOver
  BY DEF SafetyInv, CallsInv, CallAt, ReturnedIsOver
<1> QED BY <1>1, SafetyAlways, PTL

\* Whichever arguments are unusual, only a url in which policy and tool read
\* different hosts takes a command to a host out of scope.
THEOREM ScopeHolds == Spec => []OnlyMisreadUrlsStray
<1>1. \A url \in Admitted : ToolReads(url) = "outside" => PolicyReads(url) = "inside"
  BY DEF Admitted, ToolReads, PolicyReads, Unpassable
<1>2. SafetyInv => OnlyMisreadUrlsStray
  BY <1>1 DEF SafetyInv, CallsInv, CallAt, OnlyMisreadUrlsStray
<1> QED BY <1>2, SafetyAlways, PTL

\* Whatever file and environment say, a process without the acknowledgement
\* runs no command on the host.
THEOREM FailsClosed == Spec => []HostRunsAreAcknowledged
<1>1. SafetyInv => HostRunsAreAcknowledged
  BY SMTT(60) DEF SafetyInv, ProcessInv, HostRunsAreAcknowledged
<1> QED BY <1>1, SafetyAlways, PTL

-------------------------------------------------------------------------------
(* Checks and schema.  A tool's checks and the schema that the model is shown *)
(* are compared kind by kind, and the rest of a call does not matter.         *)

\* A check lets through what its schema declares and what it is lax about, and an
\* argument that is left out only where the schema does not ask for it; it raises
\* on nothing that fits.
CheckFits(t, k) ==
    /\ \A x \in k.passes : \/ x \in Schema[t][k.arg] \cup Lax
                           \/ x = "absent" /\ k.arg \notin Required[t] \cup {"content"}
    /\ \A x \in k.raises : x # "absent" /\ x \notin Schema[t][k.arg] /\ k.arg # "content"

LEMMA ChecksFit ==
  ASSUME NEW t \in Tools, NEW i \in DOMAIN Checks[t]
  PROVE  CheckFits(t, Checks[t][i])
<1> USE DEF CheckFits, Checks, Check, Schema, Required, Strings, Texts, Unpassable, Urls, Numbers, Lax
<1>1. CASE t = "shell"
  BY <1>1 DEF ShellChecks, Number, Optional
<1>2. CASE t = "python"
  BY <1>2 DEF PythonChecks, Needed, Number, Optional
<1>3. CASE t = "filesystem"
  BY <1>3 DEF FilesystemChecks, Needed, Positive
<1>4. CASE t = "http"
  BY <1>4 DEF HttpChecks, Url, Positive, Optional, Target
<1>5. CASE t = "browser"
  BY <1>5 DEF BrowserChecks, Url, Positive, Target
<1> QED BY <1>1, <1>2, <1>3, <1>4, <1>5 DEF Tools, Network

\* What a tool hands to the sandbox fits its schema, but for what it is lax about.
LEMMA SentFits ==
  ASSUME NEW t \in Tools, NEW a, EndsHow(t, a) = "sent"
  PROVE  HowFits(t, a) # "no"
<1>1. /\ \A i \in DOMAIN Checks[t] : Seen(a, Checks[t][i].arg) \in Checks[t][i].passes
      /\ a.timeout # "huge"
  BY DEF EndsHow, Judged, Outcome
<1>2. ASSUME NEW i \in DOMAIN Checks[t]
      PROVE  \/ Seen(a, Checks[t][i].arg) \in Schema[t][Checks[t][i].arg] \cup Lax
             \/ a[Checks[t][i].arg] = "absent" /\ Checks[t][i].arg \notin Required[t]
  BY <1>1, ChecksFit DEF CheckFits, Seen
<1>3. Fits(t, a, Lax)
  BY <1>1, <1>2 DEF Fits, Arguments
<1> QED BY <1>3 DEF HowFits

\* Of the checks that stop a call, one is the first.
LEMMA FirstStop ==
  ASSUME NEW S, S \subseteq 1 .. 6, S # {}
  PROVE  \E i \in S : \A j \in S : i <= j
<1>1. CASE 1 \in S \/ 2 \in S
  BY <1>1
<1>2. CASE 1 \notin S /\ 2 \notin S /\ (3 \in S \/ 4 \in S)
  BY <1>2
<1>3. CASE S = {5} \/ S = {6} \/ S = {5, 6}
  BY <1>3
<1>4. 1 .. 6 = {1, 2, 3, 4, 5, 6}
  OBVIOUS
<1>5. S \cap {1, 2, 3, 4} = {} => S = {5} \/ S = {6} \/ S = {5, 6}
  BY <1>4
<1> QED BY <1>1, <1>2, <1>3, <1>5

LEMMA FewChecks == \A t \in Tools : DOMAIN Checks[t] \subseteq 1 .. 6
BY DEF Tools, Network, Checks, ShellChecks, PythonChecks, FilesystemChecks, HttpChecks, BrowserChecks

\* What fits its schema makes no tool raise, if it can be encoded.
LEMMA FitsNeverCrashes ==
  ASSUME NEW t \in Tools, NEW a, HowFits(t, a) = "strictly", Encodable(t, a)
  PROVE  EndsHow(t, a) # "crashed"
<1> SUFFICES ASSUME Outcome(t, a) = "crashed" PROVE FALSE
  BY DEF EndsHow, Judged
<1>0. Fits(t, a, {})
  BY DEF HowFits
<1>1. PICK i \in DOMAIN Checks[t] : Seen(a, Checks[t][i].arg) \in Checks[t][i].raises
  <2> DEFINE stops == {i \in DOMAIN Checks[t] : Seen(a, Checks[t][i].arg) \notin Checks[t][i].passes}
             first == CHOOSE i \in stops : \A j \in stops : i <= j
  <2>1. stops # {} /\ Seen(a, Checks[t][first].arg) \in Checks[t][first].raises
    BY <1>0 DEF Outcome, Fits
  <2>2. \E i \in stops : \A j \in stops : i <= j
    BY <2>1, FewChecks, FirstStop, Zenon
  <2>3. first \in stops
    BY <2>2, Zenon
  <2> QED BY <2>1, <2>3
<1>2. /\ Seen(a, Checks[t][i].arg) # "absent"
      /\ Seen(a, Checks[t][i].arg) \notin Schema[t][Checks[t][i].arg]
      /\ Checks[t][i].arg # "content"
  BY <1>1, ChecksFit DEF CheckFits
<1>3. a[Checks[t][i].arg] = "absent"
  BY <1>0, <1>2 DEF Fits, Arguments
<1> QED BY <1>2, <1>3 DEF Seen

SchemaAt(c) ==
    /\ call[c].fits = "strictly" /\ call[c].encodable => answer[c] # "crashed"
    /\ call[c].fits = "no" => step[c] = "idle" /\ answer[c] \in ToolEndings \cup {"raised"}

LEMMA SameKeepsSchema ==
  ASSUME NEW d \in Callers, SchemaAt(d),
         step'[d] = step[d], answer'[d] = answer[d], call'[d] = call[d]
  PROVE  SchemaAt(d)'
BY DEF SchemaAt

LEMMA SchemaCall ==
  ASSUME TypeOK, SchemaIsEnforced, NEW c \in Callers, CallTool(c)
  PROVE  SchemaIsEnforced'
<1>1. PICK t, a : t \in Tools /\
        /\ call' = [call EXCEPT ![c] =
                       [url |-> IF EndsHow(t, a) = "sent" /\ t \in Network THEN a.url ELSE "",
                        fits |-> HowFits(t, a), encodable |-> Encodable(t, a)]]
        /\ \/ EndsHow(t, a) # "sent" /\ EndsBefore(c, EndsHow(t, a))
           \/ EndsHow(t, a) = "sent" /\ Execute(c, TimeoutOf(a), Passable(t, a))
        /\ step[c] = "idle"
  BY DEF CallTool
<1>2. call'[c].fits = HowFits(t, a) /\ call'[c].encodable = Encodable(t, a)
      /\ \A d \in Callers \ {c} : call'[d] = call[d]
  BY <1>1 DEF TypeOK, ToolTypeOK
<1>3. CASE EndsHow(t, a) # "sent" /\ EndsBefore(c, EndsHow(t, a))
  <2>1. answer'[c] = EndsHow(t, a) /\ UNCHANGED step
        /\ \A d \in Callers \ {c} : answer'[d] = answer[d]
    BY <1>3, AnswerNow DEF EndsBefore
  <2>2. EndsHow(t, a) \in ToolEndings \cup {"raised"}
    BY <1>1, <1>3, EndingOf DEF ToolEndings
  <2>3. SchemaAt(c)'
    BY ZenonT(60), <1>1, <1>2, <2>1, <2>2, FitsNeverCrashes DEF SchemaAt
  <2> QED BY <1>2, <2>1, <2>3, SameKeepsSchema DEF SchemaIsEnforced, SchemaAt
<1>4. CASE EndsHow(t, a) = "sent" /\ Execute(c, TimeoutOf(a), Passable(t, a))
  <2>1. PICK how \in {"refused", "raised", "unstarted", "none"} : Answer(c, how)
    BY <1>4 DEF Execute, EndsBefore
  <2>2. \A d \in Callers \ {c} : step'[d] = step[d]
    BY <1>4 DEF Execute, EndsBefore, Goto, TypeOK, ToolTypeOK, SandboxTypeOK
  <2>3. SchemaAt(c)'
    BY ZenonT(60), <1>1, <1>2, <1>4, <2>1, SentFits, AnswerNow DEF SchemaAt
  <2>4. \A d \in Callers \ {c} : SchemaAt(d)'
    BY <1>2, <2>1, <2>2, AnswerNow, SameKeepsSchema DEF SchemaIsEnforced, SchemaAt
  <2> QED BY <2>3, <2>4 DEF SchemaIsEnforced, SchemaAt
<1> QED BY <1>1, <1>3, <1>4

\* Only a call whose arguments fit gets as far as the sandbox, and that answers
\* in its own ways.
LEMMA SchemaSandbox ==
  ASSUME TypeOK, SchemaIsEnforced, NEW c \in Callers, SandboxStep(c) \/ CommandStep(c),
         UNCHANGED call
  PROVE  SchemaIsEnforced'
<1>1. CASE UNCHANGED <<step, answer>>
  BY <1>1 DEF SchemaIsEnforced
<1>2. CASE SandboxStep(c) /\ ~UNCHANGED <<step, answer>>
  <2>1. step[c] # "idle" /\ call[c].fits # "no"
    BY <1>2 DEF SandboxStep, Connect, Finish, Expire, ExpireLate, FinishKilled,
                CancelStart, Closed, Cancel, SchemaIsEnforced
  <2>2. \A d \in Callers \ {c} : step'[d] = step[d]
    BY <1>2 DEF SandboxStep, Connect, Finish, Expire, ExpireLate, FinishKilled, Return,
                CancelStart, Closed, Cancel, Goto, TypeOK, ToolTypeOK, SandboxTypeOK
  <2>3. \/ UNCHANGED answer
        \/ \E how \in Endings : Answer(c, how)
    BY <1>2 DEF SandboxStep, Connect, Finish, Expire, ExpireLate, FinishKilled, Return,
                CancelStart, Closed, Cancel, Abandon, Drained, Ended, Endings
  <2>4. /\ call[c].fits = "strictly" /\ call[c].encodable => answer'[c] # "crashed"
        /\ \A d \in Callers \ {c} : answer'[d] = answer[d]
    BY <2>1, <2>3, AnswerNow DEF SchemaIsEnforced, Endings
  <2>5. SchemaAt(c)'
    BY <2>1, <2>4 DEF SchemaAt
  <2> QED BY <2>2, <2>4, <2>5, SameKeepsSchema DEF SchemaIsEnforced, SchemaAt
<1>3. CASE CommandStep(c)
  BY <1>1, <1>3 DEF CommandStep, Fork, LetGo, Exit, Die, EndAbandoned
<1> QED BY <1>1, <1>2, <1>3

LEMMA SchemaStep == TypeOK /\ SchemaIsEnforced /\ [Next]_vars => SchemaIsEnforced'
<1> SUFFICES ASSUME TypeOK, SchemaIsEnforced, [Next]_vars PROVE SchemaIsEnforced'
  OBVIOUS
<1>1. CASE Launch \/ UNCHANGED vars
  BY <1>1 DEF Launch, vars, toolVars, sandboxVars, SchemaIsEnforced
<1>2. CASE Close \/ Crash
  <2>1. \A c \in Callers : answer'[c] = "none" /\ call'[c] = NoCall
    BY <1>2 DEF Close, Crash
  <2> QED BY <2>1, Nothing DEF SchemaIsEnforced
<1>3. ASSUME NEW c \in Callers, ToolStep(c) \/ (EndAbandoned(c) /\ UNCHANGED call)
      PROVE  SchemaIsEnforced'
  BY <1>3, SchemaCall, SchemaSandbox DEF ToolStep, CommandStep
<1> QED BY <1>1, <1>2, <1>3 DEF Next

\* Whichever arguments a model chooses, and however many are unusual: a tool
\* never raises on those that fit its schema and can be encoded, and runs no
\* command for others but those it is lax about.
THEOREM SchemaHolds == Spec => []SchemaIsEnforced
<1>1. Init => SchemaIsEnforced
  <2> SUFFICES ASSUME Init PROVE SchemaIsEnforced
    OBVIOUS
  <2>1. \A c \in Callers : answer[c] = "none" /\ call[c] = NoCall
    BY DEF Init, ToolInit, SandboxInit
  <2> QED BY <2>1, Nothing DEF SchemaIsEnforced
<1> QED BY <1>1, SchemaStep, Typing, PTL DEF Spec

-------------------------------------------------------------------------------
(* The configuration.  Where a setting comes from does not matter, only that  *)
(* a source that loads gives each one of its classes.                         *)

LEMMA LoadedClasses ==
  ASSUME NEW s \in Sources, Loads(s), NEW n \in Names
  PROVE  Config(s)[n] \in Settings[n].classes
<1>1. ASSUME NEW t \in Tables(Ordinary, MaxSet), NEW m \in DOMAIN t, t[m] # "bad"
      PROVE  m \in Ordinary /\ t[m] \in Settings[m].classes
  BY <1>1 DEF Tables
<1>2. s.file \in Tables(Ordinary, MaxSet) /\ s.environment \in Tables(Ordinary, MaxSet)
  BY DEF Sources
<1>3. ASSUME NEW m \in Ordinary
      PROVE  Said(s, m) \in Settings[m].classes
  <2>1. Settings[m].default \in Settings[m].classes
    BY DEF Ordinary, Names, Settings, Setting, Named, Count, Seconds, Store
  <2> QED BY <1>1, <1>2, <2>1 DEF Loads, Said
<1>4. s.api_key \in Settings["api_key"].classes
  BY DEF Sources
<1>5. "path" \in Ordinary /\ "named" \in Settings["path"].classes
  BY DEF Ordinary, Names, Settings, Setting, Named
<1> QED BY <1>3, <1>4, <1>5 DEF Config, Ordinary

\* Every configuration that loads has each setting in one of its classes.
LEMMA ConfigClasses ==
  ASSUME NEW g \in Configs
  PROVE  \A n \in Names : g[n] \in Settings[n].classes
BY LoadedClasses DEF Configs

\* What doctor accepts and a command refuses is refused for one of the things
\* that validate_config does not look at, whatever file and environment say.
THEOREM DoctorForesees == Spec => []DoctorPredicts
<1>1. DoctorPredicts
  <2> SUFFICES ASSUME NEW c \in Unforeseen PROVE FALSE
    BY DEF DoctorPredicts
  <2> DEFINE g == c.config
  <2>1. /\ g \in Configs /\ c.unsafe \in BOOLEAN /\ c.command \in Commands
        /\ Reaches("doctor", g, c.unsafe) = "report"
        /\ Reaches(c.command, g, c.unsafe) \notin {"report", "agents"}
        /\ IF c.command \in WithRuntime
           THEN /\ "empty" \notin {g.api_key, g.model} /\ g.base_url = "http"
                /\ g.targets = "good"
                /\ g.sandbox = "docker" => g.network = "named"
                /\ g.sandbox = "local" => c.unsafe
           ELSE "memory" \notin {g.storage, g.checkpoint}
    BY DEF Unforeseen
  <2>2. /\ g.sandbox \in {"local", "docker", "other"}
        /\ g.api_key \in {"empty", "named"} /\ g.model \in {"named", "empty"}
        /\ g.storage \in {"file", "memory", "other"} /\ g.checkpoint \in {"file", "memory", "other"}
    BY <2>1, ConfigClasses DEF Names, Settings, Setting, Named, Store
  <2>3. Valid(g)
    BY <2>1 DEF Reaches
  <2> HIDE DEF g
  <2>4. CASE c.command \in WithRuntime
    <3>1. BuildsModel(g)
      BY <2>1, <2>2, <2>3, <2>4 DEF Valid, BuildsModel
    <3>2. BuildsRuntime(g, c.unsafe)
      BY <2>1, <2>2, <2>3, <2>4 DEF Valid, BuildsRuntime, BuildsSandbox
    <3>3. Reaches(c.command, g, c.unsafe) \in {"report", "agents"}
      BY <2>3, <2>4, <3>1, <3>2 DEF Reaches
    <3> QED BY <2>1, <3>3
  <2>5. CASE c.command \notin WithRuntime
    <3>1. HasFileControlPlane(g)
      BY <2>1, <2>2, <2>3, <2>5 DEF Valid, HasFileControlPlane
    <3>2. Reaches(c.command, g, c.unsafe) = "report"
      BY <2>3, <2>5, <3>1 DEF Reaches
    <3> QED BY <2>1, <3>2
  <2> QED BY <2>4, <2>5
<1> QED BY <1>1, PTL

===============================================================================
