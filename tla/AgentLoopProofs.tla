---------------------------- MODULE AgentLoopProofs ----------------------------
(***************************************************************************)
(* Theorems about AgentLoop, for every number of agents and tasks, every   *)
(* limit, every redaction and scope, and every fault.                      *)
(***************************************************************************)
EXTENDS AgentLoop, TLAPS

(* Typing.  What is saved must be known to be a text: TypeOK alone is not  *)
(* inductive, it needs to know when a call has one.                        *)

Redacted == {Redact[y] : y \in Texts}

Capturing == {"spilling", "saving", "writing", "filing"}

\* A call has no text before its tool has returned, and a redacted one after.
TextInv == \A a \in Agents :
    /\ pc[a] \in Capturing => content[a] # NoText
    /\ pc[a] = "calling" => content[a] = NoText
    /\ content[a] # NoText => content[a] \in Redacted

TypeInv == TypeOK /\ TextInv

LEMMA RedactedTexts == Redacted \subseteq Texts
BY DispatchAssumption DEF Redacted

\* Totals are kept for the mission and for each task; both grow together.
Totals == [mission : Nat, task : [Tasks -> Nat]]
Grown(c, t, n) == [c EXCEPT !.mission = @ + n, !.task[t] = @ + n]

LEMMA RecordExcept ==
  ASSUME NEW S, NEW T, NEW c \in [mission : S, task : T], NEW m \in S, NEW k \in T
  PROVE  [c EXCEPT !.mission = m, !.task = k] \in [mission : S, task : T]
OBVIOUS

LEMMA GrownTotals ==
  ASSUME NEW c \in Totals, NEW t \in Tasks, NEW n \in Nat
  PROVE  /\ Grown(c, t, n) \in Totals
         /\ Grown(c, t, n).mission = c.mission + n
         /\ \A x \in Tasks : Grown(c, t, n).task[x] = IF x = t THEN c.task[x] + n ELSE c.task[x]
<1> DEFINE m == c.mission + n
           k == [c.task EXCEPT ![t] = @ + n]
<1>1. m \in Nat /\ k \in [Tasks -> Nat]
  BY DEF Totals
<1>2. Grown(c, t, n) = [c EXCEPT !.mission = m, !.task = k]
  BY DEF Totals, Grown
<1>3. Grown(c, t, n).mission = m /\ Grown(c, t, n).task = k
  BY DEF Totals, Grown
<1>4. \A x \in Tasks : k[x] = IF x = t THEN c.task[x] + n ELSE c.task[x]
  BY DEF Totals
<1> HIDE DEF k, m
<1>5. [c EXCEPT !.mission = m, !.task = k] \in Totals
  BY <1>1, RecordExcept DEF Totals
<1> QED BY <1>2, <1>3, <1>4, <1>5 DEF m

LEMMA TypingInit == Init => TypeInv
<1> SUFFICES ASSUME Init PROVE TypeInv
  OBVIOUS
<1> USE DispatchAssumption, LoopAssumption
<1>1. DispatchTypeOK
  <2>1. /\ draft \in [Agents -> SUBSET Items] /\ late \subseteq SUBSET Items
        /\ observed \in [Agents -> SUBSET Items]
    BY DEF Init, DispatchInit
  <2>2. /\ artifacts \subseteq Texts /\ evidence \subseteq Items /\ torn \in BOOLEAN
    BY DEF Init, DispatchInit
  <2> QED BY <2>1, <2>2 DEF Init, DispatchInit, DispatchTypeOK
<1>2. TypeOK
  BY <1>1 DEF Init, TypeOK
<1>3. TextInv
  BY DEF Init, DispatchInit, TextInv, Capturing
<1> QED BY <1>2, <1>3 DEF TypeInv

\* Frames that end, or a call that begins, leave request, content and pc typed.
LEMMA StartCallTyped ==
  ASSUME NEW a \in Agents, NEW r \in Requests, TypeInv, StartCall(a, r)
  PROVE  /\ request' \in [Agents -> Requests \cup {NoRequest}]
         /\ content' \in [Agents -> Texts \cup {NoText}]
         /\ pc' \in [Agents -> {"idle", "waiting"} \cup ModelSteps \cup DispatchSteps]
         /\ TextInv'
<1> USE DEF TypeInv, TypeOK, DispatchTypeOK, StartCall, Goto
<1>1. request' \in [Agents -> Requests \cup {NoRequest}]
  OBVIOUS
<1>2. content' \in [Agents -> Texts \cup {NoText}]
  OBVIOUS
<1>3. pc' \in [Agents -> {"idle", "waiting"} \cup ModelSteps \cup DispatchSteps]
  BY DEF DispatchSteps
<1>4. TextInv'
  BY DEF TextInv, Capturing
<1> QED BY <1>1, <1>2, <1>3, <1>4

LEMMA FinishTyped ==
  ASSUME NEW a \in Agents, TypeInv, Finish(a)
  PROVE  /\ request' \in [Agents -> Requests \cup {NoRequest}]
         /\ content' \in [Agents -> Texts \cup {NoText}]
         /\ pc' \in [Agents -> {"idle", "waiting"} \cup ModelSteps \cup DispatchSteps]
         /\ step' \in [Agents -> Nat] /\ \A b \in Agents : step'[b] <= MaxSteps[b]
         /\ queue' \in [Agents -> Nat]
         /\ observed' \in [Agents -> SUBSET Items]
         /\ TextInv'
<1> USE LoopAssumption DEF TypeInv, TypeOK, DispatchTypeOK, Finish, EndCall, Goto
<1>1. /\ request' \in [Agents -> Requests \cup {NoRequest}]
      /\ content' \in [Agents -> Texts \cup {NoText}]
      /\ pc' \in [Agents -> {"idle", "waiting"} \cup ModelSteps \cup DispatchSteps]
  OBVIOUS
<1>2. /\ step' \in [Agents -> Nat] /\ \A b \in Agents : step'[b] <= MaxSteps[b]
      /\ queue' \in [Agents -> Nat]
  <2>1. step' \in [Agents -> Nat] /\ queue' \in [Agents -> Nat]
    OBVIOUS
  <2>2. ASSUME NEW b \in Agents PROVE step'[b] <= MaxSteps[b]
    <3>1. step'[b] = (IF b = a THEN 0 ELSE step[b])
      OBVIOUS
    <3>2. MaxSteps[b] \in Nat /\ step[b] <= MaxSteps[b]
      OBVIOUS
    <3> HIDE DEF TypeInv, TypeOK, Finish
    <3> QED BY <3>1, <3>2
  <2> QED BY <2>1, <2>2
<1>3. observed' \in [Agents -> SUBSET Items]
  OBVIOUS
<1>4. TextInv'
  BY DEF TextInv, Capturing
<1> QED BY <1>1, <1>2, <1>3, <1>4

LEMMA PublishTyped ==
  ASSUME NEW a \in Agents, NEW d \in {-1, 1}, TypeInv, Publish(a, d)
  PROVE  open' \in [Agents -> Int] /\ gaps' \in [Agents -> Nat] /\ faults' \in Nat
BY DEF TypeInv, TypeOK, DispatchTypeOK, Publish, Traced, Dropped, Fault

LEMMA ItemTyped ==
  ASSUME NEW a \in Agents, TypeInv, content[a] # NoText
  PROVE  content[a] \in Texts /\ Item(a) \in Items
BY DEF TypeInv, TypeOK, DispatchTypeOK, Item, Items

\* The text of a call is on its way from the tool to the repository.
LEMMA CaptureTyped ==
  ASSUME NEW a \in Agents, TypeInv, UNCHANGED <<request, observed>>,
         ToolReturns(a) \/ Spill(a) \/ ReadEvidence(a) \/ SaveEvidence(a) \/ File(a)
  PROVE  DispatchTypeOK' /\ TextInv'
         /\ pc' \in [Agents -> {"idle", "waiting"} \cup ModelSteps \cup DispatchSteps]
<1> USE DispatchAssumption, RedactedTexts
        DEF TypeInv, TypeOK, DispatchTypeOK, budget, record, audit, Goto
<1>1. CASE ToolReturns(a)
  <2>1. PICK x \in Texts :
          /\ content' = [content EXCEPT ![a] = Redact[x]]
          /\ Goto(a, IF Redact[x] \in Large THEN "spilling" ELSE "saving")
    BY <1>1 DEF ToolReturns
  <2>2. Redact[x] \in Texts /\ Redact[x] \in Redacted
    BY DEF Redacted
  <2>3. DispatchTypeOK'
    BY <1>1, <2>1, <2>2 DEF ToolReturns
  <2>4. TextInv'
    BY <2>1, <2>2 DEF TextInv, Capturing
  <2>5. pc' \in [Agents -> {"idle", "waiting"} \cup ModelSteps \cup DispatchSteps]
    BY <2>1 DEF DispatchSteps, InCall
  <2> QED BY <2>3, <2>4, <2>5
<1>2. CASE Spill(a)
  <2>1. content[a] \in Texts
    BY <1>2, ItemTyped DEF Spill, TextInv, Capturing
  <2>2. DispatchTypeOK'
    BY <1>2, <2>1 DEF Spill
  <2>3. TextInv'
    BY <1>2 DEF Spill, TextInv, Capturing
  <2> QED BY <1>2, <2>2, <2>3 DEF Spill, DispatchSteps, InCall
<1>3. CASE SaveEvidence(a)
  <2>1. DispatchTypeOK'
    BY <1>3 DEF SaveEvidence
  <2>2. TextInv'
    BY <1>3 DEF SaveEvidence, TextInv, Capturing
  <2> QED BY <1>3, <2>1, <2>2 DEF SaveEvidence, DispatchSteps, InCall
<1>4. CASE File(a)
  <2>1. DispatchTypeOK'
    BY <1>4 DEF File
  <2>2. TextInv'
    BY <1>4 DEF File, TextInv, Capturing
  <2> QED BY <1>4, <2>1, <2>2 DEF File, DispatchSteps, InCall
<1>5. CASE ReadEvidence(a)
  <2>1. Item(a) \in Items
    BY <1>5, ItemTyped DEF ReadEvidence, TextInv, Capturing
  <2>2. DispatchTypeOK'
    BY <1>5, <2>1 DEF ReadEvidence
  <2>3. TextInv'
    BY <1>5 DEF ReadEvidence, TextInv, Capturing
  <2> QED BY <1>5, <2>2, <2>3 DEF ReadEvidence, DispatchSteps, InCall
<1> QED BY <1>1, <1>2, <1>3, <1>4, <1>5

LEMMA AdmitTyped ==
  ASSUME NEW a \in Agents, TypeInv, Admit(a), UNCHANGED loopVars
  PROVE  TypeInv'
<1> USE DispatchAssumption
        DEF TypeInv, TypeOK, DispatchTypeOK, Admit, Goto, record, loopVars
<1> DEFINE t == TaskOf[a]
<1>1. t \in Tasks
  OBVIOUS
<1>2. calls' \in [mission : Nat, task : [Tasks -> Nat]]
  <2>1. UNCHANGED calls \/ Reserve(t)
    BY DEF Admission
  <2>2. ASSUME Reserve(t) PROVE calls' \in [mission : Nat, task : [Tasks -> Nat]]
    BY ZenonT(60), <1>1, <2>2, GrownTotals DEF Reserve, Grown, Totals
  <2> QED BY <2>1, <2>2
<1>3. /\ content' = content
      /\ pc' \in [Agents -> {"idle", "waiting"} \cup ModelSteps \cup DispatchSteps]
      /\ \E p \in {"closing", "failing", "executing"} : pc' = [pc EXCEPT ![a] = p]
  BY DEF Admission, Judge, Misjudge, Reject, Start, DispatchSteps, InCall
<1>4. executed' \in [Tasks -> Nat]
  BY <1>1 DEF Admission, Judge, Misjudge, Reject, Start
<1>5. open' \in [Agents -> Int] /\ gaps' \in [Agents -> Nat] /\ faults' \in Nat
  BY PublishTyped
<1>6. clock' \in {"unset", "running", "expired"}
  OBVIOUS
<1>7. TextInv'
  BY <1>3 DEF TextInv, Capturing
<1> QED BY <1>2, <1>3, <1>4, <1>5, <1>6, <1>7

LEMMA ModelTyped ==
  ASSUME NEW a \in Agents, TypeInv, Model(a)
  PROVE  TypeInv'
<1> USE DispatchAssumption, LoopAssumption
        DEF TypeInv, TypeOK, DispatchTypeOK, dispatchVars, loopVars, budget, record, audit, Goto
<1>1. CASE Ask(a)
  BY <1>1 DEF Ask, ModelSteps, TextInv, Capturing
<1>2. CASE ModelAnswers(a)
  <2>1. used' \in [mission : Nat, task : [Tasks -> Nat]]
    <3>1. PICK u \in Usages : used' = Grown(used, TaskOf[a], u)
      BY <1>2 DEF ModelAnswers, Grown
    <3>2. u \in Nat /\ TaskOf[a] \in Tasks /\ used \in Totals
      BY DEF Usages, Totals
    <3>3. Grown(used, TaskOf[a], u) \in Totals
      BY <3>2, GrownTotals
    <3> QED BY <3>1, <3>3 DEF Totals
  <2>2. queue' \in [Agents -> Nat]
    BY <1>2 DEF ModelAnswers, ResponseLengths
  <2>3. TextInv'
    BY <1>2 DEF ModelAnswers, TextInv, Capturing
  <2> QED BY <1>2, <2>1, <2>2, <2>3 DEF ModelAnswers, ModelSteps
<1>3. CASE ModelFails(a)
  BY <1>3 DEF ModelFails, ModelSteps, TextInv, Capturing
<1>4. CASE ModelRaises(a)
  <2>1. callLock' \in Agents \cup {NoAgent}
    BY <1>4 DEF ModelRaises, LockAfterFailure
  <2>2. Finish(a)
    BY <1>4 DEF ModelRaises
  <2> QED BY <1>4, <2>1, <2>2, FinishTyped DEF ModelRaises
<1>5. CASE Respond(a)
  <2>1. CASE Finish(a)
    BY <1>5, <2>1, FinishTyped DEF Respond
  <2>2. ASSUME NEW r \in Requests, StartCall(a, r), UNCHANGED <<observed, step, queue>>
        PROVE  TypeInv'
    BY <1>5, <2>2, StartCallTyped DEF Respond
  <2> QED BY <1>5, <2>1, <2>2 DEF Respond
<1> QED BY <1>1, <1>2, <1>3, <1>4, <1>5 DEF Model

\* A call that has its observation leads to the next one or to the next step.
LEMMA AdvanceTyped ==
  ASSUME NEW a \in Agents, TypeInv, Advance(a)
  PROVE  /\ request' \in [Agents -> Requests \cup {NoRequest}]
         /\ content' \in [Agents -> Texts \cup {NoText}]
         /\ pc' \in [Agents -> {"idle", "waiting"} \cup ModelSteps \cup DispatchSteps]
         /\ step' \in [Agents -> Nat] /\ \A b \in Agents : step'[b] <= MaxSteps[b]
         /\ queue' \in [Agents -> Nat]
         /\ TextInv'
<1>1. queue' \in [Agents -> Nat]
  BY DEF Advance, TypeInv, TypeOK
<1>2. CASE queue[a] > 1 /\ (\E r \in Requests : StartCall(a, r)) /\ UNCHANGED step
  BY <1>1, <1>2, StartCallTyped DEF TypeInv, TypeOK
<1>3. CASE /\ queue[a] = 1 /\ StepsLeft(a)
           /\ Goto(a, "waiting") /\ EndCall(a)
           /\ step' = [step EXCEPT ![a] = NextStep(a)]
  <2> USE DEF TypeInv, TypeOK, DispatchTypeOK
  <2>1. /\ request' \in [Agents -> Requests \cup {NoRequest}]
        /\ content' \in [Agents -> Texts \cup {NoText}]
        /\ pc' \in [Agents -> {"idle", "waiting"} \cup ModelSteps \cup DispatchSteps]
    BY <1>3 DEF EndCall, Goto
  <2>2. step' \in [Agents -> Nat]
    BY <1>3 DEF NextStep
  <2>3. ASSUME NEW b \in Agents PROVE step'[b] <= MaxSteps[b]
    <3>1. MaxSteps[b] \in Nat /\ step[b] \in Nat /\ step[b] <= MaxSteps[b]
      BY LoopAssumption
    <3>2. step'[b] = (IF b = a THEN step[b] + 1 ELSE step[b])
      BY <1>3 DEF NextStep
    <3>3. b = a => step[b] < MaxSteps[b]
      BY <1>3 DEF StepsLeft
    <3> HIDE DEF TypeInv, TypeOK
    <3> QED BY <3>1, <3>2, <3>3
  <2>4. TextInv'
    BY <1>3 DEF EndCall, Goto, TextInv, Capturing
  <2> QED BY <1>1, <2>1, <2>2, <2>3, <2>4
<1> QED BY <1>2, <1>3 DEF Advance

LEMMA DispatchEndsTyped ==
  ASSUME NEW a \in Agents, TypeInv, Observe(a) \/ ObserveLast(a) \/ LoopRaises(a)
  PROVE  TypeInv'
<1> USE DEF TypeInv, TypeOK, DispatchTypeOK, budget, record, audit
<1>1. ASSUME CallUnavailable(a) \/ CloseCall(a) \/ FailCall(a)
      PROVE  /\ open' \in [Agents -> Int] /\ gaps' \in [Agents -> Nat] /\ faults' \in Nat
             /\ UNCHANGED <<budget, record, executed>>
  BY <1>1, PublishTyped DEF CallUnavailable, CloseCall, FailCall
<1>2. CASE Observe(a)
  <2>1. observed' \in [Agents -> SUBSET Items]
    <3>1. content[a] # NoText => Item(a) \in Items
      BY ItemTyped
    <3> QED BY <1>2, <3>1 DEF Observe, See
  <2> QED BY <1>1, <1>2, <2>1, AdvanceTyped DEF Observe
<1>3. CASE ObserveLast(a)
  BY <1>1, <1>3, FinishTyped DEF ObserveLast
<1>4. CASE LoopRaises(a)
  BY <1>1, <1>4, FinishTyped DEF LoopRaises
<1> QED BY <1>2, <1>3, <1>4

LEMMA InterruptTyped ==
  ASSUME NEW a \in Agents, TypeInv, Interrupt(a)
  PROVE  TypeInv'
<1> USE DEF TypeInv, TypeOK, DispatchTypeOK, budget, record, audit, Interrupt, Leave
<1>1. Finish(a) /\ UNCHANGED <<calls, clock, executed, used>>
  OBVIOUS
<1>2. artifacts' \subseteq Texts /\ late' \subseteq SUBSET Items
  <2>1. pc[a] = "spilling" => content[a] \in Texts
    BY ItemTyped DEF TextInv, Capturing
  <2> QED BY <2>1
<1>3. open' \in [Agents -> Int] /\ gaps' \in [Agents -> Nat] /\ faults' \in Nat
  BY DEF Fault
<1>4. callLock' \in Agents \cup {NoAgent}
  BY DEF LockAfterFailure
<1> QED BY <1>1, <1>2, <1>3, <1>4, FinishTyped

LEMMA TypingStep == TypeInv /\ [Next]_vars => TypeInv'
<1> SUFFICES ASSUME TypeInv, [Next]_vars PROVE TypeInv'
  OBVIOUS
<1> USE DEF TypeInv
<1>1. ASSUME NEW a \in Agents, Execute(a) PROVE TypeInv'
  <2> USE <1>1 DEF Execute, TypeOK, DispatchTypeOK, Goto, budget, record, audit
  <2>1. step' \in [Agents -> Nat] /\ \A b \in Agents : step'[b] <= MaxSteps[b]
    <3>1. \A b \in Agents : MaxSteps[b] \in Nat \ {0} /\ step[b] \in Nat /\ step[b] <= MaxSteps[b]
      BY LoopAssumption
    <3>2. step' = [step EXCEPT ![a] = 1] /\ step \in [Agents -> Nat]
      OBVIOUS
    <3> HIDE <1>1 DEF Execute, TypeOK
    <3> QED BY <3>1, <3>2
  <2>2. TextInv'
    BY DEF TextInv, Capturing
  <2> QED BY <2>1, <2>2
<1>2. ASSUME NEW a \in Agents, EnterModel(a) PROVE TypeInv'
  <2>1. CASE Finish(a) /\ UNCHANGED callLock
    BY <1>2, <2>1, FinishTyped DEF EnterModel, TypeOK, DispatchTypeOK, budget, record, audit
  <2>2. CASE /\ Goto(a, "asking") /\ callLock' = a
             /\ UNCHANGED <<request, content, observed, step, queue>>
    BY <1>2, <2>2 DEF EnterModel, Goto, ModelSteps, TextInv, Capturing,
                      TypeOK, DispatchTypeOK, budget, record, audit
  <2> QED BY <1>2, <2>1, <2>2 DEF EnterModel
<1>3. ASSUME NEW a \in Agents, Model(a) PROVE TypeInv'
  BY <1>3, ModelTyped
<1>4. ASSUME NEW a \in Agents, Dispatch(a) PROVE TypeInv'
  <2>1. CASE Admit(a)
    BY <1>4, <2>1, AdmitTyped DEF Dispatch
  <2>2. CASE ToolReturns(a) \/ Spill(a) \/ SaveEvidence(a) \/ File(a)
    <3>1. UNCHANGED <<request, observed>>
      BY <2>2 DEF ToolReturns, Spill, SaveEvidence, File
    <3> QED BY <1>4, <2>2, <3>1, CaptureTyped DEF Dispatch, TypeOK, loopVars
  <2> QED BY <1>4, <2>1, <2>2 DEF Dispatch
<1>10. ASSUME NEW a \in Agents, Read(a) PROVE TypeInv'
  <2>1. UNCHANGED <<request, observed>>
    BY <1>10 DEF Read, ReadEvidence
  <2> QED BY <1>10, <2>1, CaptureTyped DEF Read, TypeOK, loopVars
<1>5. ASSUME NEW a \in Agents, Observe(a) \/ ObserveLast(a) \/ LoopRaises(a) PROVE TypeInv'
  BY <1>5, DispatchEndsTyped
<1>6. ASSUME NEW a \in Agents, Interrupt(a) PROVE TypeInv'
  BY <1>6, InterruptTyped
<1>7. ASSUME NEW a \in Agents, CallRaises(a), UNCHANGED loopVars PROVE TypeInv'
  BY <1>7 DEF CallRaises, Fault, Goto, TextInv, Capturing, DispatchSteps, InCall,
              TypeOK, DispatchTypeOK, budget, record, audit, loopVars
<1>8. ASSUME ClockExpires, UNCHANGED loopVars PROVE TypeInv'
  BY <1>8 DEF ClockExpires, TextInv, TypeOK, DispatchTypeOK, record, audit, loopVars
<1>11. ASSUME LandLate, UNCHANGED loopVars PROVE TypeInv'
  BY <1>11 DEF LandLate, TextInv, TypeOK, DispatchTypeOK, budget, audit, loopVars
<1>9. ASSUME UNCHANGED vars PROVE TypeInv'
  BY <1>9 DEF vars, dispatchVars, loopVars, TextInv, TypeOK, DispatchTypeOK, budget, record, audit
<1> QED BY <1>1, <1>2, <1>3, <1>4, <1>5, <1>6, <1>7, <1>8, <1>9, <1>10, <1>11 DEF Next

\* Whatever models, tools, stores and cancellations do, every variable keeps
\* its type.
THEOREM Typing == Spec => []TypeOK
<1>1. TypeInv => TypeOK
  BY DEF TypeInv
<1> QED BY <1>1, TypingInit, TypingStep, PTL DEF Spec

-------------------------------------------------------------------------------
(* Entitlement.  Reserving, asking the policy and starting the tool are one *)
(* step; every other step leaves the counters and the running tools alone.  *)

EntitlementInv ==
    /\ calls.mission <= MissionCalls
    /\ \A t \in Tasks : executed[t] <= calls.task[t] /\ calls.task[t] <= TaskCalls
    /\ \A a \in Agents : pc[a] = "executing" => Authorized(request[a])

\* Other agents are where they were.
LEMMA OthersStay ==
  ASSUME NEW a \in Agents, TypeInv, NEW p, Goto(a, p)
  PROVE  pc'[a] = p /\ \A b \in Agents \ {a} : pc'[b] = pc[b]
BY DEF TypeInv, TypeOK, Goto

LEMMA EntitlementFrame ==
  ASSUME TypeInv, [Next]_vars
  PROVE  \/ \E a \in Agents : Admit(a)
         \/ /\ UNCHANGED <<calls, executed>>
            /\ \A b \in Agents : pc'[b] = "executing" =>
                  pc[b] = "executing" /\ request'[b] = request[b]
<1> DEFINE Same ==
        /\ UNCHANGED <<calls, executed>>
        /\ \A b \in Agents : pc'[b] = "executing" =>
              pc[b] = "executing" /\ request'[b] = request[b]
<1> USE DEF budget
<1>1. ASSUME NEW a \in Agents, Finish(a), UNCHANGED <<calls, executed>> PROVE Same
  BY <1>1 DEF Finish, EndCall, Goto, TypeInv, TypeOK, DispatchTypeOK
<1>2. ASSUME NEW a \in Agents, NEW r \in Requests, StartCall(a, r), UNCHANGED <<calls, executed>>
      PROVE Same
  BY <1>2 DEF StartCall, Goto, TypeInv, TypeOK, DispatchTypeOK
<1>3. ASSUME NEW a \in Agents, NEW p, p # "executing", Goto(a, p),
             UNCHANGED <<request, calls, executed>>
      PROVE Same
  BY <1>3, OthersStay
<1>4. ASSUME NEW a \in Agents, Execute(a) \/ EnterModel(a) \/ Model(a) PROVE Same
  <2>1. CASE Execute(a)
    BY <1>3, <2>1 DEF Execute
  <2>2. CASE EnterModel(a)
    BY <1>1, <1>3, <2>2 DEF EnterModel
  <2>3. CASE Ask(a) \/ ModelAnswers(a) \/ ModelFails(a)
    BY <1>3, <2>3 DEF Ask, ModelAnswers, ModelFails
  <2>4. CASE ModelRaises(a) \/ Respond(a)
    BY <1>1, <1>2, <2>4 DEF ModelRaises, Respond
  <2> QED BY <1>4, <2>1, <2>2, <2>3, <2>4 DEF Model
<1>5. ASSUME NEW a \in Agents,
             ToolReturns(a) \/ Spill(a) \/ ReadEvidence(a) \/ SaveEvidence(a) \/ File(a)
      PROVE Same
  <2>1. CASE ToolReturns(a)
    BY <1>3, <2>1 DEF ToolReturns
  <2>2. CASE Spill(a) \/ ReadEvidence(a) \/ SaveEvidence(a) \/ File(a)
    BY <1>3, <2>2 DEF Spill, ReadEvidence, SaveEvidence, File
  <2> QED BY <1>5, <2>1, <2>2
<1>6. ASSUME NEW a \in Agents, Observe(a) \/ ObserveLast(a) \/ LoopRaises(a) PROVE Same
  <2>1. UNCHANGED <<calls, executed>>
    BY <1>6 DEF Observe, ObserveLast, LoopRaises, CallUnavailable, CloseCall, FailCall
  <2>2. CASE Advance(a)
    <3>1. CASE \E r \in Requests : StartCall(a, r)
      BY <1>2, <2>1, <3>1
    <3>2. CASE Goto(a, "waiting") /\ EndCall(a)
      BY <2>1, <3>2 DEF EndCall, Goto, TypeInv, TypeOK, DispatchTypeOK
    <3> QED BY <2>2, <3>1, <3>2 DEF Advance
  <2> QED BY <1>1, <1>6, <2>1, <2>2 DEF Observe, ObserveLast, LoopRaises
<1>7. ASSUME NEW a \in Agents, Interrupt(a) PROVE Same
  BY <1>1, <1>7 DEF Interrupt, Leave
<1>8. ASSUME NEW a \in Agents, CallRaises(a) PROVE Same
  BY <1>3, <1>8 DEF CallRaises
<1>9. CASE ClockExpires \/ LandLate
  BY <1>9 DEF ClockExpires, LandLate
<1>10. CASE UNCHANGED vars
  BY <1>10 DEF vars, dispatchVars
<1> QED
  BY <1>4, <1>5, <1>6, <1>7, <1>8, <1>9, <1>10 DEF Next, Dispatch, Read

LEMMA EntitlementAdmit ==
  ASSUME NEW a \in Agents, TypeInv, EntitlementInv, Admit(a)
  PROVE  EntitlementInv'
<1> USE DispatchAssumption
        DEF TypeInv, TypeOK, DispatchTypeOK, EntitlementInv, Admit, Goto, HasBudget
<1> DEFINE t == TaskOf[a]
<1>1. t \in Tasks /\ request' = request
  OBVIOUS
<1>2. CASE HasBudget(t) /\ Reserve(t)
  <2>1. calls \in Totals /\ calls' = Grown(calls, t, 1)
    BY <1>2 DEF Reserve, Grown, Totals
  <2>2. /\ calls'.mission = calls.mission + 1
        /\ \A x \in Tasks : calls'.task[x] = IF x = t THEN calls.task[x] + 1 ELSE calls.task[x]
    <3> HIDE DEF t, Admit, TypeInv, TypeOK, DispatchTypeOK, EntitlementInv, HasBudget
    <3>1. 1 \in Nat
      OBVIOUS
    <3> QED BY <1>1, <2>1, <3>1, GrownTotals
  <2>3. calls'.mission <= MissionCalls /\ \A x \in Tasks : calls'.task[x] <= TaskCalls
    BY <1>2, <2>2
  <2>4. CASE ~Authorized(request[a]) /\ Reject(a)
    BY <1>1, <2>2, <2>3, <2>4 DEF Reject
  <2>6. CASE Misjudge(a)
    BY <1>1, <2>2, <2>3, <2>6 DEF Misjudge
  <2>5. CASE Authorized(request[a]) /\ Start(a)
    <3>1. \A x \in Tasks : executed'[x] = IF x = t THEN executed[x] + 1 ELSE executed[x]
      BY <1>1, <2>5 DEF Start
    <3>2. \A x \in Tasks : executed'[x] <= calls'.task[x]
      BY <2>2, <3>1
    <3>3. \A b \in Agents : pc'[b] = "executing" => Authorized(request[b])
      BY <2>5 DEF Start
    <3> QED BY <1>1, <2>3, <3>2, <3>3 DEF Authorized
  <2> QED BY <1>2, <2>4, <2>5, <2>6 DEF Admission, Judge
<1>3. CASE ~HasBudget(t) /\ Reject(a) /\ UNCHANGED calls
  BY <1>1, <1>3 DEF Reject
<1> QED BY <1>2, <1>3 DEF Admission

\* Tools are executed within the mission's and the task's budget, and only on
\* requests in scope, for any number of agents that call at once.
THEOREM Entitlement == Spec => []ExecutionsAreEntitled
<1>1. Init => EntitlementInv
  BY DispatchAssumption DEF Init, DispatchInit, EntitlementInv
<1>2. TypeInv /\ EntitlementInv /\ [Next]_vars => EntitlementInv'
  <2> SUFFICES ASSUME TypeInv, EntitlementInv, [Next]_vars PROVE EntitlementInv'
    OBVIOUS
  <2>1. CASE \E a \in Agents : Admit(a)
    BY <2>1, EntitlementAdmit
  <2>2. CASE /\ UNCHANGED <<calls, executed>>
             /\ \A b \in Agents : pc'[b] = "executing" =>
                   pc[b] = "executing" /\ request'[b] = request[b]
    BY <2>2 DEF EntitlementInv, Authorized
  <2> QED BY <2>1, <2>2, EntitlementFrame
<1>3. TypeInv /\ EntitlementInv => ExecutionsAreEntitled
  <2> SUFFICES ASSUME TypeInv, EntitlementInv PROVE ExecutionsAreEntitled
    OBVIOUS
  <2>1. ASSUME NEW t \in Tasks PROVE executed[t] <= TaskCalls
    <3>1. executed[t] \in Nat /\ calls.task[t] \in Nat /\ TaskCalls \in Nat
      BY DispatchAssumption DEF TypeInv, TypeOK, DispatchTypeOK
    <3> QED BY <3>1 DEF EntitlementInv
  <2> QED BY <2>1 DEF EntitlementInv, ExecutionsAreEntitled
<1> QED BY <1>1, <1>2, <1>3, TypingInit, TypingStep, PTL DEF Spec

-------------------------------------------------------------------------------
(* Spending.  The agent inside the call lock is the only one at the model,   *)
(* and between its check of the budget and its report nobody else reports.  *)

SpendingInv ==
    /\ \A a \in Agents : pc[a] \in ModelSteps => callLock = a
    /\ \A a \in Agents : pc[a] \in {"asking", "generating"} => ~Exhausted(TaskOf[a])

\* Apart from the steps of the lock's holder, and of an agent that takes the
\* free lock, nothing happens at the model.
LEMMA SpendingFrame ==
  ASSUME TypeInv, [Next]_vars
  PROVE  \/ \E a \in Agents : EnterModel(a) \/ Model(a) \/ Interrupt(a)
         \/ /\ UNCHANGED <<callLock, used>>
            /\ \A b \in Agents : pc'[b] \in ModelSteps => pc'[b] = pc[b]
<1> DEFINE Away ==
        /\ UNCHANGED <<callLock, used>>
        /\ \A b \in Agents : pc'[b] \in ModelSteps => pc'[b] = pc[b]
<1> USE DEF ModelSteps, loopVars
<1>1. ASSUME NEW a \in Agents, NEW p, p \notin ModelSteps, Goto(a, p), UNCHANGED <<callLock, used>>
      PROVE Away
  BY <1>1, OthersStay
<1>2. ASSUME NEW a \in Agents, Execute(a) PROVE Away
  BY <1>1, <1>2 DEF Execute
<1>3. ASSUME NEW a \in Agents, Dispatch(a) PROVE Away
  <2>1. CASE Admit(a)
    BY <1>1, <1>3, <2>1 DEF Dispatch, Admit, Admission, Judge, Misjudge, Reject, Start
  <2>2. CASE ToolReturns(a)
    BY <1>1, <1>3, <2>2 DEF Dispatch, ToolReturns
  <2>3. CASE Spill(a) \/ SaveEvidence(a) \/ File(a)
    BY <1>1, <1>3, <2>3 DEF Dispatch, Spill, SaveEvidence, File
  <2> QED BY <1>3, <2>1, <2>2, <2>3 DEF Dispatch
<1>4. ASSUME NEW a \in Agents, Observe(a) \/ ObserveLast(a) \/ LoopRaises(a) PROVE Away
  <2>1. \E p : p \notin ModelSteps /\ Goto(a, p)
    BY <1>4 DEF Observe, ObserveLast, LoopRaises, Advance, Finish, StartCall
  <2>2. UNCHANGED <<callLock, used>>
    BY <1>4 DEF Observe, ObserveLast, LoopRaises
  <2> QED BY <1>1, <2>1, <2>2
<1>5. ASSUME NEW a \in Agents, CallRaises(a) \/ ReadEvidence(a), UNCHANGED loopVars
      PROVE Away
  BY <1>1, <1>5 DEF CallRaises, ReadEvidence
<1>6. CASE (ClockExpires \/ LandLate) /\ UNCHANGED loopVars
  BY <1>6 DEF ClockExpires, LandLate
<1>7. CASE UNCHANGED vars
  BY <1>7 DEF vars, dispatchVars
<1> QED BY <1>2, <1>3, <1>4, <1>5, <1>6, <1>7 DEF Next, Read

\* Whose call ends, by whichever way, leaves no lock to others' confusion.
LEMMA SpendingStep == TypeInv /\ SpendingInv /\ [Next]_vars => SpendingInv'
<1> SUFFICES ASSUME TypeInv, SpendingInv, [Next]_vars PROVE SpendingInv'
  OBVIOUS
<1> USE LoopAssumption DEF SpendingInv, ModelSteps
<1>1. ASSUME NEW a \in Agents, EnterModel(a) PROVE SpendingInv'
  <2>1. UNCHANGED used
    BY <1>1 DEF EnterModel
  <2>2. CASE Finish(a) /\ UNCHANGED callLock
    BY <2>1, <2>2, OthersStay DEF Finish, Exhausted
  <2>3. CASE callLock = NoAgent /\ ~Exhausted(TaskOf[a]) /\ Goto(a, "asking") /\ callLock' = a
    BY <2>1, <2>3, OthersStay DEF Exhausted
  <2> QED BY <1>1, <2>2, <2>3 DEF EnterModel, CallLockFree
<1>2. ASSUME NEW a \in Agents, Ask(a) \/ ModelFails(a) PROVE SpendingInv'
  BY <1>2, OthersStay DEF Ask, ModelFails, loopVars, Exhausted
<1>3. ASSUME NEW a \in Agents, ModelAnswers(a) PROVE SpendingInv'
  BY <1>3, OthersStay DEF ModelAnswers
<1>4. ASSUME NEW a \in Agents, ModelRaises(a) \/ Respond(a) \/ Interrupt(a) PROVE SpendingInv'
  <2>1. UNCHANGED used
    BY <1>4 DEF ModelRaises, Respond, Interrupt
  <2>2. \E p : p \notin ModelSteps /\ Goto(a, p)
    BY <1>4 DEF ModelRaises, Respond, Interrupt, Finish, StartCall
  <2>3. callLock' = NoAgent \/ callLock' = callLock
    BY <1>4 DEF ModelRaises, Respond, Interrupt, LockAfterFailure
  <2>4. callLock' # callLock => callLock = a
    BY <1>4 DEF ModelRaises, Respond, Interrupt, LockAfterFailure
  <2> QED BY <2>1, <2>2, <2>3, <2>4, OthersStay DEF Exhausted
<1>5. CASE /\ UNCHANGED <<callLock, used>>
           /\ \A b \in Agents : pc'[b] \in ModelSteps => pc'[b] = pc[b]
  BY <1>5 DEF Exhausted
<1> QED BY <1>1, <1>2, <1>3, <1>4, <1>5, SpendingFrame DEF Model

\* Recording what a call used is a charge that the budget still covers.
LEMMA AnswerCharges ==
  ASSUME TypeInv, SpendingInv, NEW a \in Agents, ModelAnswers(a)
  PROVE  Budget!Next
<1>1. PICK n \in Usages :
        used' = [used EXCEPT !.mission = @ + n, !.task[TaskOf[a]] = @ + n]
  BY DEF ModelAnswers
<1>2. /\ TaskOf[a] \in Tasks /\ used \in Totals
      /\ MissionTokens \in Nat /\ TaskTokens \in Nat
  BY DispatchAssumption, LoopAssumption DEF TypeInv, TypeOK, Totals
<1>3. used.mission < MissionTokens /\ used.task[TaskOf[a]] < TaskTokens
  BY <1>2 DEF ModelAnswers, SpendingInv, Exhausted, Totals
<1>4. Budget!Charge(TaskOf[a], n)
  BY <1>1, <1>3 DEF Budget!Charge, Budget!Available
<1> QED BY <1>1, <1>2, <1>4 DEF Budget!Next, Usages

\* Calls under the lock are charged as if each were checked and charged at once.
THEOREM BudgetRefinement == Spec => ImplementsModelBudget
<1>1. Init => SpendingInv /\ Budget!Init
  BY DEF Init, SpendingInv, ModelSteps, Budget!Init
<1>2. TypeInv /\ SpendingInv /\ [Next]_vars => [Budget!Next]_used
  <2> SUFFICES ASSUME TypeInv, SpendingInv, [Next]_vars
               PROVE  Budget!Next \/ UNCHANGED used
    OBVIOUS
  <2>1. ASSUME NEW a \in Agents, EnterModel(a) \/ Interrupt(a) PROVE UNCHANGED used
    BY <2>1 DEF EnterModel, Interrupt
  <2>2. ASSUME NEW a \in Agents, Ask(a) \/ ModelFails(a) \/ ModelRaises(a) \/ Respond(a)
        PROVE UNCHANGED used
    BY <2>2 DEF Ask, ModelFails, ModelRaises, Respond, loopVars
  <2> QED BY <2>1, <2>2, AnswerCharges, SpendingFrame DEF Model
<1> QED BY <1>1, <1>2, SpendingStep, TypingInit, TypingStep, PTL
        DEF Spec, Budget!Spec, ImplementsModelBudget

\* A charge overruns a limit by less than the tokens of one call.
LEMMA ChargeBounded ==
  used \in Totals /\ OverspendBounded /\ [Budget!Next]_used => OverspendBounded'
<1> SUFFICES ASSUME used \in Totals, OverspendBounded, [Budget!Next]_used
             PROVE  OverspendBounded'
  OBVIOUS
<1>1. ASSUME NEW t \in Tasks, NEW n \in 0 .. MaxUsage, Budget!Charge(t, n)
      PROVE  OverspendBounded'
  <2>1. /\ n \in Nat /\ n <= MaxUsage /\ MaxUsage \in Nat
        /\ MissionTokens \in Nat /\ TaskTokens \in Nat
        /\ used.mission \in Nat /\ \A x \in Tasks : used.task[x] \in Nat
    BY LoopAssumption DEF Totals
  <2>2. used' = Grown(used, t, n)
    BY <1>1 DEF Budget!Charge, Grown
  <2>3. /\ used'.mission = used.mission + n
        /\ \A x \in Tasks :
              used'.task[x] = IF x = t THEN used.task[x] + n ELSE used.task[x]
    <3> DEFINE g == Grown(used, t, n)
    <3>1. /\ g.mission = used.mission + n
          /\ \A x \in Tasks : g.task[x] = IF x = t THEN used.task[x] + n ELSE used.task[x]
      BY <2>1, GrownTotals
    <3>2. used' = g
      BY <2>2
    <3> HIDE DEF g
    <3> QED BY ONLY <3>1, <3>2
  <2>4. used.mission < MissionTokens /\ used.task[t] < TaskTokens
    BY <1>1 DEF Budget!Charge, Budget!Available
  <2>5. used'.mission < MissionTokens + MaxUsage
    BY <2>1, <2>3, <2>4
  <2>6. ASSUME NEW x \in Tasks
        PROVE used'.task[x] = 0 \/ used'.task[x] < TaskTokens + MaxUsage
    BY <2>1, <2>3, <2>4 DEF OverspendBounded
  <2> QED BY <2>5, <2>6 DEF OverspendBounded
<1>2. CASE UNCHANGED used
  BY <1>2 DEF OverspendBounded
<1> QED BY <1>1, <1>2 DEF Budget!Next

\* The limits are overrun by less than the tokens of one call, for any number
\* of agents.
THEOREM Spending == Spec => []OverspendBounded
<1>1. Budget!Init => OverspendBounded
  BY DEF Budget!Init, OverspendBounded
<1>2. TypeOK => used \in Totals
  BY DEF TypeOK, Totals
<1> QED BY <1>1, <1>2, ChargeBounded, BudgetRefinement, Typing, PTL
        DEF ImplementsModelBudget, Budget!Spec

-------------------------------------------------------------------------------
(* Evidence.  From the tool to the agent's messages a text passes the        *)
(* artifact store, if it is large, and the evidence repository, in order.   *)
(* One agent writes the repository at a time, and until the thread of a      *)
(* cancelled save gets at the file nothing changes it between an agent's     *)
(* read and its write.                                                       *)

Captured == {"saving", "writing", "filing", "closing"}

SpilledInv == \A a \in Agents :
    pc[a] \in Captured /\ content[a] # NoText /\ content[a] \in Large
        => content[a] \in artifacts

FiledInv == \A a \in Agents :
    pc[a] \in {"filing", "closing"} /\ content[a] # NoText => Item(a) \in evidence \/ torn

WritingInv ==
    /\ \A a, b \in Agents : pc[a] = "writing" /\ pc[b] = "writing" => a = b
    /\ \A a \in Agents : pc[a] = "writing" => draft[a] = evidence \cup {Item(a)} \/ torn

EvidenceInv == SpilledInv /\ FiledInv /\ WritingInv /\ ObservationsOnRecord

\* What an agent sees in a step: what it saw, and the call that it closes.
Seen(a) == IF pc[a] = "closing" /\ content[a] # NoText
           THEN observed[a] \cup {Item(a)} ELSE observed[a]

\* Outside the dispatcher no text moves, and nothing is ever taken off record.
Apart ==
    /\ evidence' = evidence /\ torn' = torn /\ artifacts \subseteq artifacts'
    /\ \A b \in Agents :
          /\ pc'[b] \in Captured =>
                pc'[b] = pc[b] /\ content'[b] = content[b] /\ draft'[b] = draft[b]
          /\ observed'[b] \subseteq Seen(b)

LEMMA EvidenceFrame ==
  ASSUME TypeInv, [Next]_vars
  PROVE  (\E a \in Agents : Dispatch(a) \/ Read(a)) \/ LandLate \/ Apart
<1> DEFINE Kept == evidence' = evidence /\ torn' = torn /\ artifacts \subseteq artifacts'
           Drafts(a) == \A b \in Agents \ {a} : draft'[b] = draft[b]
           Still(a) == /\ pc'[a] \notin Captured
                       /\ \A b \in Agents \ {a} : pc'[b] = pc[b] /\ content'[b] = content[b]
           Sees == \A b \in Agents : observed'[b] \subseteq Seen(b)
<1> USE DEF record, Captured
<1>0. ASSUME NEW a \in Agents, Kept, Drafts(a), Still(a), Sees PROVE Apart
  BY <1>0 DEF Apart
<1>1. ASSUME NEW a \in Agents, Finish(a) PROVE Still(a) /\ Sees
  BY <1>1 DEF Finish, EndCall, Goto, TypeInv, TypeOK, DispatchTypeOK, Seen
<1>2. ASSUME NEW a \in Agents, NEW r \in Requests, StartCall(a, r) PROVE Still(a)
  BY <1>2 DEF StartCall, Goto, TypeInv, TypeOK, DispatchTypeOK
<1>3. ASSUME NEW a \in Agents, NEW p, p \notin Captured, Goto(a, p), UNCHANGED content
      PROVE Still(a)
  BY <1>3, OthersStay
<1>4. ASSUME UNCHANGED observed PROVE Sees
  BY <1>4 DEF Seen
<1>5. ASSUME NEW a \in Agents, Execute(a) \/ EnterModel(a) \/ Model(a) PROVE Apart
  <2>0. Kept /\ Drafts(a)
    BY <1>5 DEF Execute, EnterModel, Model, Ask, ModelAnswers, ModelFails, ModelRaises, Respond
  <2>1. CASE Execute(a)
    BY <1>0, <1>3, <1>4, <2>0, <2>1 DEF Execute
  <2>2. CASE EnterModel(a)
    BY <1>0, <1>1, <1>3, <1>4, <2>0, <2>2 DEF EnterModel
  <2>3. CASE Ask(a) \/ ModelAnswers(a) \/ ModelFails(a)
    BY <1>0, <1>3, <1>4, <2>0, <2>3 DEF Ask, ModelAnswers, ModelFails
  <2>4. CASE ModelRaises(a) \/ Respond(a)
    BY <1>0, <1>1, <1>2, <1>4, <2>0, <2>4 DEF ModelRaises, Respond
  <2> QED BY <1>5, <2>1, <2>2, <2>3, <2>4 DEF Model
<1>6. ASSUME NEW a \in Agents, Observe(a) \/ ObserveLast(a) \/ LoopRaises(a)
      PROVE Apart
  <2>1. Kept /\ Drafts(a)
    BY <1>6 DEF Observe, ObserveLast, LoopRaises, CallUnavailable, CloseCall, FailCall
  <2>2. CASE Observe(a)
    <3>1. Still(a)
      <4>1. CASE \E r \in Requests : StartCall(a, r)
        BY <1>2, <4>1
      <4>2. CASE Goto(a, "waiting") /\ EndCall(a)
        BY <4>2 DEF EndCall, Goto, TypeInv, TypeOK, DispatchTypeOK
      <4> QED BY <2>2, <4>1, <4>2 DEF Observe, Advance
    <3>2. Sees
      BY <2>2, <1>4 DEF Observe, CloseCall, See, Seen, TypeInv, TypeOK, DispatchTypeOK
    <3> QED BY <1>0, <2>1, <3>1, <3>2
  <2> QED BY <1>0, <1>1, <1>6, <2>1, <2>2 DEF ObserveLast, LoopRaises
<1>7. ASSUME NEW a \in Agents, Interrupt(a) PROVE Apart
  <2>1. Kept /\ Drafts(a)
    BY <1>7 DEF Interrupt, Leave, TypeInv, TypeOK, DispatchTypeOK
  <2> QED BY <1>0, <1>1, <1>7, <2>1 DEF Interrupt
<1>8. ASSUME NEW a \in Agents, CallRaises(a) PROVE Apart
  <2>1. Kept /\ Drafts(a)
    BY <1>8 DEF CallRaises, TypeInv, TypeOK, DispatchTypeOK
  <2> QED BY <1>0, <1>3, <1>4, <1>8, <2>1 DEF CallRaises
<1>9. CASE ClockExpires
  BY <1>9 DEF ClockExpires, Apart, Seen
<1>10. CASE UNCHANGED vars
  BY <1>10 DEF vars, dispatchVars, Apart, Seen
<1> QED BY <1>5, <1>6, <1>7, <1>8, <1>9, <1>10 DEF Next

LEMMA EvidenceDispatch ==
  ASSUME NEW a \in Agents, TypeInv, EvidenceInv, Dispatch(a) \/ Read(a)
  PROVE  EvidenceInv'
<1>1. /\ observed' = observed /\ torn' = torn /\ artifacts \subseteq artifacts'
      /\ evidence \subseteq evidence' \/ torn
  <2>1. CASE SaveEvidence(a)
    BY <2>1 DEF SaveEvidence, EvidenceInv, WritingInv
  <2> QED BY <2>1 DEF Dispatch, Read, Admit, ToolReturns, Spill, ReadEvidence, File, record
<1>2. ObservationsOnRecord'
  BY <1>1 DEF EvidenceInv, ObservationsOnRecord
<1> SUFFICES SpilledInv' /\ FiledInv' /\ WritingInv'
  BY <1>2 DEF EvidenceInv
<1> USE DEF EvidenceInv, SpilledInv, FiledInv, WritingInv, Captured, Item, record
<1>3. CASE Admit(a)
  <2>1. content' = content /\ content[a] = NoText
    BY <1>3 DEF Admit, Admission, Judge, Misjudge, Reject, Start, TypeInv, TextInv
  <2>2. /\ UNCHANGED <<evidence, artifacts, draft>>
        /\ \E p \in {"closing", "failing", "executing"} : Goto(a, p)
    BY <1>3 DEF Admit, Admission, Judge, Misjudge, Reject, Start
  <2> QED BY <1>1, <2>1, <2>2, OthersStay
<1>4. CASE ToolReturns(a)
  <2>1. PICK x \in Texts :
          /\ content' = [content EXCEPT ![a] = Redact[x]]
          /\ Goto(a, IF Redact[x] \in Large THEN "spilling" ELSE "saving")
    BY <1>4 DEF ToolReturns
  <2>2. content'[a] = Redact[x] /\ \A b \in Agents \ {a} : content'[b] = content[b]
    BY <2>1 DEF TypeInv, TypeOK, DispatchTypeOK
  <2>3. UNCHANGED <<evidence, artifacts, draft>>
    BY <1>4 DEF ToolReturns
  <2> QED BY <1>1, <2>1, <2>2, <2>3, OthersStay
<1>5. CASE Spill(a)
  BY <1>5, OthersStay DEF Spill
<1>6. CASE ReadEvidence(a)
  <2>1. /\ UNCHANGED <<content, evidence, artifacts, torn>> /\ \A b \in Agents : pc[b] # "writing"
        /\ draft'[a] = evidence \cup {Item(a)}
    BY <1>6 DEF ReadEvidence, RepositoryFree, TypeInv, TypeOK, DispatchTypeOK
  <2>2. pc[a] = "saving" /\ pc'[a] = "writing" /\ \A b \in Agents \ {a} : pc'[b] = pc[b]
    BY <1>6, OthersStay DEF ReadEvidence
  <2> QED BY <2>1, <2>2
<1>7. CASE SaveEvidence(a)
  <2>1. /\ UNCHANGED <<content, artifacts, torn>> /\ evidence' = draft[a]
        /\ pc[a] = "writing" /\ pc'[a] = "filing" /\ \A b \in Agents \ {a} : pc'[b] = pc[b]
    BY <1>7, OthersStay DEF SaveEvidence
  <2>2. \A b \in Agents : pc'[b] # "writing"
    BY <2>1
  <2>3. draft[a] = evidence \cup {Item(a)} \/ torn
    BY <2>1
  <2> QED BY <2>1, <2>2, <2>3
<1>8. CASE File(a)
  BY <1>8, OthersStay DEF File
<1> QED BY <1>3, <1>4, <1>5, <1>6, <1>7, <1>8 DEF Dispatch, Read

LEMMA EvidenceApart == TypeInv /\ EvidenceInv /\ Apart => EvidenceInv'
<1> SUFFICES ASSUME TypeInv, EvidenceInv, Apart PROVE EvidenceInv'
  OBVIOUS
<1>1. SpilledInv' /\ FiledInv' /\ WritingInv'
  BY DEF Apart, EvidenceInv, SpilledInv, FiledInv, WritingInv, Captured, Item
<1>2. ASSUME NEW a \in Agents, NEW x \in observed'[a]
      PROVE  /\ x \in evidence' \/ torn'
             /\ x.text \in Redacted
             /\ x.spilled => x.text \in artifacts'
  <2>1. CASE x \in observed[a]
    BY <2>1 DEF Apart, EvidenceInv, ObservationsOnRecord, Redacted
  <2>2. CASE pc[a] = "closing" /\ content[a] # NoText /\ x = Item(a)
    BY <2>2 DEF Apart, EvidenceInv, SpilledInv, FiledInv, Captured, Item, TypeInv, TextInv
  <2> QED BY <1>2, <2>1, <2>2 DEF Apart, Seen
<1> QED BY <1>1, <1>2 DEF EvidenceInv, ObservationsOnRecord, Redacted

\* What an agent has seen of a tool is on record, redacted, for any texts,
\* redaction and faults, until the thread of a cancelled save writes its old
\* records over the file.
THEOREM EvidenceOnRecord == Spec => []ObservationsOnRecord
<1>1. Init => EvidenceInv
  BY DEF Init, DispatchInit, EvidenceInv, SpilledInv, FiledInv, WritingInv, Captured,
         ObservationsOnRecord
<1>2. TypeInv /\ EvidenceInv /\ [Next]_vars => EvidenceInv'
  <2> SUFFICES ASSUME TypeInv, EvidenceInv, [Next]_vars PROVE EvidenceInv'
    OBVIOUS
  <2>1. CASE LandLate
    BY <2>1 DEF LandLate, EvidenceInv, SpilledInv, FiledInv, WritingInv, Captured,
                ObservationsOnRecord, Item
  <2> QED BY <2>1, EvidenceDispatch, EvidenceApart, EvidenceFrame
<1>3. EvidenceInv => ObservationsOnRecord
  BY DEF EvidenceInv
<1> QED BY <1>1, <1>2, <1>3, TypingInit, TypingStep, PTL DEF Spec

-------------------------------------------------------------------------------
(* Audit.  A step that takes a call from one side of its events to the other *)
(* publishes the event, or leaves a gap.                                     *)

LEMMA AuditFrame ==
  ASSUME TypeInv, [Next]_vars
  PROVE  \/ \E a \in Agents :
               Admit(a) \/ Observe(a) \/ ObserveLast(a) \/ LoopRaises(a) \/ Interrupt(a)
         \/ UNCHANGED audit /\ \A b \in Agents : pc'[b] \in InCall <=> pc[b] \in InCall
<1> DEFINE Away == UNCHANGED audit /\ \A b \in Agents : pc'[b] \in InCall <=> pc[b] \in InCall
<1> USE DEF InCall, ModelSteps
<1>1. ASSUME NEW a \in Agents, NEW p, Goto(a, p), UNCHANGED audit,
             pc[a] \in InCall <=> p \in InCall
      PROVE Away
  BY <1>1, OthersStay
<1>2. ASSUME NEW a \in Agents, Execute(a) \/ EnterModel(a) \/ Model(a) PROVE Away
  <2>1. pc[a] \notin InCall /\ UNCHANGED audit
    BY <1>2 DEF Execute, EnterModel, Model, Ask, ModelAnswers, ModelFails, ModelRaises, Respond
  <2>2. \E p : p \notin InCall /\ Goto(a, p)
    BY <1>2 DEF Execute, EnterModel, Model, Ask, ModelAnswers, ModelFails, ModelRaises, Respond,
                Finish, StartCall
  <2> QED BY <1>1, <2>1, <2>2
<1>3. ASSUME NEW a \in Agents,
             ToolReturns(a) \/ Spill(a) \/ ReadEvidence(a) \/ SaveEvidence(a) \/ File(a)
      PROVE Away
  <2>1. pc[a] \in InCall /\ UNCHANGED audit
    BY <1>3 DEF ToolReturns, Spill, ReadEvidence, SaveEvidence, File
  <2>2. \E p \in InCall : Goto(a, p)
    BY <1>3 DEF ToolReturns, Spill, ReadEvidence, SaveEvidence, File
  <2> QED BY <1>1, <2>1, <2>2
<1>4. ASSUME NEW a \in Agents, CallRaises(a) PROVE Away
  BY <1>1, <1>4 DEF CallRaises
<1>5. CASE ClockExpires \/ LandLate
  BY <1>5 DEF ClockExpires, LandLate
<1>6. CASE UNCHANGED vars
  BY <1>6 DEF vars, dispatchVars
<1> QED BY <1>2, <1>3, <1>4, <1>5, <1>6 DEF Next, Dispatch, Read

\* One agent's balance, and how the events of a step change it.
Balance(a) == open[a] - (IF pc[a] \in InCall THEN 1 ELSE 0)

LEMMA PublishEffect ==
  ASSUME NEW a \in Agents, NEW d \in {-1, 1}, TypeInv, Publish(a, d)
  PROVE  /\ \/ open'[a] = open[a] + d /\ gaps'[a] = gaps[a]
            \/ open'[a] = open[a] /\ gaps'[a] = gaps[a] + 1
         /\ \A b \in Agents \ {a} : open'[b] = open[b] /\ gaps'[b] = gaps[b]
BY DEF Publish, Traced, Dropped, TypeInv, TypeOK, DispatchTypeOK

\* Each tool.called is followed by one terminal event, but for the events that
\* the tracer failed to write and the calls that were cancelled.
THEOREM AuditTrail == Spec => []AuditBalances
<1>1. Init => AuditBalances
  <2> SUFFICES ASSUME Init, NEW a \in Agents PROVE Balance(a) \in -gaps[a] .. gaps[a]
    BY DEF AuditBalances, Balance
  <2>1. Balance(a) = 0 /\ gaps[a] = 0
    BY DEF Init, DispatchInit, InCall, Balance
  <2> QED BY <2>1
<1>2. TypeInv /\ AuditBalances /\ [Next]_vars => AuditBalances'
  <2> SUFFICES ASSUME TypeInv, AuditBalances, [Next]_vars PROVE AuditBalances'
    OBVIOUS
  <2>1. \A a \in Agents : open[a] \in Int /\ gaps[a] \in Nat
    BY DEF TypeInv, TypeOK, DispatchTypeOK
  <2>2. \A a \in Agents : -gaps[a] <= Balance(a) /\ Balance(a) <= gaps[a]
    BY <2>1 DEF AuditBalances, Balance
  <2>3. \A a \in Agents : open'[a] \in Int /\ gaps'[a] \in Nat
    BY TypingStep DEF TypeInv, TypeOK, DispatchTypeOK
  <2> SUFFICES \A a \in Agents : -gaps'[a] <= Balance(a)' /\ Balance(a)' <= gaps'[a]
    BY <2>3 DEF AuditBalances, Balance
  <2> USE DEF InCall
  <2>4. ASSUME NEW a \in Agents, Admit(a)
        PROVE  \A b \in Agents : -gaps'[b] <= Balance(b)' /\ Balance(b)' <= gaps'[b]
    <3>1. \E p \in InCall : Goto(a, p)
      BY <2>4 DEF Admit, Admission, Judge, Misjudge, Reject, Start
    <3>2. pc[a] \notin InCall /\ Publish(a, 1)
      BY <2>4 DEF Admit
    <3> QED BY <2>1, <2>2, <3>1, <3>2, OthersStay, PublishEffect DEF Balance
  <2>5. ASSUME NEW a \in Agents, Observe(a) \/ ObserveLast(a) \/ LoopRaises(a)
        PROVE  \A b \in Agents : -gaps'[b] <= Balance(b)' /\ Balance(b)' <= gaps'[b]
    <3>1. \E p : p \notin InCall /\ Goto(a, p)
      BY <2>5 DEF Observe, ObserveLast, LoopRaises, Advance, Finish, StartCall
    <3>2. CASE CallUnavailable(a)
      BY <2>2, <3>1, <3>2, OthersStay DEF CallUnavailable, audit, Balance
    <3>3. CASE pc[a] \in InCall /\ Publish(a, -1)
      BY <2>1, <2>2, <3>1, <3>3, OthersStay, PublishEffect DEF Balance
    <3> QED BY <2>5, <3>2, <3>3 DEF Observe, ObserveLast, LoopRaises, CloseCall, FailCall
  <2>6. ASSUME NEW a \in Agents, Interrupt(a)
        PROVE  \A b \in Agents : -gaps'[b] <= Balance(b)' /\ Balance(b)' <= gaps'[b]
    <3>1. pc'[a] = "idle" /\ \A b \in Agents \ {a} : pc'[b] = pc[b]
      BY <2>6, OthersStay DEF Interrupt, Finish
    <3>2. \A b \in Agents \ {a} : open'[b] = open[b] /\ gaps'[b] = gaps[b]
      BY <2>6 DEF Interrupt, Leave, TypeInv, TypeOK, DispatchTypeOK
    <3>3. \/ open'[a] = open[a]
          \/ pc[a] = "calling" /\ open'[a] = open[a] + 1
          \/ pc[a] \in {"closing", "failing"} /\ open'[a] = open[a] - 1
      BY <2>6 DEF Interrupt, Leave, TypeInv, TypeOK, DispatchTypeOK
    <3>4. gaps'[a] = IF pc[a] \in InCall \cup {"calling"} THEN gaps[a] + 1 ELSE gaps[a]
      BY <2>6 DEF Interrupt, Leave, TypeInv, TypeOK, DispatchTypeOK
    <3> QED BY <2>1, <2>2, <3>1, <3>2, <3>3, <3>4 DEF Balance
  <2>7. CASE UNCHANGED audit /\ \A b \in Agents : pc'[b] \in InCall <=> pc[b] \in InCall
    BY <2>2, <2>7 DEF audit, Balance
  <2> QED BY <2>4, <2>5, <2>6, <2>7, AuditFrame
<1> QED BY <1>1, <1>2, TypingInit, TypingStep, PTL DEF Spec


-------------------------------------------------------------------------------
(* Termination, but for fairness: an execution descends an order without     *)
(* infinite descent, so no fault and no other agent keeps it going round.    *)

\* A move within the model's part or the call's part of a step.
LEMMA Closer ==
  ASSUME TypeInv, NEW a \in Agents, NEW p, Goto(a, p),
         step'[a] = step[a],
         pc[a] \in AtModel <=> p \in AtModel,
         pc[a] \in AtModel \/ queue'[a] = queue[a],
         Distance(p) < Distance(pc[a])
  PROVE  Nearer(a)
<1>1. pc'[a] = p
  BY DEF Goto, TypeInv, TypeOK
<1> QED BY <1>1 DEF Nearer

\* What is left of an execution is bounded in each of its parts.
LEMMA AdvanceDescends ==
  ASSUME TypeInv, NEW a \in Agents, Advance(a), pc[a] \notin AtModel
  PROVE  Nearer(a)
<1>1. /\ queue[a] \in Nat /\ step[a] \in Nat
      /\ queue \in [Agents -> Nat] /\ step \in [Agents -> Nat] /\ DOMAIN pc = Agents
  BY DEF TypeInv, TypeOK
<1>2. queue'[a] = queue[a] - 1
  BY <1>1 DEF Advance
<1>3. CASE queue[a] > 1 /\ (\E r \in Requests : StartCall(a, r)) /\ UNCHANGED step
  <2>1. pc'[a] \in {"calling", "unavailable"}
    BY <1>1, <1>3 DEF StartCall, Goto
  <2> QED BY <1>1, <1>2, <1>3, <2>1 DEF Nearer, AtModel, ModelSteps
<1>4. CASE step' = [step EXCEPT ![a] = NextStep(a)]
  <2>1. step'[a] = step[a] + 1
    BY <1>1, <1>4 DEF NextStep
  <2> QED BY <1>1, <2>1 DEF Nearer
<1> QED BY <1>3, <1>4 DEF Advance

LEMMA OwnDescent ==
  ASSUME TypeInv, NEW a \in Agents, pc[a] # "idle",
         \/ EnterModel(a) \/ Model(a) \/ Dispatch(a) \/ Read(a) \/ Observe(a)
         \/ ObserveLast(a) \/ LoopRaises(a) \/ Interrupt(a)
         \/ CallRaises(a) /\ UNCHANGED loopVars
  PROVE  pc'[a] = "idle" \/ Nearer(a)
<1> USE DEF AtModel, ModelSteps, Distance
<1>1. ASSUME Finish(a) PROVE pc'[a] = "idle"
  BY <1>1 DEF Finish, Goto, TypeInv, TypeOK
<1>2. CASE EnterModel(a)
  <2>1. CASE Goto(a, "asking") /\ UNCHANGED <<step, queue>>
    BY <1>2, <2>1, Closer DEF EnterModel
  <2> QED BY <1>1, <1>2, <2>1 DEF EnterModel
<1>3. CASE Ask(a) \/ ModelAnswers(a) \/ ModelFails(a)
  <2>1. UNCHANGED step
    BY <1>3 DEF Ask, ModelAnswers, ModelFails, loopVars
  <2>2. CASE pc[a] = "asking" /\ Goto(a, "generating")
    BY <2>1, <2>2, Closer
  <2>3. CASE pc[a] = "generating" /\ (Goto(a, "reporting") \/ Goto(a, "complaining"))
    BY <2>1, <2>3, Closer
  <2> QED BY <1>3, <2>2, <2>3 DEF Ask, ModelAnswers, ModelFails
<1>4. CASE Respond(a)
  <2>1. CASE (\E r \in Requests : StartCall(a, r)) /\ UNCHANGED step
    <3>1. pc'[a] \in {"calling", "unavailable"}
      BY <2>1 DEF StartCall, Goto, TypeInv, TypeOK
    <3> QED BY <1>4, <2>1, <3>1 DEF Respond, Nearer
  <2> QED BY <1>1, <1>4, <2>1 DEF Respond
<1>5. CASE Dispatch(a)
  <2>1. UNCHANGED loopVars
    BY <1>5 DEF Dispatch
  <2>2. CASE Admit(a)
    <3>1. pc[a] = "calling" /\ \E p \in {"closing", "failing", "executing"} : Goto(a, p)
      BY <2>2 DEF Admit, Admission, Judge, Misjudge, Reject, Start
    <3> QED BY <2>1, <3>1, Closer DEF loopVars
  <2>3. CASE ToolReturns(a)
    <3>1. pc[a] = "executing" /\ (Goto(a, "spilling") \/ Goto(a, "saving"))
      BY <2>3 DEF ToolReturns
    <3> QED BY <2>1, <3>1, Closer DEF loopVars
  <2>4. CASE Spill(a) \/ SaveEvidence(a) \/ File(a)
    BY <2>1, <2>4, Closer DEF Spill, SaveEvidence, File, loopVars
  <2> QED BY <1>5, <2>2, <2>3, <2>4 DEF Dispatch
<1>6. CASE Observe(a)
  <2>1. pc[a] \in {"unavailable", "closing"} /\ Advance(a)
    BY <1>6 DEF Observe, CallUnavailable, CloseCall
  <2> QED BY <2>1, AdvanceDescends
<1>7. CASE CallRaises(a) /\ UNCHANGED loopVars
  BY <1>7, Closer DEF CallRaises, loopVars
<1>9. CASE Read(a)
  BY <1>9, Closer DEF Read, ReadEvidence, loopVars
<1>8. CASE ModelRaises(a) \/ ObserveLast(a) \/ LoopRaises(a) \/ Interrupt(a)
  BY <1>1, <1>8 DEF ModelRaises, ObserveLast, LoopRaises, Interrupt
<1> QED BY <1>2, <1>3, <1>4, <1>5, <1>6, <1>7, <1>8, <1>9 DEF Model

\* What an agent does leaves the executions of the others where they are.
LEMMA OthersUnmoved ==
  ASSUME TypeInv, NEW a \in Agents, NEW b \in Agents, b # a,
         \/ Execute(b) \/ EnterModel(b) \/ Model(b) \/ Dispatch(b) \/ Read(b) \/ Observe(b)
         \/ ObserveLast(b) \/ LoopRaises(b) \/ Interrupt(b)
         \/ CallRaises(b) /\ UNCHANGED loopVars
  PROVE  Unmoved(a)
<1> DEFINE Moved ==
        /\ \E p : Goto(b, p)
        /\ (step' = step) \/ (\E n : step' = [step EXCEPT ![b] = n])
        /\ (queue' = queue) \/ (\E n : queue' = [queue EXCEPT ![b] = n])
<1>1. ASSUME Finish(b) PROVE Moved
  BY <1>1 DEF Finish
<1>2. ASSUME NEW r \in Requests, StartCall(b, r) PROVE \E p : Goto(b, p)
  BY <1>2 DEF StartCall
<1>3. ASSUME Execute(b) \/ EnterModel(b) PROVE Moved
  <2>1. CASE Execute(b)
    BY <2>1 DEF Execute
  <2>2. CASE EnterModel(b)
    BY <1>1, <2>2 DEF EnterModel
  <2> QED BY <1>3, <2>1, <2>2
<1>4. ASSUME Model(b) PROVE Moved
  BY <1>1, <1>2, <1>4
     DEF Model, Ask, ModelAnswers, ModelFails, ModelRaises, Respond, loopVars
<1>5. ASSUME Dispatch(b) PROVE Moved
  <2>1. UNCHANGED loopVars
    BY <1>5 DEF Dispatch
  <2>2. \E p : Goto(b, p)
    BY <1>5 DEF Dispatch, Admit, Admission, Judge, Misjudge, Reject, Start,
                ToolReturns, Spill, SaveEvidence, File
  <2> QED BY <2>1, <2>2 DEF loopVars
<1>6. ASSUME Observe(b) PROVE Moved
  BY <1>2, <1>6 DEF Observe, Advance
<1>7. ASSUME ObserveLast(b) \/ LoopRaises(b) \/ Interrupt(b) PROVE Moved
  BY <1>1, <1>7 DEF ObserveLast, LoopRaises, Interrupt
<1>8. ASSUME Read(b) \/ (CallRaises(b) /\ UNCHANGED loopVars) PROVE Moved
  BY <1>8 DEF Read, ReadEvidence, CallRaises, loopVars
<1>9. Moved
  BY <1>3, <1>4, <1>5, <1>6, <1>7, <1>8
<1> QED BY <1>9 DEF Unmoved, Goto, TypeInv, TypeOK

\* However agents, faults and tools interleave, what changes of an execution in
\* progress brings it nearer to its end.
THEOREM NoEndlessExecution == Spec => ExecutionsDescend
<1> DEFINE Down == \A a \in Agents :
                pc[a] # "idle" => pc'[a] = "idle" \/ Unmoved(a) \/ Nearer(a)
<1>1. TypeInv /\ [Next]_vars => [Down]_vars
  <2> SUFFICES ASSUME TypeInv, Next, NEW a \in Agents, pc[a] # "idle"
               PROVE  pc'[a] = "idle" \/ Unmoved(a) \/ Nearer(a)
    OBVIOUS
  <2>1. CASE (ClockExpires \/ LandLate) /\ UNCHANGED loopVars
    BY <2>1 DEF ClockExpires, LandLate, loopVars, Unmoved
  <2>2. CASE Execute(a)
    BY <2>2 DEF Execute
  <2> QED BY <2>1, <2>2, OwnDescent, OthersUnmoved DEF Next
<1> QED BY <1>1, TypingInit, TypingStep, PTL DEF Spec, ExecutionsDescend
================================================================================
