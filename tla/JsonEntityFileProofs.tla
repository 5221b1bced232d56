------------------------- MODULE JsonEntityFileProofs -------------------------
(* The repository file for any number of concurrent saves, keys and values:   *)
(* what is proved of JsonEntityFile, and why.                                  *)
EXTENDS JsonEntityFile, TLAPS

\* The parts of the inductive invariant.  As long as no save was cancelled in
\* its write and none of two processes overlapped, at most one thread is between
\* its read and its write - within a process by the lock - so that read and
\* replacement are one step, and the file is what the landed saves made it.
HolderInv == \A s \in Savers : pc[s] \in Locked => lock[process[s]] = s
SaverInv == \A s \in Savers : pc[s] \in {"writing", "written", "detached"} => Saves(s)
DetachedInv == \A s \in Savers : pc[s] = "detached" => dirty
AloneInv ==
    ~dirty => \A s, x \in Savers : pc[s] = "writing" /\ pc[x] = "writing" => s = x
BaseInv == ~dirty => \A s \in Savers : pc[s] = "writing" => base[s] = file
LandedInv == ~dirty => file = landed

IInv ==
    /\ TypeOK /\ HolderInv /\ SaverInv /\ DetachedInv /\ AloneInv /\ BaseInv
    /\ LandedInv /\ AckedSavesStick

LEMMA SomeType == SomeKey \in Keys /\ SomeProcess \in Processes
BY StoreAssumption DEF SomeKey, SomeProcess

\* What a call that is over leaves of its arguments is well typed.
LEMMA DropType ==
  ASSUME TypeOK, NEW S, DropAll(S)
  PROVE  /\ process' \in [Savers -> Processes]
         /\ key' \in [Savers -> Keys]
         /\ value' \in [Savers -> Values \cup {Absent}]
         /\ base' \in [Savers -> Contents]
<1>1. Nothing \in Contents
  BY DEF Nothing, Contents
<1> QED BY <1>1, SomeType DEF TypeOK, DropAll

\* Whatever callers, threads and faults do, every variable keeps its type.
THEOREM Typing == Spec => []TypeOK
<1> USE StoreAssumption DEF TypeOK, Steps, Locked
<1>1. Init => TypeOK
  <2> SUFFICES ASSUME Init PROVE TypeOK
    OBVIOUS
  <2>1. Nothing \in Contents
    BY DEF Nothing, Contents
  <2>2. file \in Contents /\ landed \in Contents
    BY <2>1 DEF Init
  <2>3. base \in [Savers -> Contents]
    BY <2>1 DEF Init
  <2>4. expected \in [Keys -> SUBSET (Values \cup {Absent})]
    BY DEF Init
  <2>5. process \in [Savers -> Processes] /\ key \in [Savers -> Keys]
    BY SomeType DEF Init
  <2> QED BY <2>2, <2>3, <2>4, <2>5 DEF Init
<1>2. TypeOK /\ [Next]_vars => TypeOK'
  <2> SUFFICES ASSUME TypeOK, [Next]_vars PROVE TypeOK'
    OBVIOUS
  <2>1. ASSUME NEW s \in Savers, Call(s) PROVE TypeOK'
    <3>1. /\ key' \in [Savers -> Keys] /\ value' \in [Savers -> Values \cup {Absent}]
          /\ process' \in [Savers -> Processes]
      <4>1. key' \in [Savers -> Keys] /\ value' \in [Savers -> Values \cup {Absent}]
        <5>1. CASE UNCHANGED <<key, value>>
          BY <5>1
        <5>2. CASE \E k \in Keys, v \in Values :
                     key' = [key EXCEPT ![s] = k] /\ value' = [value EXCEPT ![s] = v]
          BY <5>2
        <5> QED BY <2>1, <5>1, <5>2 DEF Call
      <4>2. process' \in [Savers -> Processes]
        BY <2>1 DEF Call
      <4> QED BY <4>1, <4>2
    <3>2. pc' \in [Savers -> Steps]
      BY <2>1 DEF Call, Goto
    <3> QED BY <2>1, <3>1, <3>2 DEF Call
  <2>2. ASSUME NEW s \in Savers, Acquire(s) PROVE TypeOK'
    BY <2>2 DEF Acquire, Goto
  <2>3. ASSUME NEW s \in Savers, Read(s) PROVE TypeOK'
    <3>1. pc' \in [Savers -> Steps] /\ base' \in [Savers -> Contents]
      <4>1. CASE Saves(s)
        BY <2>3, <4>1 DEF Read, Goto
      <4>2. CASE ~Saves(s)
        BY <2>3, <4>2 DEF Read, Goto
      <4> QED BY <4>1, <4>2
    <3>2. dirty' \in BOOLEAN
      BY <2>3 DEF Read, Overlaps
    <3> QED BY <2>3, <3>1, <3>2 DEF Read
  <2>4. ASSUME NEW s \in Savers, Land(s) PROVE TypeOK'
    <3>1. Replaced(s) \in Contents /\ Nothing \in Contents /\ landed' \in Contents
      BY <2>4 DEF Replaced, Nothing, Land, Contents
    <3>2. CASE pc[s] = "writing"
      <4>1. /\ pc' \in [Savers -> Steps] /\ base' \in [Savers -> Contents]
            /\ UNCHANGED <<process, key, value>>
        BY <2>4, <3>1, <3>2 DEF Land, Goto
      <4> QED BY <2>4, <3>1, <4>1 DEF Land
    <3>3. CASE pc[s] # "writing"
      <4>1. Drop(s) /\ Goto(s, "idle")
        BY <2>4, <3>3 DEF Land
      <4> QED BY <2>4, <3>1, <4>1, DropType DEF Land, Goto, Drop
    <3> QED BY <3>2, <3>3
  <2>5. ASSUME NEW s \in Savers, Return(s) PROVE TypeOK'
    <3>1. expected' \in [Keys -> SUBSET (Values \cup {Absent})]
      <4>1. landed[key[s]] \in Values \cup {Absent}
        BY DEF Contents
      <4> QED BY <2>5, <4>1 DEF Return, Expect
    <3> QED BY <2>5, <3>1, DropType DEF Return, Goto, Drop, AfterCall
  <2>6. ASSUME NEW s \in Savers, Fail(s) PROVE TypeOK'
    BY <2>6, DropType DEF Fail, Goto, Drop, AfterCall
  <2>7. ASSUME NEW s \in Savers, Cancel(s) PROVE TypeOK'
    <3>1. pc' \in [Savers -> Steps] /\ dirty' \in BOOLEAN
      BY <2>7 DEF Cancel, Goto
    <3>2. expected' \in [Keys -> SUBSET (Values \cup {Absent})]
      BY <2>7 DEF Cancel, Expect
    <3>3. Drop(s) \/ UNCHANGED <<process, key, value, base>>
      BY <2>7 DEF Cancel
    <3>4. process' \in [Savers -> Processes] /\ key' \in [Savers -> Keys]
          /\ value' \in [Savers -> Values \cup {Absent}] /\ base' \in [Savers -> Contents]
      BY <3>3, DropType DEF Drop
    <3> QED BY <2>7, <3>1, <3>2, <3>4 DEF Cancel, AfterCall
  <2>8. ASSUME NEW p \in Processes, Crash(p) PROVE TypeOK'
    <3>1. \A S \in SUBSET Savers, k \in Keys : LandedBy(S, k) \subseteq Values \cup {Absent}
      BY DEF LandedBy
    <3>2. expected' \in [Keys -> SUBSET (Values \cup {Absent})]
      BY <2>8, <3>1 DEF Crash
    <3>3. DropAll({s \in Savers : process[s] = p})
      BY <2>8 DEF Crash
    <3> QED BY <2>8, <3>2, <3>3, DropType DEF Crash
  <2>9. ASSUME UNCHANGED vars PROVE TypeOK'
    BY <2>9 DEF vars
  <2> QED BY <2>1, <2>2, <2>3, <2>4, <2>5, <2>6, <2>7, <2>8, <2>9 DEF Next
<1> QED BY <1>1, <1>2, PTL DEF Spec

-------------------------------------------------------------------------------

\* Calls that are over leave nothing behind that a part of the invariant reads.
LEMMA HolderStep == TypeOK /\ HolderInv /\ [Next]_vars => HolderInv'
<1> USE StoreAssumption DEF TypeOK, HolderInv, Steps, Locked
<1> SUFFICES ASSUME TypeOK, HolderInv, [Next]_vars PROVE HolderInv'
  OBVIOUS
<1>1. ASSUME NEW s \in Savers, Call(s) PROVE HolderInv'
  BY <1>1 DEF Call, Goto
<1>2. ASSUME NEW s \in Savers, Acquire(s) PROVE HolderInv'
  <2>1. \A x \in Savers : pc[x] \in Locked => process[x] # process[s]
    BY <1>2 DEF Acquire, Unlocked
  <2> QED BY <1>2, <2>1 DEF Acquire, Goto
<1>3. ASSUME NEW s \in Savers, Read(s) PROVE HolderInv'
  BY <1>3 DEF Read, Goto
<1>4. ASSUME NEW s \in Savers, Land(s) PROVE HolderInv'
  BY <1>4 DEF Land, Goto, Drop, DropAll
<1>5. ASSUME NEW s \in Savers, Return(s) \/ Fail(s) PROVE HolderInv'
  <2>1. pc' = [pc EXCEPT ![s] = "idle"] /\ lock' = AfterCall(s)
        /\ \A x \in Savers \ {s} : process'[x] = process[x]
    BY <1>5 DEF Return, Fail, Goto, Drop, DropAll
  <2> QED BY <2>1 DEF AfterCall
<1>6. ASSUME NEW s \in Savers, Cancel(s) PROVE HolderInv'
  <2>1. /\ pc' \in {[pc EXCEPT ![s] = "idle"], [pc EXCEPT ![s] = "detached"]}
        /\ lock' = AfterCall(s)
        /\ \A x \in Savers \ {s} : process'[x] = process[x]
    BY <1>6 DEF Cancel, Goto, Drop, DropAll
  <2> QED BY <2>1 DEF AfterCall
<1>7. ASSUME NEW p \in Processes, Crash(p) PROVE HolderInv'
  BY <1>7 DEF Crash, DropAll
<1>8. CASE UNCHANGED vars
  BY <1>8 DEF vars
<1> QED BY <1>1, <1>2, <1>3, <1>4, <1>5, <1>6, <1>7, <1>8 DEF Next

LEMMA SaverStep == TypeOK /\ SaverInv /\ [Next]_vars => SaverInv'
<1> USE DEF TypeOK, SaverInv, Saves, Steps
<1> SUFFICES ASSUME TypeOK, SaverInv, [Next]_vars PROVE SaverInv'
  OBVIOUS
<1>1. ASSUME NEW s \in Savers, Call(s) \/ Acquire(s) \/ Read(s) PROVE SaverInv'
  BY <1>1 DEF Call, Acquire, Read, Goto
<1>2. ASSUME NEW s \in Savers, Land(s) PROVE SaverInv'
  BY <1>2 DEF Land, Goto, Drop, DropAll
<1>3. ASSUME NEW s \in Savers, Return(s) \/ Fail(s) PROVE SaverInv'
  BY <1>3 DEF Return, Fail, Goto, Drop, DropAll
<1>4. ASSUME NEW s \in Savers, Cancel(s) PROVE SaverInv'
  BY <1>4 DEF Cancel, Goto, Drop, DropAll
<1>5. ASSUME NEW p \in Processes, Crash(p) PROVE SaverInv'
  BY <1>5 DEF Crash, DropAll
<1>6. CASE UNCHANGED vars
  BY <1>6 DEF vars
<1> QED BY <1>1, <1>2, <1>3, <1>4, <1>5, <1>6 DEF Next

LEMMA DetachedStep == TypeOK /\ DetachedInv /\ [Next]_vars => DetachedInv'
<1> USE DEF TypeOK, DetachedInv, Steps
<1> SUFFICES ASSUME TypeOK, DetachedInv, [Next]_vars PROVE DetachedInv'
  OBVIOUS
<1>1. ASSUME NEW s \in Savers, Call(s) \/ Acquire(s) \/ Return(s) PROVE DetachedInv'
  BY <1>1 DEF Call, Acquire, Return, Goto
<1>2. ASSUME NEW s \in Savers, Read(s) \/ Land(s) PROVE DetachedInv'
  BY <1>2 DEF Read, Land, Goto
<1>3. ASSUME NEW s \in Savers, Fail(s) PROVE DetachedInv'
  BY <1>3 DEF Fail, Goto
<1>4. ASSUME NEW s \in Savers, Cancel(s) PROVE DetachedInv'
  BY <1>4 DEF Cancel, Goto
<1>5. ASSUME NEW p \in Processes, Crash(p) PROVE DetachedInv'
  BY <1>5 DEF Crash
<1>6. CASE UNCHANGED vars
  BY <1>6 DEF vars
<1> QED BY <1>1, <1>2, <1>3, <1>4, <1>5, <1>6 DEF Next

\* Nothing is undone: a step that ends clean began clean.
LEMMA DirtyStays == TypeOK /\ [Next]_vars /\ ~dirty' => ~dirty
<1> SUFFICES ASSUME TypeOK, [Next]_vars, dirty PROVE dirty'
  BY DEF TypeOK
<1>1. ASSUME NEW s \in Savers, Call(s) \/ Acquire(s) \/ Read(s) \/ Land(s) PROVE dirty'
  BY <1>1 DEF Call, Acquire, Read, Land
<1>2. ASSUME NEW s \in Savers, Return(s) \/ Fail(s) \/ Cancel(s) PROVE dirty'
  BY <1>2 DEF Return, Fail, Cancel
<1>3. ASSUME NEW p \in Processes, Crash(p) PROVE dirty'
  BY <1>3 DEF Crash
<1> QED BY <1>1, <1>2, <1>3 DEF Next, vars

\* While clean, at most one thread is between its read and its write, and it
\* replaces the records it has read.
LEMMA FileStep ==
  ASSUME TypeOK, HolderInv, DetachedInv, AloneInv, BaseInv, LandedInv, [Next]_vars
  PROVE  AloneInv' /\ BaseInv' /\ LandedInv'
<1> USE StoreAssumption DEF TypeOK, Contents, Steps, AloneInv, BaseInv, LandedInv
<1> DEFINE Goal == AloneInv' /\ BaseInv' /\ LandedInv'
<1> SUFFICES ASSUME ~dirty', ~dirty PROVE Goal
  BY DirtyStays
<1>a. \A s \in Savers : pc[s] # "detached"
  BY DEF DetachedInv
\* Steps that leave the file alone and send nobody to "writing".
<1>b. ASSUME UNCHANGED <<file, landed>>,
             \A x \in Savers : pc'[x] = "writing" => pc[x] = "writing" /\ base'[x] = base[x]
      PROVE  Goal
  BY <1>b
<1>1. ASSUME NEW s \in Savers, Call(s) \/ Acquire(s) PROVE Goal
  BY <1>1, <1>b DEF Call, Acquire, Goto
<1>2. ASSUME NEW s \in Savers, Read(s) PROVE Goal
  <2>1. CASE ~Saves(s)
    BY <1>2, <1>b, <2>1 DEF Read, Goto
  <2>2. CASE Saves(s)
    <3>1. /\ pc[s] = "reading" /\ pc' = [pc EXCEPT ![s] = "writing"]
          /\ base' = [base EXCEPT ![s] = file]
          /\ file' = file /\ landed' = landed /\ ~Overlaps(s)
      BY <1>2, <2>2 DEF Read, Goto
    <3>2. \A x \in Savers : pc[x] = "writing" => process[x] = process[s]
      BY <3>1 DEF Overlaps
    <3>3. \A x \in Savers : pc[x] # "writing"
      <4> SUFFICES ASSUME NEW x \in Savers, pc[x] = "writing" PROVE FALSE
        OBVIOUS
      <4>1. lock[process[x]] = x /\ lock[process[s]] = s
        BY <3>1 DEF HolderInv, Locked
      <4>2. x = s
        BY <4>1, <3>2
      <4> QED BY <3>1, <4>2
    <3>4. \A x \in Savers : pc'[x] = "writing" => x = s
      BY <3>1, <3>3
    <3> QED BY <3>1, <3>4
  <2> QED BY <2>1, <2>2
<1>3. ASSUME NEW s \in Savers, Land(s) PROVE Goal
  <2>1. pc[s] = "writing" /\ pc' = [pc EXCEPT ![s] = "written"]
    BY <1>3, <1>a DEF Land, Goto
  <2>2. base[s] = file /\ file = landed
    BY <2>1
  <2>3. file' = landed'
    BY <1>3, <2>2 DEF Land, Replaced
  <2>4. \A x \in Savers : pc'[x] # "writing"
    BY <2>1
  <2> QED BY <2>3, <2>4
<1>4. ASSUME NEW s \in Savers, Return(s) \/ Fail(s) \/ Cancel(s) PROVE Goal
  <2>1. /\ UNCHANGED <<file, landed>>
        /\ pc' \in {[pc EXCEPT ![s] = "idle"], [pc EXCEPT ![s] = "detached"]}
        /\ \A x \in Savers \ {s} : base'[x] = base[x]
    BY <1>4 DEF Return, Fail, Cancel, Goto, Drop, DropAll
  <2> QED BY <2>1, <1>b
<1>5. ASSUME NEW p \in Processes, Crash(p) PROVE Goal
  BY <1>5, <1>b DEF Crash, DropAll
<1>6. CASE UNCHANGED vars
  BY <1>6, <1>b DEF vars
<1> QED BY <1>1, <1>2, <1>3, <1>4, <1>5, <1>6 DEF Next

\* While clean, what a key holds is accounted for.
LEMMA AckedStep ==
  ASSUME TypeOK, DetachedInv, BaseInv, LandedInv, AckedSavesStick, [Next]_vars
  PROVE  AckedSavesStick'
<1> USE StoreAssumption DEF TypeOK, Contents, Steps
<1> SUFFICES ASSUME ~dirty', ~dirty, NEW k \in Keys
             PROVE  file'[k] \in expected'[k] \cup LandedBy(Savers, k)'
  BY DirtyStays DEF AckedSavesStick, SavedIsStored
<1> DEFINE Goal == file'[k] \in expected'[k] \cup LandedBy(Savers, k)'
<1>a. file[k] \in expected[k] \cup LandedBy(Savers, k)
  BY DEF AckedSavesStick, SavedIsStored
<1>b. \A s \in Savers : pc[s] # "detached"
  BY DEF DetachedInv
\* Steps that keep what is expected, and the saves that wait for their answer.
<1>c. ASSUME UNCHANGED <<file, expected>>,
             \A x \in Savers : pc[x] = "written" =>
                pc'[x] = "written" /\ key'[x] = key[x] /\ value'[x] = value[x]
      PROVE  Goal
  <2>1. LandedBy(Savers, k) \subseteq LandedBy(Savers, k)'
    BY <1>c DEF LandedBy
  <2> QED BY <1>a, <1>c, <2>1
<1>1. ASSUME NEW s \in Savers, Call(s) \/ Acquire(s) \/ Read(s) PROVE Goal
  BY <1>1, <1>c DEF Call, Acquire, Read, Goto
<1>2. ASSUME NEW s \in Savers, Fail(s) PROVE Goal
  BY <1>2, <1>c DEF Fail, Goto, Drop, DropAll
<1>3. ASSUME NEW s \in Savers, Land(s) PROVE Goal
  <2>1. pc[s] = "writing" /\ base[s] = file
    BY <1>3, <1>b DEF Land, BaseInv
  <2>2. /\ pc' = [pc EXCEPT ![s] = "written"]
        /\ UNCHANGED <<key, value, expected>>
        /\ file' = [file EXCEPT ![key[s]] = value[s]]
    BY <1>3, <2>1 DEF Land, Goto, Replaced
  <2>3. CASE key[s] = k
    <3>1. value[s] \in LandedBy(Savers, k)'
      BY <2>2, <2>3 DEF LandedBy
    <3> QED BY <2>2, <2>3, <3>1
  <2>4. CASE key[s] # k
    <3>1. LandedBy(Savers, k) \subseteq LandedBy(Savers, k)'
      BY <2>2 DEF LandedBy
    <3> QED BY <3>1, <2>2, <2>4, <1>a
  <2> QED BY <2>3, <2>4
<1>4. ASSUME NEW s \in Savers, Return(s) PROVE Goal
  <2>1. CASE pc[s] = "answered"
    BY <1>4, <1>c, <2>1 DEF Return, Goto, Drop, DropAll
  <2>2. CASE pc[s] = "written" /\ key[s] = k
    <3>1. file' = file /\ expected'[k] = {landed[k]} /\ file = landed
      BY <1>4, <2>2 DEF Return, Expect, LandedInv
    <3> QED BY <3>1
  <2>3. CASE pc[s] = "written" /\ key[s] # k
    <3>1. file' = file /\ expected'[k] = expected[k]
      BY <1>4, <2>3 DEF Return, Expect
    <3>2. \A x \in Savers : pc[x] = "written" /\ key[x] = k =>
             pc'[x] = "written" /\ key'[x] = k /\ value'[x] = value[x]
      BY <1>4, <2>3 DEF Return, Goto, Drop, DropAll
    <3>3. LandedBy(Savers, k) \subseteq LandedBy(Savers, k)'
      BY <3>2 DEF LandedBy
    <3> QED BY <3>1, <3>3, <1>a
  <2> QED BY <1>4, <2>1, <2>2, <2>3 DEF Return
<1>5. ASSUME NEW s \in Savers, Cancel(s) PROVE Goal
  <2>1. /\ file' = file /\ pc' = [pc EXCEPT ![s] = "idle"]
        /\ \A x \in Savers \ {s} : key'[x] = key[x] /\ value'[x] = value[x]
    BY <1>5 DEF Cancel, Goto, Drop, DropAll
  <2>2. expected[k] \subseteq expected'[k]
    BY <1>5 DEF Cancel, Expect
  <2>3. ASSUME pc[s] = "written", key[s] = k PROVE value[s] \in expected'[k]
    BY <1>5, <2>3 DEF Cancel, Expect
  <2>4. LandedBy(Savers, k) \subseteq LandedBy(Savers, k)' \cup expected'[k]
    <3> SUFFICES ASSUME NEW x \in Savers, pc[x] = "written", key[x] = k
                 PROVE  value[x] \in LandedBy(Savers, k)' \cup expected'[k]
      BY DEF LandedBy
    <3>1. CASE x = s
      BY <2>3, <3>1
    <3>2. CASE x # s
      <4>1. pc'[x] = "written" /\ key'[x] = k /\ value'[x] = value[x]
        BY <2>1, <3>2
      <4> QED BY <4>1 DEF LandedBy
    <3> QED BY <3>1, <3>2
  <2> QED BY <2>1, <2>2, <2>4, <1>a
<1>6. ASSUME NEW p \in Processes, Crash(p) PROVE Goal
  <2> DEFINE died == {s \in Savers : process[s] = p}
  <2>1. file' = file /\ expected'[k] = expected[k] \cup LandedBy(died, k)
    BY <1>6 DEF Crash
  <2>2. \A x \in Savers \ died :
           pc'[x] = pc[x] /\ key'[x] = key[x] /\ value'[x] = value[x]
    BY <1>6 DEF Crash, DropAll
  <2>3. LandedBy(Savers, k) \subseteq LandedBy(Savers, k)' \cup LandedBy(died, k)
    <3> SUFFICES ASSUME NEW x \in Savers, pc[x] = "written", key[x] = k
                 PROVE  value[x] \in LandedBy(Savers, k)' \cup LandedBy(died, k)
      BY DEF LandedBy
    <3>1. CASE x \in died
      BY <3>1 DEF LandedBy
    <3>2. CASE x \notin died
      <4>1. pc'[x] = "written" /\ key'[x] = k /\ value'[x] = value[x]
        BY <2>2, <3>2
      <4> QED BY <4>1 DEF LandedBy
    <3> QED BY <3>1, <3>2
  <2> QED BY <2>1, <2>3, <1>a
<1>7. CASE UNCHANGED vars
  BY <1>7, <1>c DEF vars
<1> QED BY <1>1, <1>2, <1>3, <1>4, <1>5, <1>6, <1>7 DEF Next

\* The inductive invariant of the file.
LEMMA Invariance == Spec => []IInv
<1>1. Init /\ TypeOK => IInv
  <2> SUFFICES ASSUME Init PROVE HolderInv /\ SaverInv /\ DetachedInv /\ AloneInv
                                 /\ BaseInv /\ LandedInv /\ AckedSavesStick
    BY DEF IInv
  <2>1. \A s \in Savers : pc[s] = "idle"
    BY DEF Init
  <2>2. file = landed /\ \A k \in Keys : file[k] \in expected[k]
    BY DEF Init, Nothing
  <2> QED BY <2>1, <2>2 DEF HolderInv, SaverInv, Locked, DetachedInv, AloneInv, BaseInv,
       LandedInv, AckedSavesStick, SavedIsStored
<1>2. IInv /\ [Next]_vars /\ TypeOK' => IInv'
  BY HolderStep, SaverStep, DetachedStep, FileStep, AckedStep DEF IInv
<1> QED BY <1>1, <1>2, Typing, PTL DEF Spec

\* No acknowledged save is lost or reverted by concurrent saves, failing
\* threads or a crash, as long as none was cancelled during its write and none
\* begun between the read and the write of another process.
THEOREM SavesStick == Spec => []AckedSavesStick
BY Invariance, PTL DEF IInv

\* The whole-file read-modify-write under its lock implements a store of
\* records, each saved in one step, until a save is cancelled in its write or
\* the saves of two processes overlap.
THEOREM Refinement == Spec => ImplementsRecordStore
<1> USE DEF Records!vars, vars
<1>1. Init => Records!Init
  BY DEF Init, Nothing, Records!Init
<1>2. IInv /\ [Next]_vars => [Records!Next]_(Records!vars)
  <2> SUFFICES ASSUME IInv, Next PROVE Records!Next \/ UNCHANGED Records!vars
    BY DEF IInv
  <2> USE DEF Records!Next
  <2>1. ASSUME NEW s \in Savers, Land(s) PROVE Records!Next \/ UNCHANGED Records!vars
    <3>1. CASE dirty
      <4>1. file' \in Contents /\ UNCHANGED dirty
        BY <2>1, StoreAssumption DEF IInv, TypeOK, Contents, Land, Replaced
      <4> QED BY <4>1, <3>1 DEF Records!Disorder, Records!Contents, Contents
    <3>2. CASE ~dirty
      <4>1. pc[s] = "writing" /\ base[s] = file
        BY <2>1, <3>2 DEF IInv, DetachedInv, BaseInv, Land
      <4>2. Records!Save(key[s], value[s])
        BY <2>1, <4>1 DEF Land, Replaced, Records!Save
      <4>3. key[s] \in Keys /\ value[s] \in Values
        BY <4>1 DEF IInv, TypeOK, SaverInv, Saves
      <4> QED BY <4>2, <4>3
    <3> QED BY <3>1, <3>2
  <2>2. ASSUME NEW s \in Savers, Cancel(s) \/ Read(s)
        PROVE  Records!Next \/ UNCHANGED Records!vars
    <3>1. file' = file /\ (dirty' = TRUE \/ dirty' = dirty)
      BY <2>2 DEF Cancel, Read, IInv, TypeOK
    <3> QED BY <3>1 DEF Records!Interrupt
  <2>3. ASSUME NEW s \in Savers, Call(s) \/ Acquire(s) \/ Return(s) \/ Fail(s)
        PROVE  UNCHANGED Records!vars
    BY <2>3 DEF Call, Acquire, Return, Fail
  <2>4. ASSUME NEW p \in Processes, Crash(p) PROVE UNCHANGED Records!vars
    BY <2>4 DEF Crash
  <2> QED BY <2>1, <2>2, <2>3, <2>4 DEF Next
<1> QED BY <1>1, <1>2, Invariance, PTL DEF Spec, ImplementsRecordStore, Records!Spec
===============================================================================
