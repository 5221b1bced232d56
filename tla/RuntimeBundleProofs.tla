-------------------------- MODULE RuntimeBundleProofs --------------------------
(***************************************************************************)
(* Theorems about RuntimeBundle, for every number of callers, managers and *)
(* capabilities, and any number of faults.                                 *)
(***************************************************************************)
EXTENDS RuntimeBundle, TLAPS

Points == SandboxSteps \cup {"idle"}

LEMMA GotoEffect ==
  ASSUME NEW c \in Callers, TypeOK, NEW p, Goto(c, p)
  PROVE  at'[c] = p /\ \A d \in Callers \ {c} : at'[d] = at[d]
BY DEF TypeOK, Goto

-------------------------------------------------------------------------------
(* Typing. *)

LEMMA SandboxTyped ==
  ASSUME NEW c \in Callers, TypeOK,
         \/ Enter(c) \/ BeginRemove(c) \/ Inspected(c) \/ NetworkCreated(c)
         \/ ContainerStarted(c) \/ StartFails(c) \/ Executed(c)
         \/ NothingToRemove(c) \/ Removed(c) \/ RemovalRaises(c) \/ Interrupt(c)
  PROVE  SandboxTypeOK'
<1> SandboxTypeOK
  BY DEF TypeOK
<1> USE SandboxAssumption DEF SandboxTypeOK, flags, daemon, Fault
<1>1. CASE Enter(c) \/ Executed(c)
  BY <1>1 DEF Enter, Executed
<1>2. CASE BeginRemove(c) \/ NothingToRemove(c)
  BY <1>2 DEF BeginRemove, NothingToRemove
<1>3. CASE Inspected(c)
  BY <1>3 DEF Inspected
<1>4. CASE NetworkCreated(c)
  BY <1>4 DEF NetworkCreated
<1>5. CASE ContainerStarted(c)
  BY <1>5 DEF ContainerStarted
<1>6. ASSUME NEW x \in {"run", "rm"}, Abandon(x)
      PROVE  container' \in BOOLEAN /\ late' \in [{"run", "rm"} -> Nat]
  <2>1. After(x) \in BOOLEAN
    BY DEF After
  <2>2. CASE UNCHANGED <<container, late>>
    BY <2>2
  <2>3. CASE container' = After(x) /\ UNCHANGED late
    BY <2>1, <2>3
  <2>4. CASE late' = [late EXCEPT ![x] = @ + 1] /\ UNCHANGED container
    BY <2>4
  <2> QED BY <1>6, <2>2, <2>3, <2>4 DEF Abandon
<1>7. CASE StartFails(c)
  <2>1. container' \in BOOLEAN /\ late' \in [{"run", "rm"} -> Nat]
    BY <1>6, <1>7 DEF StartFails
  <2>2. network' \in {"absent", "internal", "open"} /\ faults' \in Nat
    BY <1>7 DEF StartFails
  <2>3. started' \in BOOLEAN /\ lock' \in Callers \cup {NoCaller} /\ cut' \subseteq {"run", "rm", "close"}
    BY <1>7 DEF StartFails, LockAfterFailure
  <2> QED BY <2>1, <2>2, <2>3
<1>8. CASE Removed(c)
  <2>1. container' \in BOOLEAN /\ late' \in [{"run", "rm"} -> Nat]
    BY <1>6, <1>8 DEF Removed
  <2>2. network' = network /\ faults' \in Nat
    BY <1>8 DEF Removed
  <2>3. started' \in BOOLEAN /\ lock' \in Callers \cup {NoCaller} /\ cut' \subseteq {"run", "rm", "close"}
    BY <1>8 DEF Removed, AfterRemoval
  <2> QED BY <2>1, <2>2, <2>3
<1>9. CASE Interrupt(c)
  <2>1. container' \in BOOLEAN /\ late' \in [{"run", "rm"} -> Nat]
    BY <1>6, <1>9 DEF Interrupt
  <2>2. network' \in {"absent", "internal", "open"} /\ faults' \in Nat
    BY <1>9 DEF Interrupt
  <2>3. started' \in BOOLEAN /\ lock' \in Callers \cup {NoCaller} /\ cut' \subseteq {"run", "rm", "close"}
    BY <1>9 DEF Interrupt
  <2> QED BY <2>1, <2>2, <2>3
<1>10. CASE RemovalRaises(c)
  <2>1. /\ container' \in BOOLEAN /\ started' \in BOOLEAN
        /\ late' \in [{"run", "rm"} -> Nat] /\ network' \in {"absent", "internal", "open"}
    BY <1>10 DEF RemovalRaises
  <2>2. lock' \in Callers \cup {NoCaller} /\ cut' \subseteq {"run", "rm", "close"} /\ faults' \in Nat
    BY <1>10 DEF RemovalRaises
  <2> QED BY <2>1, <2>2
<1> QED BY <1>1, <1>2, <1>3, <1>4, <1>5, <1>7, <1>8, <1>9, <1>10

LEMMA DaemonTyped ==
  ASSUME SandboxTypeOK, Daemon
  PROVE  SandboxTypeOK' /\ UNCHANGED at
<1> USE DEF SandboxTypeOK, flags
<1>1. ASSUME NEW x \in {"run", "rm"}, Land(x) PROVE SandboxTypeOK' /\ UNCHANGED at
  <2>1. After(x) \in BOOLEAN
    BY DEF After
  <2>2. late' \in [{"run", "rm"} -> Nat]
    BY <1>1 DEF Land
  <2> QED BY <1>1, <2>1, <2>2 DEF Land
<1>2. CASE NetworkAppears
  BY <1>2 DEF NetworkAppears
<1> QED BY <1>1, <1>2 DEF Daemon

LEMMA WithoutTyped ==
  ASSUME NEW m \in Managers, RegistryTypeOK
  PROVE  Without(m) \in [Capabilities -> Managers \cup {Core, NoOne}]
BY DEF Without, RegistryTypeOK

LEMMA RegistryTyped ==
  ASSUME RegistryTypeOK,
         \/ StopAll \/ UNCHANGED registryVars
         \/ \E m \in Managers :
               RegisterFails(m) \/ Dispose(m) \/ \E listed \in SUBSET Offers[m] : Register(m, listed)
  PROVE  RegistryTypeOK'
<1>1. CASE StopAll
  BY <1>1 DEF StopAll, RegistryTypeOK
<1>2. CASE UNCHANGED registryVars
  BY <1>2 DEF registryVars, RegistryTypeOK
<1>3. ASSUME NEW m \in Managers, RegisterFails(m) \/ Dispose(m) PROVE RegistryTypeOK'
  BY <1>3, WithoutTyped DEF RegisterFails, AfterConflict, Dispose, RegistryTypeOK
<1>4. ASSUME NEW m \in Managers, NEW listed \in SUBSET Offers[m], Register(m, listed)
      PROVE  RegistryTypeOK'
  <2>1. listed \subseteq Capabilities
    BY DEF Capabilities
  <2> QED BY <1>4, <2>1 DEF Register, RegistryTypeOK
<1> QED BY <1>1, <1>2, <1>3, <1>4

LEMMA TypingInit == Init => TypeOK
<1> SUFFICES ASSUME Init PROVE TypeOK
  OBVIOUS
<1>1. SandboxTypeOK
  BY SandboxAssumption DEF Init, SandboxInit, SandboxTypeOK
<1>2. RegistryTypeOK
  BY DEF Init, RegistryInit, RegistryTypeOK
<1>3. at \in [Callers -> Points] /\ job \in [Callers -> Jobs]
  BY DEF Init, Points, Jobs, NoJob
<1> QED BY <1>1, <1>2, <1>3 DEF Init, TypeOK, Points

LEMMA TypingStep == TypeOK /\ [Next]_vars => TypeOK'
<1> SUFFICES ASSUME TypeOK, [Next]_vars PROVE TypeOK'
  OBVIOUS
<1> USE DEF TypeOK, Points
<1>g. ASSUME NEW c \in Callers, NEW p \in Points, Goto(c, p) PROVE at' \in [Callers -> Points]
  BY <1>g DEF Goto
<1>b. ASSUME NEW c \in Callers, NEW k, NEW m, [kind |-> k, manager |-> m] \in Jobs, Begin(c, k, m)
      PROVE  job' \in [Callers -> Jobs]
  BY <1>b DEF Begin
<1>o. ASSUME NEW c \in Callers, Over(c)
      PROVE  at' \in [Callers -> Points] /\ job' \in [Callers -> Jobs]
  BY <1>o, <1>g DEF Over, NoJob, Jobs
<1>u. ASSUME UNCHANGED <<flags, daemon, cut, faults>> PROVE SandboxTypeOK'
  BY <1>u DEF SandboxTypeOK, flags, daemon
<1>1. ASSUME NEW c \in Callers, NEW x \in Capabilities, BeginCall(c, x) PROVE TypeOK'
  <2>1. at' \in [Callers -> Points] /\ job' \in [Callers -> Jobs]
    BY <1>1, <1>g, <1>b DEF BeginCall, Jobs, SandboxSteps
  <2> QED BY <1>1, <1>u, <2>1, RegistryTyped DEF BeginCall
<1>2. ASSUME NEW c \in Callers, NEW m \in Managers, BeginStart(c, m) PROVE TypeOK'
  <2>1. at' \in [Callers -> Points] /\ job' \in [Callers -> Jobs]
    BY <1>2, <1>g, <1>b DEF BeginStart, Jobs, SandboxSteps
  <2>2. RegistryTypeOK'
    BY <1>2 DEF BeginStart, RegistryTypeOK
  <2>3. clean' \in BOOLEAN
    BY <1>2 DEF BeginStart
  <2> QED BY <1>2, <1>u, <2>1, <2>2, <2>3 DEF BeginStart
<1>3. ASSUME NEW m \in Managers, Stop(m) PROVE TypeOK'
  BY <1>3, <1>u, RegistryTyped DEF Stop, sandboxVars
<1>4. ASSUME NEW c \in Callers, Finish(c) PROVE TypeOK'
  <2>1. RegistryTypeOK'
    <3>1. job[c].kind = "start" => job[c].manager \in Managers
      BY DEF Jobs
    <3> QED BY <1>4, <3>1, RegistryTyped DEF Finish
  <2> QED BY <1>4, <1>o, <2>1, SandboxTyped DEF Finish
<1>5. ASSUME NEW c \in Callers, Raise(c) \/ CloseRaises(c) \/ Cancel(c) PROVE TypeOK'
  BY <1>5, <1>o, SandboxTyped, RegistryTyped DEF Raise, CloseRaises, Cancel
<1>6. ASSUME NEW c \in Callers, Close(c) PROVE TypeOK'
  <2>1. at' \in [Callers -> Points] /\ job' \in [Callers -> Jobs]
    BY <1>6, <1>g, <1>b DEF Close, Jobs, SandboxSteps
  <2> QED BY <1>6, <1>u, <2>1, RegistryTyped DEF Close
<1>7. ASSUME NEW c \in Callers, CloseReturns(c) PROVE TypeOK'
  BY <1>7, <1>o, SandboxTyped, RegistryTyped DEF CloseReturns
<1>8. ASSUME NEW c \in Callers, Sandbox(c) \/ Locking(c) PROVE TypeOK'
  <2>1. \E p \in Points : Goto(c, p)
    BY <1>8 DEF Sandbox, Locking, Inspected, NetworkCreated, ContainerStarted, Enter, BeginRemove,
                SandboxSteps, InLock, Starting
  <2> QED BY <1>8, <1>g, <2>1, SandboxTyped, RegistryTyped DEF Sandbox, Locking
<1>9. ASSUME Daemon PROVE TypeOK'
  <2>1. SandboxTypeOK' /\ UNCHANGED at
    BY <1>9, DaemonTyped
  <2> QED BY <1>9, <2>1, RegistryTyped DEF Daemon
<1>10. ASSUME UNCHANGED vars PROVE TypeOK'
  BY <1>10, <1>u, RegistryTyped DEF vars, sandboxVars
<1> QED BY <1>1, <1>2, <1>3, <1>4, <1>5, <1>6, <1>7, <1>8, <1>9, <1>10 DEF Next

\* Whatever commands, callers and managers do, every variable keeps its type.
THEOREM Typing == Spec => []TypeOK
BY TypingInit, TypingStep, PTL DEF Spec

-------------------------------------------------------------------------------
(* The sandbox.  The lock makes start and removal of the container steps of  *)
(* one caller at a time.  A removal that outlives its command can only hit   *)
(* the container it was meant for: no other can be started under its name   *)
(* before it is gone.                                                        *)

LockInv == \A c \in Callers :
    /\ at[c] \in InLock => lock = c
    /\ at[c] \in Starting => ~started
    /\ at[c] = "removing" => started

NetworkInv ==
    /\ container => network = "internal"
    /\ late["run"] > 0 => network = "internal"
    /\ \A c \in Callers : at[c] = "starting" => network = "internal"

TruthInv ==
    /\ cut = {} => late["run"] = 0 /\ late["rm"] = 0 /\ (container => started)
    /\ "close" \notin cut => /\ started => container
                             /\ late["rm"] > 0 => container /\ ~started
                             /\ late["rm"] <= 1

SandboxInv == LockInv /\ NetworkInv /\ TruthInv

\* A step is one of the sandbox, or one outside its lock.
Ended(c) ==
    /\ StartFails(c) \/ Removed(c) \/ RemovalRaises(c) \/ (at[c] # "idle" /\ Interrupt(c))
    /\ Goto(c, "idle")
Elsewhere(c) ==
    /\ at[c] \notin InLock
    /\ \E p \in {"idle", "entering", "closing"} : Goto(c, p)
    /\ UNCHANGED <<flags, daemon, cut, faults>>

LEMMA SandboxFrame ==
  ASSUME TypeOK, [Next]_vars
  PROVE  \/ \E c \in Callers :
               \/ Enter(c) \/ BeginRemove(c) \/ Inspected(c) \/ NetworkCreated(c)
               \/ ContainerStarted(c) \/ Ended(c) \/ Elsewhere(c)
         \/ (\E x \in {"run", "rm"} : Land(x)) \/ NetworkAppears
         \/ UNCHANGED sandboxVars
<1> USE DEF InLock, Starting
<1>1. ASSUME NEW c \in Callers, NEW x \in Capabilities, BeginCall(c, x) PROVE Elsewhere(c)
  BY <1>1 DEF BeginCall, Begin, Elsewhere
<1>2. ASSUME NEW c \in Callers, NEW m \in Managers, BeginStart(c, m) PROVE Elsewhere(c)
  BY <1>2 DEF BeginStart, Begin, Elsewhere, daemon
<1>3. ASSUME NEW c \in Callers, Finish(c) \/ Close(c) PROVE Elsewhere(c)
  BY <1>3 DEF Finish, Executed, Over, Close, Begin, Elsewhere
<1>4. ASSUME NEW c \in Callers, Raise(c) \/ CloseRaises(c) \/ Cancel(c) PROVE Ended(c)
  BY <1>4 DEF Raise, CloseRaises, Cancel, Over, Ended
<1>5. ASSUME NEW c \in Callers, CloseReturns(c) PROVE Elsewhere(c) \/ Ended(c)
  BY <1>5 DEF CloseReturns, NothingToRemove, Over, Elsewhere, Ended
<1>6. ASSUME NEW m \in Managers, Stop(m) PROVE UNCHANGED sandboxVars
  BY <1>6 DEF Stop
<1>7. CASE UNCHANGED vars
  BY <1>7 DEF vars
<1> QED BY <1>1, <1>2, <1>3, <1>4, <1>5, <1>6, <1>7 DEF Next, Sandbox, Locking, Daemon

LEMMA LockStep == TypeOK /\ LockInv /\ [Next]_vars => LockInv'
<1> SUFFICES ASSUME TypeOK, LockInv, [Next]_vars PROVE LockInv'
  OBVIOUS
<1> USE SandboxAssumption DEF LockInv, InLock, Starting, flags
<1>1. ASSUME NEW c \in Callers, Enter(c) PROVE LockInv'
  BY <1>1, GotoEffect DEF Enter
<1>2. ASSUME NEW c \in Callers, BeginRemove(c) PROVE LockInv'
  BY <1>2, GotoEffect DEF BeginRemove
<1>3. ASSUME NEW c \in Callers, Inspected(c) \/ NetworkCreated(c) PROVE LockInv'
  BY <1>3, GotoEffect DEF Inspected, NetworkCreated
<1>4. ASSUME NEW c \in Callers, ContainerStarted(c) PROVE LockInv'
  BY <1>4, GotoEffect DEF ContainerStarted
<1>5. ASSUME NEW c \in Callers, Ended(c) PROVE LockInv'
  <2>1. at'[c] = "idle" /\ \A d \in Callers \ {c} : at'[d] = at[d]
    BY <1>5, GotoEffect DEF Ended
  <2>2. CASE StartFails(c)
    <3>1. lock = c /\ started' = started
      BY <2>2 DEF StartFails
    <3> QED BY <2>1, <3>1
  <2>3. CASE Removed(c)
    <3>1. lock = c
      BY <2>3 DEF Removed
    <3> QED BY <2>1, <3>1
  <2>4. CASE Interrupt(c)
    <3>1. started' = started /\ lock' = IF lock = c THEN NoCaller ELSE lock
      BY <2>4 DEF Interrupt
    <3> QED BY <2>1, <3>1
  <2>5. CASE RemovalRaises(c)
    <3>1. lock = c /\ started' = started
      BY <2>5 DEF RemovalRaises
    <3> QED BY <2>1, <3>1
  <2> QED BY <1>5, <2>2, <2>3, <2>4, <2>5 DEF Ended
<1>6. ASSUME NEW c \in Callers, Elsewhere(c) PROVE LockInv'
  BY <1>6, GotoEffect DEF Elsewhere
<1>7. CASE (\E x \in {"run", "rm"} : Land(x)) \/ NetworkAppears
  BY <1>7 DEF Land, NetworkAppears
<1>8. CASE UNCHANGED sandboxVars
  BY <1>8 DEF sandboxVars
<1> QED BY <1>1, <1>2, <1>3, <1>4, <1>5, <1>6, <1>7, <1>8, SandboxFrame

LEMMA AbandonEffect ==
  ASSUME SandboxTypeOK, NEW x \in {"run", "rm"}, Abandon(x)
  PROVE  /\ container' \in {container, After(x)}
         /\ \/ late' = late
            \/ late' = [late EXCEPT ![x] = late[x] + 1] /\ container' = container
BY DEF Abandon

LEMMA NetworkStep == TypeOK /\ LockInv /\ NetworkInv /\ [Next]_vars => NetworkInv'
<1> SUFFICES ASSUME TypeOK, LockInv, NetworkInv, [Next]_vars PROVE NetworkInv'
  OBVIOUS
<1>t. SandboxTypeOK /\ late \in [{"run", "rm"} -> Nat]
  BY DEF TypeOK, SandboxTypeOK
<1> USE DEF NetworkInv, daemon
<1>1. ASSUME NEW c \in Callers, Enter(c) \/ BeginRemove(c) PROVE NetworkInv'
  BY <1>1, GotoEffect DEF Enter, BeginRemove
<1>2. ASSUME NEW c \in Callers, Inspected(c) PROVE NetworkInv'
  BY <1>2, GotoEffect DEF Inspected, NetworkFits
<1>3. ASSUME NEW c \in Callers, NetworkCreated(c) PROVE NetworkInv'
  BY <1>3, GotoEffect DEF NetworkCreated
<1>4. ASSUME NEW c \in Callers, ContainerStarted(c) PROVE NetworkInv'
  BY <1>4, GotoEffect DEF ContainerStarted
<1>5. ASSUME NEW c \in Callers, Ended(c) PROVE NetworkInv'
  <2>1. at'[c] = "idle" /\ \A d \in Callers \ {c} : at'[d] = at[d]
    BY <1>5, GotoEffect DEF Ended
  <2>2. network' = network \/ (network = "absent" /\ UNCHANGED <<container, late>>)
    BY <1>5 DEF Ended, StartFails, Removed, RemovalRaises, Interrupt
  <2>3. CASE network = "absent" /\ UNCHANGED <<container, late>>
    BY <2>1, <2>3
  <2>4. CASE network' = network
    <3>1. \/ UNCHANGED <<container, late>>
          \/ at[c] = "starting" /\ Abandon("run")
          \/ Abandon("rm") \/ (container' = FALSE /\ UNCHANGED late)
      BY <1>5 DEF Ended, StartFails, Removed, RemovalRaises, Interrupt
    <3>2. CASE at[c] = "starting" /\ Abandon("run")
      BY <2>1, <2>4, <3>2
    <3>3. CASE Abandon("rm")
      <4>1. (container' => container) /\ late'["run"] = late["run"]
        BY <1>t, <3>3, AbandonEffect DEF After
      <4> QED BY <2>1, <2>4, <4>1
    <3>4. CASE UNCHANGED <<container, late>> \/ (container' = FALSE /\ UNCHANGED late)
      BY <2>1, <2>4, <3>4
    <3> QED BY <3>1, <3>2, <3>3, <3>4
  <2> QED BY <2>2, <2>3, <2>4
<1>6. ASSUME NEW c \in Callers, Elsewhere(c) PROVE NetworkInv'
  BY <1>6, GotoEffect DEF Elsewhere
<1>7. ASSUME NEW x \in {"run", "rm"}, Land(x) PROVE NetworkInv'
  <2>1. UNCHANGED <<at, network>> /\ late'["run"] <= late["run"]
    BY <1>t, <1>7 DEF Land
  <2>2. container' => late["run"] > 0
    BY <1>7 DEF Land, After
  <2> QED BY <1>t, <1>7, <2>1, <2>2 DEF Land
<1>8. CASE NetworkAppears
  BY <1>8 DEF NetworkAppears
<1>9. CASE UNCHANGED sandboxVars
  BY <1>9 DEF sandboxVars
<1> QED BY <1>1, <1>2, <1>3, <1>4, <1>5, <1>6, <1>7, <1>8, <1>9, SandboxFrame

LEMMA TruthStep == TypeOK /\ LockInv /\ TruthInv /\ [Next]_vars => TruthInv'
<1> SUFFICES ASSUME TypeOK, LockInv, TruthInv, [Next]_vars PROVE TruthInv'
  OBVIOUS
<1>t. SandboxTypeOK /\ late \in [{"run", "rm"} -> Nat]
  BY DEF TypeOK, SandboxTypeOK
<1> USE DEF TruthInv, flags, daemon
<1>1. ASSUME NEW c \in Callers, \/ Enter(c) \/ BeginRemove(c) \/ Inspected(c)
                                \/ NetworkCreated(c) \/ Elsewhere(c)
      PROVE  TruthInv'
  BY <1>1 DEF Enter, BeginRemove, Inspected, NetworkCreated, Elsewhere
<1>2. ASSUME NEW c \in Callers, ContainerStarted(c) PROVE TruthInv'
  BY <1>t, <1>2 DEF ContainerStarted
<1>3. ASSUME NEW c \in Callers, Ended(c) PROVE TruthInv'
  <2>a. CASE UNCHANGED <<container, late, started, cut>>
    BY <2>a
  <2>b. CASE /\ at[c] = "starting" /\ Abandon("run")
             /\ started' = started /\ cut' = cut \cup {"run"}
    <3>1. ~started
      BY <2>b DEF LockInv, Starting
    <3>2. /\ container => container'
          /\ late'["rm"] = late["rm"]
      BY <1>t, <2>b, AbandonEffect DEF After
    <3> QED BY <2>b, <3>1, <3>2
  <2>c. CASE /\ at[c] = "removing" /\ started' = FALSE
             /\ container' = FALSE /\ UNCHANGED <<late, cut>>
    <3>1. started
      BY <2>c DEF LockInv
    <3> QED BY <1>t, <2>c, <3>1
  <2>d. CASE /\ at[c] = "removing" /\ started' = FALSE
             /\ Abandon("rm") /\ cut' = cut \cup {"rm"}
    <3>1. started
      BY <2>d DEF LockInv
    <3>2. "close" \notin cut => container /\ late["rm"] = 0
      BY <1>t, <3>1
    <3>3. \/ late' = late
          \/ late'["rm"] = late["rm"] + 1 /\ container' = container
      BY <1>t, <2>d, AbandonEffect
    <3> QED BY <1>t, <2>d, <3>2, <3>3
  <2>e. CASE cut' = cut \cup {"close"}
    BY <2>e
  <2> QED
    BY <1>3, <2>a, <2>b, <2>c, <2>d, <2>e DEF Ended, StartFails, Removed, RemovalRaises, Interrupt, AfterRemoval
<1>4. ASSUME NEW x \in {"run", "rm"}, Land(x) PROVE TruthInv'
  <2>1. UNCHANGED <<started, cut>> /\ cut # {}
    BY <1>t, <1>4 DEF Land
  <2>2. CASE x = "run"
    <3>1. container' = TRUE /\ late'["rm"] = late["rm"]
      BY <1>t, <1>4, <2>2 DEF Land, After
    <3> QED BY <2>1, <3>1
  <2>3. CASE x = "rm"
    <3>1. late["rm"] > 0 /\ late'["rm"] = late["rm"] - 1
      BY <1>t, <1>4, <2>3 DEF Land
    <3> QED BY <1>t, <2>1, <3>1
  <2> QED BY <2>2, <2>3
<1>5. CASE NetworkAppears
  BY <1>5 DEF NetworkAppears
<1>6. CASE UNCHANGED sandboxVars
  BY <1>6 DEF sandboxVars
<1> QED BY <1>1, <1>2, <1>3, <1>4, <1>5, <1>6, SandboxFrame

LEMMA SandboxInitially == Init => SandboxInv
BY DEF Init, SandboxInit, SandboxInv, LockInv, InLock, Starting, NetworkInv, TruthInv

LEMMA SandboxStep == TypeOK /\ SandboxInv /\ [Next]_vars => SandboxInv'
BY LockStep, NetworkStep, TruthStep DEF SandboxInv

\* No container ever runs in a network that reaches outside.
THEOREM NetworkIsInternal == Spec => []OnlyInternal
<1>1. SandboxInv => OnlyInternal
  BY DEF SandboxInv, NetworkInv, OnlyInternal
<1> QED BY <1>1, SandboxInitially, SandboxStep, TypingInit, TypingStep, PTL DEF Spec

\* What _started says of the container is true, whatever times out.
THEOREM StartedIsTrue == Spec => []StartedTellsTruth
<1>1. SandboxInv => StartedTellsTruth
  BY DEF SandboxInv, TruthInv, StartedTellsTruth
<1> QED BY <1>1, SandboxInitially, SandboxStep, TypingInit, TypingStep, PTL DEF Spec

-------------------------------------------------------------------------------
(* The registry.  A start reads _started before its await and registers      *)
(* after it.  When a manager is already serving, whoever still starts it is  *)
(* one of two starts that overlapped.                                        *)

StartInv == \A m \in Managers :
    /\ m \in serving /\ (\E c \in Callers : job[c].manager = m) => m \in overlapped
    /\ \A c, d \in Callers : c # d /\ job[c].manager = m /\ job[d].manager = m => m \in overlapped

RegistryInv == NoToolLeftBehind /\ StartInv /\ AnsweredToolsResolve

LEMMA RegistryFrame ==
  ASSUME TypeOK, [Next]_vars
  PROVE  \/ \E c \in Callers, m \in Managers : BeginStart(c, m)
         \/ \E c \in Callers, m \in Managers :
               /\ job[c].manager = m /\ Over(c)
               /\ RegisterFails(m) \/ \E listed \in SUBSET Offers[m] : Register(m, listed)
         \/ \E m \in Managers : Dispose(m) /\ UNCHANGED job
         \/ /\ StopAll \/ UNCHANGED registryVars
            /\ \A d \in Callers : job'[d] = job[d] \/ job'[d].manager = NoOne
<1> DEFINE Calm == /\ StopAll \/ UNCHANGED registryVars
                   /\ \A d \in Callers : job'[d] = job[d] \/ job'[d].manager = NoOne
<1> USE DEF TypeOK
<1>1. ASSUME NEW c \in Callers, NEW k, Begin(c, k, NoOne)
      PROVE  \A d \in Callers : job'[d] = job[d] \/ job'[d].manager = NoOne
  BY <1>1 DEF Begin
<1>2. ASSUME NEW c \in Callers, Over(c)
      PROVE  \A d \in Callers : job'[d] = job[d] \/ job'[d].manager = NoOne
  BY <1>2 DEF Over, NoJob
<1>3. ASSUME NEW c \in Callers, NEW x \in Capabilities, BeginCall(c, x) PROVE Calm
  BY <1>1, <1>3 DEF BeginCall
<1>4. ASSUME NEW c \in Callers, Close(c) PROVE Calm
  BY <1>1, <1>4 DEF Close
<1>5. ASSUME NEW c \in Callers, Raise(c) \/ CloseReturns(c) \/ CloseRaises(c) \/ Cancel(c) PROVE Calm
  BY <1>2, <1>5 DEF Raise, CloseReturns, CloseRaises, Cancel
<1>6. ASSUME NEW c \in Callers, Finish(c)
      PROVE  \/ Calm
             \/ \E m \in Managers :
                   /\ job[c].manager = m /\ Over(c)
                   /\ RegisterFails(m) \/ \E listed \in SUBSET Offers[m] : Register(m, listed)
  <2>1. job[c].kind = "start" => job[c].manager \in Managers
    BY DEF Jobs
  <2>2. Over(c)
    BY <1>6 DEF Finish
  <2>3. \/ UNCHANGED registryVars
        \/ /\ job[c].kind = "start"
           /\ \/ RegisterFails(job[c].manager)
              \/ \E listed \in SUBSET Offers[job[c].manager] : Register(job[c].manager, listed)
    BY <1>6 DEF Finish
  <2> QED BY <1>2, <2>1, <2>2, <2>3
<1>7. ASSUME NEW c \in Callers, Sandbox(c) \/ Locking(c) PROVE Calm
  BY <1>7 DEF Sandbox, Locking
<1>8. CASE Daemon \/ UNCHANGED vars
  BY <1>8 DEF Daemon, vars
<1>9. ASSUME NEW m \in Managers, Stop(m) PROVE Dispose(m) /\ UNCHANGED job
  BY <1>9 DEF Stop
<1> QED BY <1>3, <1>4, <1>5, <1>6, <1>7, <1>8, <1>9 DEF Next

LEMMA WithoutEffect ==
  ASSUME NEW m \in Managers, NoToolLeftBehind, NEW x \in Capabilities
  PROVE  /\ tools[x] = m => Without(m)[x] = NoOne
         /\ tools[x] # m => Without(m)[x] = tools[x]
BY DEF NoToolLeftBehind, Without

LEMMA RegistryStep == TypeOK /\ RegistryInv /\ [Next]_vars => RegistryInv'
<1> SUFFICES ASSUME TypeOK, RegistryInv, [Next]_vars PROVE RegistryInv'
  OBVIOUS
<1>t. /\ tools \in [Capabilities -> Managers \cup {Core, NoOne}]
      /\ disposers \in [Managers -> SUBSET Capabilities]
      /\ answered \in [Managers -> SUBSET Capabilities]
      /\ serving \subseteq Managers /\ job \in [Callers -> Jobs]
  BY DEF TypeOK, RegistryTypeOK
<1> USE RegistryAssumption DEF RegistryInv
<1>1. ASSUME NEW c \in Callers, NEW m \in Managers, BeginStart(c, m) PROVE RegistryInv'
  <2>1. /\ UNCHANGED <<tools, disposers, serving, answered>> /\ m \notin serving
        /\ overlapped \subseteq overlapped'
        /\ (\E d \in Callers : job[d].manager = m) => m \in overlapped'
    BY <1>1 DEF BeginStart
  <2>2. /\ job'[c].manager = m
        /\ \A d \in Callers \ {c} : job'[d] = job[d]
    BY <1>t, <1>1 DEF BeginStart, Begin
  <2>3. NoToolLeftBehind' /\ AnsweredToolsResolve'
    BY <2>1 DEF NoToolLeftBehind, AnsweredToolsResolve
  <2>4. StartInv'
    BY <2>1, <2>2 DEF StartInv
  <2> QED BY <2>3, <2>4
<1>2. ASSUME NEW c \in Callers, NEW m \in Managers, job[c].manager = m, Over(c), RegisterFails(m)
      PROVE  RegistryInv'
  <2>1. /\ tools' = Without(m) /\ disposers' = [disposers EXCEPT ![m] = {}]
        /\ UNCHANGED <<serving, answered, overlapped>>
    BY <1>2 DEF RegisterFails, AfterConflict
  <2>2. \A d \in Callers : job'[d].manager = NoOne \/ job'[d] = job[d]
    BY <1>t, <1>2 DEF Over, NoJob
  <2>3. NoToolLeftBehind'
    BY <1>t, <2>1, WithoutEffect DEF NoToolLeftBehind
  <2>4. StartInv'
    BY <2>1, <2>2 DEF StartInv
  <2>5. m \in serving => m \in overlapped
    BY <1>2 DEF StartInv
  <2>6. AnsweredToolsResolve'
    BY <1>t, <2>1, <2>5, WithoutEffect DEF AnsweredToolsResolve
  <2> QED BY <2>3, <2>4, <2>6
<1>3. ASSUME NEW c \in Callers, NEW m \in Managers, job[c].manager = m, Over(c),
             NEW listed \in SUBSET Offers[m], Register(m, listed)
      PROVE  RegistryInv'
  <2>1. listed \subseteq Capabilities /\ \A x \in listed : tools[x] = NoOne
    BY <1>3 DEF Register, Unclaimed, Resolves, Capabilities
  <2>2. /\ \A x \in Capabilities : tools'[x] = IF x \in listed THEN m ELSE tools[x]
        /\ disposers'[m] = disposers[m] \cup listed
        /\ \A n \in Managers \ {m} : disposers'[n] = disposers[n] /\ answered'[n] = answered[n]
        /\ answered'[m] = listed
        /\ serving' = serving \cup {m} /\ overlapped' = overlapped
    BY <1>t, <1>3 DEF Register
  <2>3. job'[c].manager = NoOne /\ \A d \in Callers \ {c} : job'[d] = job[d]
    BY <1>t, <1>3 DEF Over, NoJob
  <2>4. NoToolLeftBehind'
    BY <1>t, <2>1, <2>2 DEF NoToolLeftBehind
  <2>5. StartInv'
    BY <1>3, <2>2, <2>3 DEF StartInv
  <2>6. AnsweredToolsResolve'
    BY <1>t, <2>1, <2>2 DEF AnsweredToolsResolve
  <2> QED BY <2>4, <2>5, <2>6
<1>4. ASSUME NEW m \in Managers, Dispose(m), UNCHANGED job PROVE RegistryInv'
  <2>1. /\ tools' = Without(m) /\ disposers' = [disposers EXCEPT ![m] = {}]
        /\ serving' = serving \ {m} /\ UNCHANGED <<answered, overlapped>>
    BY <1>4 DEF Dispose
  <2>2. NoToolLeftBehind'
    BY <1>t, <2>1, WithoutEffect DEF NoToolLeftBehind
  <2>3. AnsweredToolsResolve'
    BY <1>t, <2>1, WithoutEffect DEF AnsweredToolsResolve
  <2>4. StartInv'
    BY <1>4, <2>1 DEF StartInv
  <2> QED BY <2>2, <2>3, <2>4
<1>5. CASE /\ StopAll \/ UNCHANGED registryVars
           /\ \A d \in Callers : job'[d] = job[d] \/ job'[d].manager = NoOne
  <2>1. /\ \A x \in Capabilities : tools'[x] = tools[x] \/ (tools[x] = Core /\ tools'[x] = NoOne)
        /\ UNCHANGED <<disposers, serving, answered, overlapped>>
    BY <1>t, <1>5 DEF StopAll, registryVars
  <2>2. NoToolLeftBehind' /\ AnsweredToolsResolve'
    BY <1>t, <2>1 DEF NoToolLeftBehind, AnsweredToolsResolve
  <2>3. StartInv'
    BY <1>5, <2>1 DEF StartInv
  <2> QED BY <2>2, <2>3
<1> QED BY <1>1, <1>2, <1>3, <1>4, <1>5, RegistryFrame

LEMMA RegistryInitially == Init => RegistryInv
<1> SUFFICES ASSUME Init PROVE RegistryInv
  OBVIOUS
<1> USE RegistryAssumption DEF Init, RegistryInit
<1>1. NoToolLeftBehind
  BY DEF NoToolLeftBehind
<1>2. AnsweredToolsResolve
  BY DEF AnsweredToolsResolve
<1>3. StartInv
  BY DEF StartInv, NoJob
<1> QED BY <1>1, <1>2, <1>3 DEF RegistryInv

\* Every registered tool of a manager can be disposed of, and none is left of
\* a manager that is not serving, whichever starts fail.
THEOREM ToolsHaveOwners == Spec => []NoToolLeftBehind
<1>1. RegistryInv => NoToolLeftBehind
  BY DEF RegistryInv
<1> QED BY <1>1, RegistryInitially, RegistryStep, TypingInit, TypingStep, PTL DEF Spec

\* What a start answered can be called until the manager is stopped, unless
\* two starts of that manager overlapped.
THEOREM AnsweredToolsStay == Spec => []AnsweredToolsResolve
<1>1. RegistryInv => AnsweredToolsResolve
  BY DEF RegistryInv
<1> QED BY <1>1, RegistryInitially, RegistryStep, TypingInit, TypingStep, PTL DEF Spec

-------------------------------------------------------------------------------
(* The end.  After a close() that found nothing in flight nobody but its     *)
(* caller is in the sandbox, and nothing resolves that could bring another   *)
(* until a manager is started.  The core tools go for good: no manager can    *)
(* register under their names.                                               *)

CoreInv == \A x \in CoreTools :
    tools[x] \in {Core, NoOne} /\ (bundle # "open" => tools[x] = NoOne)

ClosingInv == \A c \in Callers : at[c] \in {"closing", "removing"} => bundle # "open"

AloneInv == bundle # "open" /\ clean =>
    /\ \A x \in Capabilities : tools[x] = NoOne
    /\ \A c \in Callers : at[c] \in {"idle", "closing", "removing"}
    /\ \A c, d \in Callers : c # d => at[c] = "idle" \/ at[d] = "idle"

OverInv == bundle = "closed" /\ clean =>
    /\ \A c \in Callers : at[c] = "idle"
    /\ cut = {} => ~container

EndInv == ClosingInv /\ AloneInv /\ OverInv

LEMMA CloseEnds ==
  ASSUME NEW c \in Callers, TypeOK, RegistryInv, EndInv, Close(c)
  PROVE  EndInv'
<1>1. /\ bundle = "open" /\ bundle' = "closing"
      /\ at'[c] = "closing" /\ \A d \in Callers \ {c} : at'[d] = at[d]
      /\ clean' => serving = {} /\ \A d \in Callers \ {c} : at[d] = "idle"
  BY GotoEffect DEF Close
<1>2. ASSUME clean', NEW x \in Capabilities PROVE tools'[x] = NoOne
  <2>1. tools[x] \in Managers \cup {Core, NoOne}
    BY DEF TypeOK, RegistryTypeOK
  <2>2. tools[x] \notin Managers
    BY <1>1, <1>2 DEF RegistryInv, NoToolLeftBehind
  <2>3. tools'[x] = IF tools[x] = Core THEN NoOne ELSE tools[x]
    BY DEF Close, StopAll
  <2> QED BY <2>1, <2>2, <2>3
<1> QED BY <1>1, <1>2 DEF EndInv, ClosingInv, AloneInv, OverInv

LEMMA CloseReturnEnds ==
  ASSUME NEW c \in Callers, TypeOK, SandboxInv, EndInv, CloseReturns(c)
  PROVE  EndInv'
<1>1. /\ at[c] \in {"closing", "removing"} /\ at'[c] = "idle"
      /\ \A d \in Callers \ {c} : at'[d] = at[d]
      /\ bundle # "open" /\ bundle' = "closed" /\ UNCHANGED <<tools, clean>>
  BY GotoEffect DEF CloseReturns, NothingToRemove, Removed, Over, registryVars, EndInv, ClosingInv
<1>2. cut' = {} => ~container'
  <2>1. CASE NothingToRemove(c)
    BY <2>1 DEF NothingToRemove, daemon, SandboxInv, TruthInv
  <2>2. CASE Removed(c)
    BY <2>2 DEF Removed
  <2> QED BY <2>1, <2>2 DEF CloseReturns
<1> QED BY <1>1, <1>2 DEF EndInv, ClosingInv, AloneInv, OverInv

LEMMA EndStep == TypeOK /\ SandboxInv /\ RegistryInv /\ EndInv /\ [Next]_vars => EndInv'
<1> SUFFICES ASSUME TypeOK, SandboxInv, RegistryInv, EndInv, [Next]_vars PROVE EndInv'
  OBVIOUS
<1> USE DEF EndInv, ClosingInv, AloneInv, OverInv, registryVars
<1>1. ASSUME NEW c \in Callers, NEW x \in Capabilities, BeginCall(c, x) PROVE EndInv'
  <2>1. tools[x] # NoOne
    BY <1>1 DEF BeginCall, Resolves
  <2> QED BY <1>1, <2>1, GotoEffect DEF BeginCall, daemon
<1>2. ASSUME NEW c \in Callers, NEW m \in Managers, BeginStart(c, m) PROVE EndInv'
  BY <1>2, GotoEffect DEF BeginStart, daemon
<1>3. ASSUME NEW m \in Managers, Stop(m) PROVE EndInv'
  <2>1. \A x \in Capabilities : tools[x] = NoOne => tools'[x] = NoOne
    BY <1>3 DEF Stop, Dispose, Without
  <2> QED BY <1>3, <2>1 DEF Stop, sandboxVars, daemon
<1>4. ASSUME NEW c \in Callers, Finish(c) PROVE EndInv'
  <2>1. at[c] = "executing" /\ UNCHANGED <<bundle, clean>>
    BY <1>4 DEF Finish, Executed
  <2>2. at'[c] = "idle" /\ \A d \in Callers \ {c} : at'[d] = at[d]
    BY <1>4, GotoEffect DEF Finish, Over
  <2> QED BY <2>1, <2>2
<1>5. ASSUME NEW c \in Callers, Raise(c) \/ CloseRaises(c) \/ Cancel(c) PROVE EndInv'
  <2>1. at[c] # "idle" /\ UNCHANGED <<tools, bundle, clean>>
    BY <1>5 DEF Raise, StartFails, CloseRaises, RemovalRaises, Cancel
  <2>2. at'[c] = "idle" /\ \A d \in Callers \ {c} : at'[d] = at[d]
    BY <1>5, GotoEffect DEF Raise, CloseRaises, Cancel, Over
  <2> QED BY <2>1, <2>2
<1>6. ASSUME NEW c \in Callers, Close(c) PROVE EndInv'
  BY <1>6, CloseEnds
<1>7. ASSUME NEW c \in Callers, CloseReturns(c) PROVE EndInv'
  BY <1>7, CloseReturnEnds
<1>8. ASSUME NEW c \in Callers, Sandbox(c) PROVE EndInv'
  <2>1. /\ at[c] \in Starting /\ UNCHANGED <<tools, bundle, clean>>
        /\ \E p \in {"creating", "starting", "executing"} : Goto(c, p)
    BY <1>8 DEF Sandbox, Inspected, NetworkCreated, ContainerStarted, Starting
  <2> QED BY <2>1, GotoEffect DEF Starting
<1>9. ASSUME NEW c \in Callers, Locking(c) PROVE EndInv'
  <2>1. CASE Enter(c)
    <3>1. at[c] = "entering" /\ \E p \in {"inspecting", "executing"} : Goto(c, p)
      BY <2>1 DEF Enter
    <3> QED BY <1>9, <3>1, GotoEffect DEF Locking
  <2>2. CASE BeginRemove(c)
    <3>1. at[c] = "closing" /\ Goto(c, "removing")
      BY <2>2 DEF BeginRemove
    <3> QED BY <1>9, <3>1, GotoEffect DEF Locking
  <2> QED BY <1>9, <2>1, <2>2 DEF Locking
<1>10. CASE Daemon
  <2>1. UNCHANGED <<at, cut, tools, bundle, clean>>
    BY <1>10 DEF Daemon, Land, NetworkAppears
  <2>2. cut = {} => container' = container
    <3>1. cut = {} => late["run"] = 0 /\ late["rm"] = 0
      BY DEF SandboxInv, TruthInv
    <3> QED BY <1>10, <3>1 DEF Daemon, Land, NetworkAppears
  <2> QED BY <2>1, <2>2
<1>11. CASE UNCHANGED vars
  BY <1>11 DEF vars, sandboxVars, daemon
<1> QED BY <1>1, <1>2, <1>3, <1>4, <1>5, <1>6, <1>7, <1>8, <1>9, <1>10, <1>11 DEF Next

LEMMA CoreStep == TypeOK /\ EndInv /\ CoreInv /\ [Next]_vars => CoreInv'
<1> SUFFICES ASSUME TypeOK, EndInv, CoreInv, [Next]_vars, NEW x \in CoreTools
             PROVE  tools'[x] \in {Core, NoOne} /\ (bundle' # "open" => tools'[x] = NoOne)
  BY DEF CoreInv
<1>c. /\ x \in Capabilities /\ tools[x] \in {Core, NoOne}
      /\ bundle # "open" => tools[x] = NoOne
      /\ tools \in [Capabilities -> Managers \cup {Core, NoOne}]
      /\ \A m \in Managers : x \notin Offers[m]
  BY RegistryAssumption DEF CoreInv, Capabilities, TypeOK, RegistryTypeOK
<1> DEFINE Kept == tools'[x] \in {tools[x], NoOne} /\ bundle' = bundle
<1>w. \A m \in Managers : Without(m)[x] \in {tools[x], NoOne}
  BY <1>c DEF Without
<1>1. ASSUME NEW c \in Callers, Close(c) PROVE tools'[x] = NoOne
  BY <1>c, <1>1 DEF Close, StopAll
<1>2. ASSUME NEW c \in Callers, CloseReturns(c) PROVE tools'[x] = NoOne
  <2>1. at[c] \in {"closing", "removing"} /\ tools' = tools
    BY <1>2 DEF CloseReturns, NothingToRemove, Removed, registryVars
  <2> QED BY <1>c, <2>1 DEF EndInv, ClosingInv
<1>3. ASSUME NEW c \in Callers, Finish(c) PROVE Kept
  <2>1. job[c].kind = "start" => job[c].manager \in Managers
    BY DEF TypeOK, Jobs
  <2>2. CASE UNCHANGED tools
    BY <1>3, <2>2 DEF Finish
  <2>3. ASSUME NEW m \in Managers, NEW listed \in SUBSET Offers[m], Register(m, listed)
        PROVE  tools'[x] = tools[x]
    BY <1>c, <2>3 DEF Register
  <2>4. ASSUME NEW m \in Managers, RegisterFails(m) PROVE tools'[x] \in {tools[x], NoOne}
    BY <1>w, <2>4 DEF RegisterFails, AfterConflict
  <2> QED BY <1>3, <2>1, <2>2, <2>3, <2>4 DEF Finish, registryVars
<1>4. ASSUME NEW m \in Managers, Stop(m) PROVE Kept
  BY <1>w, <1>4 DEF Stop, Dispose
<1>5. ASSUME UNCHANGED <<tools, bundle>> PROVE Kept
  BY <1>5
<1>6. ASSUME NEW c \in Callers,
             \/ Raise(c) \/ CloseRaises(c) \/ Cancel(c) \/ Sandbox(c) \/ Locking(c)
             \/ (\E y \in Capabilities : BeginCall(c, y))
             \/ (\E m \in Managers : BeginStart(c, m))
      PROVE  UNCHANGED <<tools, bundle>>
  BY <1>6 DEF Raise, CloseRaises, Cancel, Sandbox, Locking, BeginCall, BeginStart, registryVars
<1>7. ASSUME Daemon \/ UNCHANGED vars PROVE UNCHANGED <<tools, bundle>>
  BY <1>7 DEF Daemon, vars, registryVars
<1> HIDE DEF Kept
<1>8. Kept \/ tools'[x] = NoOne
  BY <1>1, <1>2, <1>3, <1>4, <1>5, <1>6, <1>7 DEF Next
<1> QED BY <1>c, <1>8 DEF Kept

\* The core tools are gone for good; and a runtime closed with no call in flight
\* and no manager serving stays closed and leaves no container behind, until a
\* manager is started.
THEOREM StaysClosed == Spec => []ClosedForGood
<1>1. Init => EndInv /\ CoreInv
  BY DEF Init, EndInv, ClosingInv, AloneInv, OverInv, CoreInv, RegistryInit, Capabilities
<1>2. EndInv /\ CoreInv => ClosedForGood
  BY DEF EndInv, AloneInv, OverInv, CoreInv, ClosedForGood, Resolves
<1> QED BY <1>1, <1>2, EndStep, CoreStep, SandboxInitially, SandboxStep, RegistryInitially, RegistryStep,
           TypingInit, TypingStep, PTL DEF Spec

================================================================================
