------------------------- MODULE LeaseHeartbeatProofs -------------------------
(***************************************************************************)
(* Theorems about the lease manager, for every set of tasks, owners and    *)
(* ttls, and about the workers that beat for their leases: a run holds its *)
(* lease from acquire to release, for any number of workers and tasks,     *)
(* while the loop is punctual and no run begins on an old lease.           *)
(*                                                                         *)
(* PromiseKept with TypeOK is inductive as it stands.  RunHoldsLease is    *)
(* not: that the next beat finds the lease, and that settling is over      *)
(* before it lapses, needs how far the deadline is ahead of what is due    *)
(* next (Margin).  Leases that abandoned runs leave behind need no         *)
(* invariant: other workers cannot acquire them while they are live.       *)
(***************************************************************************)
EXTENDS LeaseHeartbeat, TLAPS

(* The manager.                                                            *)

\* No step of the manager leaves the state's shape.
LEMMA TypingStep == TypeOK /\ [Next]_vars => TypeOK'
<1> SUFFICES ASSUME TypeOK, [Next]_vars PROVE TypeOK'
  OBVIOUS
<1> USE TTLAssumption DEF TypeOK, Lease
<1>1. ASSUME NEW o \in Owners, NEW t \in Tasks, NEW ttl \in TTLs,
             AcquireFresh(o, t, ttl)
      PROVE TypeOK'
  BY <1>1 DEF AcquireFresh
<1>2. ASSUME NEW o \in Owners, NEW t \in Tasks, NEW ttl \in TTLs,
             Heartbeat(o, t, ttl)
      PROVE TypeOK'
  BY <1>2 DEF Heartbeat
<1>3. ASSUME NEW o \in Owners, NEW t \in Tasks, AcquireAgain(o, t)
      PROVE TypeOK'
  BY <1>3 DEF AcquireAgain, OwnedBy
<1>4. ASSUME NEW o \in Owners, NEW t \in Tasks, HeartbeatRefused(o, t)
      PROVE TypeOK'
  BY <1>4 DEF HeartbeatRefused
<1>5. ASSUME NEW o \in Owners, NEW t \in Tasks, Release(o, t)
      PROVE TypeOK'
  BY <1>5 DEF Release
<1>6. CASE PopExpired
  BY <1>6 DEF PopExpired
<1>7. CASE Tick
  BY <1>7 DEF Tick
<1>8. CASE UNCHANGED vars
  BY <1>8 DEF vars
<1> QED
  BY <1>1, <1>2, <1>3, <1>4, <1>5, <1>6, <1>7, <1>8 DEF Next

\* The state of the manager has the shape of TaskLeaseManager's attributes.
THEOREM Typing == Spec => []TypeOK
<1>1. Init => TypeOK
  BY MaxTimeAssumption DEF Init, TypeOK
<1> QED
  BY <1>1, TypingStep, PTL DEF Spec

\* No call of another owner and no sweep disturbs a lease before the deadline
\* its owner was told.
THEOREM PromiseSafety == Spec => []PromiseKept
<1>1. Init => PromiseKept
  BY DEF Init, PromiseKept
<1>2. TypeOK /\ PromiseKept /\ [Next]_vars => PromiseKept'
  <2> SUFFICES ASSUME TypeOK, PromiseKept, [Next]_vars,
                      NEW p \in Owners, NEW u \in Tasks,
                      promised'[p][u] > now'
               PROVE  leases'[u] = [owner |-> p, expires |-> promised'[p][u]]
    BY DEF PromiseKept
  <2> USE TTLAssumption, NoLeaseAssumption DEF TypeOK, Lease, PromiseKept
  <2>1. ASSUME NEW o \in Owners, NEW t \in Tasks, NEW ttl \in TTLs,
               AcquireFresh(o, t, ttl)
        PROVE  leases'[u] = [owner |-> p, expires |-> promised'[p][u]]
    <3>1. CASE p = o /\ u = t
      BY <2>1, <3>1 DEF AcquireFresh
    <3>2. CASE p # o \/ u # t
      <4>1. promised'[p][u] = promised[p][u] /\ now' = now
        BY <2>1, <3>2 DEF AcquireFresh
      <4>2. leases[u] = [owner |-> p, expires |-> promised[p][u]]
        BY <4>1
      <4>3. leases[u] # NoLease /\ leases[u].expires > now
        BY <4>1, <4>2
      <4>4. u # t
        BY <4>3, <2>1 DEF AcquireFresh, CanAcquire, Live
      <4> QED
        BY <4>1, <4>2, <4>4, <2>1 DEF AcquireFresh
    <3> QED
      BY <3>1, <3>2
  <2>2. ASSUME NEW o \in Owners, NEW t \in Tasks, NEW ttl \in TTLs,
               Heartbeat(o, t, ttl)
        PROVE  leases'[u] = [owner |-> p, expires |-> promised'[p][u]]
    <3>1. CASE p = o /\ u = t
      BY <2>2, <3>1 DEF Heartbeat
    <3>2. CASE p # o \/ u # t
      <4>1. promised'[p][u] = promised[p][u] /\ now' = now
        BY <2>2, <3>2 DEF Heartbeat
      <4>2. leases[u] = [owner |-> p, expires |-> promised[p][u]]
        BY <4>1
      <4>3. u # t
        BY <3>2, <4>2, <2>2 DEF Heartbeat, OwnedBy
      <4> QED
        BY <4>1, <4>2, <4>3, <2>2 DEF Heartbeat
    <3> QED
      BY <3>1, <3>2
  <2>3. ASSUME NEW o \in Owners, NEW t \in Tasks, AcquireAgain(o, t)
        PROVE  leases'[u] = [owner |-> p, expires |-> promised'[p][u]]
    <3>1. CASE p = o /\ u = t
      BY <2>3, <3>1 DEF AcquireAgain, OwnedBy
    <3>2. CASE p # o \/ u # t
      BY <2>3, <3>2 DEF AcquireAgain
    <3> QED
      BY <3>1, <3>2
  <2>4. ASSUME NEW o \in Owners, NEW t \in Tasks, HeartbeatRefused(o, t)
        PROVE  leases'[u] = [owner |-> p, expires |-> promised'[p][u]]
    BY <2>4 DEF HeartbeatRefused
  <2>5. ASSUME NEW o \in Owners, NEW t \in Tasks, Release(o, t)
        PROVE  leases'[u] = [owner |-> p, expires |-> promised'[p][u]]
    <3>1. ~(p = o /\ u = t)
      BY <2>5 DEF Release
    <3>2. promised'[p][u] = promised[p][u] /\ now' = now
      BY <2>5, <3>1 DEF Release
    <3>3. leases[u] = [owner |-> p, expires |-> promised[p][u]]
      BY <3>2
    <3>4. u # t
      BY <3>1, <3>3, <2>5 DEF Release, OwnedBy
    <3> QED
      BY <3>2, <3>3, <3>4, <2>5 DEF Release
  <2>6. CASE PopExpired
    <3>1. leases[u] = [owner |-> p, expires |-> promised[p][u]]
      BY <2>6 DEF PopExpired
    <3>2. ~Poppable(u)
      BY <2>6, <3>1 DEF PopExpired, Poppable, Lapsed
    <3> QED
      BY <2>6, <3>1, <3>2 DEF PopExpired
  <2>7. CASE Tick
    BY <2>7 DEF Tick
  <2>8. CASE UNCHANGED vars
    BY <2>8 DEF vars
  <2> QED
    BY <2>1, <2>2, <2>3, <2>4, <2>5, <2>6, <2>7, <2>8 DEF Next
<1> QED
  BY <1>1, <1>2, Typing, PTL DEF Spec

\* Two owners are never both within the time they were promised for a task.
THEOREM Exclusion == Spec => []ExclusivePromise
<1>1. PromiseKept => ExclusivePromise
  <2> SUFFICES ASSUME PromiseKept, NEW o \in Owners, NEW p \in Owners,
                      NEW t \in Tasks,
                      promised[o][t] > now, promised[p][t] > now
               PROVE  o = p
    BY DEF ExclusivePromise
  <2>1. /\ leases[t] = [owner |-> o, expires |-> promised[o][t]]
        /\ leases[t] = [owner |-> p, expires |-> promised[p][t]]
    BY DEF PromiseKept
  <2> QED
    BY <2>1
<1> QED
  BY <1>1, PromiseSafety, PTL

\* The manager implements the lease contract: acquire grants only free tasks,
\* the clock and release only take holders away, the rest changes no holder.
THEOREM Refinement == Spec => ImplementsLeaseService
<1>1. Init => Contract!Init
  BY DEF Init, Contract!Init, Holder, Live
<1>2. TypeOK /\ [Next]_vars => [Contract!Next]_Holder
  <2> SUFFICES ASSUME TypeOK, [Next]_vars PROVE [Contract!Next]_Holder
    OBVIOUS
  <2> USE TTLAssumption, NoLeaseAssumption DEF TypeOK, Lease
  <2>1. ASSUME NEW o \in Owners, NEW t \in Tasks, NEW ttl \in TTLs,
               AcquireFresh(o, t, ttl)
        PROVE  Contract!Next
    <3>1. Holder[t] = NoOwner
      BY <2>1 DEF AcquireFresh, CanAcquire, Holder
    <3>2. leases'[t] = [owner |-> o, expires |-> now + ttl] /\ now' = now
      BY <2>1 DEF AcquireFresh
    <3>3. leases'[t] # NoLease /\ leases'[t].expires > now'
      BY <3>2
    <3>4. \A u \in Tasks : u # t => leases'[u] = leases[u]
      BY <2>1 DEF AcquireFresh
    <3>5. \A u \in Tasks :
             (IF Live(u) THEN leases[u].owner ELSE NoOwner)'
               = IF u = t THEN o ELSE IF Live(u) THEN leases[u].owner ELSE NoOwner
      BY <3>2, <3>3, <3>4 DEF Live
    <3>6. Holder' = [Holder EXCEPT ![t] = o]
      BY <3>5 DEF Holder
    <3> QED
      BY <3>1, <3>6 DEF Contract!Next, Contract!Grant
  <2>2. ASSUME NEW o \in Owners, NEW t \in Tasks, NEW ttl \in TTLs,
               Heartbeat(o, t, ttl)
        PROVE  Holder' = Holder
    BY <2>2 DEF Heartbeat, Holder, Live, OwnedBy
  <2>3. ASSUME NEW o \in Owners, NEW t \in Tasks, AcquireAgain(o, t)
        PROVE  Holder' = Holder
    BY <2>3 DEF AcquireAgain, Holder, Live
  <2>4. ASSUME NEW o \in Owners, NEW t \in Tasks, HeartbeatRefused(o, t)
        PROVE  Holder' = Holder
    BY <2>4 DEF HeartbeatRefused, Holder, Live
  <2>5. ASSUME NEW o \in Owners, NEW t \in Tasks, Release(o, t)
        PROVE  Contract!Next
    <3>1. Contract!Drop({t})
      BY <2>5 DEF Release, Holder, Live, Contract!Drop
    <3> QED
      BY <3>1 DEF Contract!Next
  <2>6. CASE PopExpired
    BY <2>6 DEF PopExpired, Poppable, Lapsed, Holder, Live
  <2>7. CASE Tick
    <3>1. Contract!Drop({t \in Tasks : ~Live(t)'})
      BY <2>7 DEF Tick, Holder, Live, Contract!Drop
    <3> QED
      BY <3>1 DEF Contract!Next
  <2>8. CASE UNCHANGED vars
    BY <2>8 DEF vars, Holder, Live
  <2> QED
    BY <2>1, <2>2, <2>3, <2>4, <2>5, <2>6, <2>7, <2>8 DEF Next
<1> QED
  BY <1>1, <1>2, Typing, PTL DEF Spec, Contract!Spec, ImplementsLeaseService

-------------------------------------------------------------------------------
(* The workers.                                                            *)


\* The lateness the deadline covers.
Timely == Setup + Interval + Lag + Settle < TTL

\* A deadline e is far enough ahead for what the worker has due: after a set-up
\* that ends at d there is time for an interval, a late beat and settling, after
\* a beat due at d for a late beat and settling.
Ahead(p, d, e) ==
    CASE p = "setup"    -> now <= d /\ d + TTL <= e + Setup
      [] p = "beating"  -> now <= d + Lag /\ d + Lag + Settle < e
      [] p = "settling" -> now <= d /\ d < e

\* Every run has its own entry in the table, with such a deadline.
Margin ==
    \A o \in Owners :
        phase[o] # "idle" =>
            /\ work[o] \in Tasks
            /\ OwnedBy(work[o], o)
            /\ Ahead(phase[o], due[o], leases[work[o]].expires)

WorkAssigned == \A o \in Owners : phase[o] # "idle" => work[o] \in Tasks

Shape == TypeOK /\ LoopShapeOK /\ WorkAssigned

\* What holds while the loop is punctual.
IInv == Shape /\ Margin

-------------------------------------------------------------------------------
\* The deadline of a run in progress is ahead.
LEMMA MarginProtects ==
    ASSUME Timely, IInv, NEW o \in Owners, phase[o] # "idle"
    PROVE  Live(work[o]) /\ OwnedBy(work[o], o)
<1> DEFINE e == leases[work[o]].expires
<1>1. /\ now \in Nat /\ due[o] \in Nat /\ e \in Nat
      /\ TTL \in Nat /\ Setup \in Nat /\ Interval \in Nat
      /\ Lag \in Nat /\ Settle \in Nat
  BY TTLAssumption, TimingAssumption, NoLeaseAssumption
     DEF IInv, Shape, TypeOK, LoopShapeOK, Margin, OwnedBy, Lease
<1>2. Ahead(phase[o], due[o], e) /\ OwnedBy(work[o], o)
  BY DEF IInv, Margin
<1>3. phase[o] \in {"setup", "beating", "settling"}
  BY DEF IInv, Shape, LoopShapeOK, Phases
<1>4. CASE phase[o] = "setup"
  <2>1. now <= due[o] /\ due[o] + TTL <= e + Setup
    BY <1>2, <1>4 DEF Ahead
  <2> QED
    BY <1>1, <1>2, <2>1 DEF Timely, Live, OwnedBy
<1>5. CASE phase[o] = "beating"
  <2>1. now <= due[o] + Lag /\ due[o] + Lag + Settle < e
    BY <1>2, <1>5 DEF Ahead
  <2> QED
    BY <1>1, <1>2, <2>1 DEF Live, OwnedBy
<1>6. CASE phase[o] = "settling"
  <2>1. now <= due[o] /\ due[o] < e
    BY <1>2, <1>6 DEF Ahead
  <2> QED
    BY <1>1, <1>2, <2>1 DEF Live, OwnedBy
<1> QED
  BY <1>3, <1>4, <1>5, <1>6

\* A step of worker q alone keeps the margins of all if what it does to the lease
\* table is confined to one task that no other worker holds and q keeps its own.
LEMMA LocalStep ==
    ASSUME Timely, IInv, NEW q \in Owners, NEW t \in Tasks,
           now' = now,
           \A o \in Owners \ {q} :
               phase'[o] = phase[o] /\ work'[o] = work[o] /\ due'[o] = due[o],
           \A u \in Tasks \ {t} : leases'[u] = leases[u],
           ~Live(t) \/ OwnedBy(t, q),
           phase'[q] # "idle" =>
               /\ work'[q] \in Tasks
               /\ OwnedBy(work[q], q)'
               /\ Ahead(phase[q], due[q], leases[work[q]].expires)'
    PROVE  Margin'
<1> SUFFICES ASSUME NEW o \in Owners, phase'[o] # "idle"
             PROVE  /\ work'[o] \in Tasks
                    /\ OwnedBy(work[o], o)'
                    /\ Ahead(phase[o], due[o], leases[work[o]].expires)'
  BY DEF Margin
<1>1. CASE o = q
  BY <1>1
<1>2. CASE o # q
  <2>1. phase'[o] = phase[o] /\ work'[o] = work[o] /\ due'[o] = due[o]
    BY <1>2
  <2>2. Live(work[o]) /\ OwnedBy(work[o], o) /\ work[o] \in Tasks
    BY <2>1, MarginProtects DEF IInv, Margin
  <2>3. work[o] # t
    BY <1>2, <2>2 DEF OwnedBy
  <2>4. leases'[work[o]] = leases[work[o]]
    BY <2>2, <2>3
  <2>5. Ahead(phase[o], due[o], leases[work[o]].expires)
    BY <2>1 DEF IInv, Margin
  <2>6. Ahead(phase[o], due[o], leases[work[o]].expires)'
    BY <2>1, <2>4, <2>5 DEF Ahead
  <2> QED
    BY <2>1, <2>2, <2>4, <2>6 DEF OwnedBy
<1> QED
  BY <1>1, <1>2

\* Every step of the loop is a call of the manager, a tick, or leaves it alone.
LEMMA LoopCallsManager == Shape /\ [LoopNext]_allVars => [Next]_vars
<1> SUFFICES ASSUME Shape, [LoopNext]_allVars PROVE [Next]_vars
  OBVIOUS
<1> USE TimingAssumption DEF Shape, WorkAssigned
<1>1. ASSUME NEW o \in Owners, NEW t \in Tasks, Begin(o, t) PROVE [Next]_vars
  BY <1>1 DEF Begin, Next
<1>2. ASSUME NEW o \in Owners, StartBeating(o) \/ Abandon(o) \/ OperationDone(o)
      PROVE  [Next]_vars
  BY <1>2 DEF StartBeating, Abandon, OperationDone
<1>3. ASSUME NEW o \in Owners, Beat(o) \/ LoseLease(o) \/ Finish(o)
      PROVE  [Next]_vars
  <2>1. work[o] \in Tasks
    BY <1>3 DEF Beat, LoseLease, Finish
  <2> QED
    BY <1>3, <2>1 DEF Beat, BeatKeepsLease, LoseLease, Finish, Next
<1>4. CASE Sweep
  BY <1>4 DEF Sweep, Next
<1>5. CASE LoopTick
  BY <1>5 DEF LoopTick, Next
<1>6. CASE UNCHANGED allVars
  BY <1>6 DEF allVars
<1> QED
  BY <1>1, <1>2, <1>3, <1>4, <1>5, <1>6 DEF LoopNext

\* The shape of the loop's own state is kept.
LEMMA LoopTypingStep ==
    Shape /\ [LoopNext]_allVars => (LoopShapeOK /\ WorkAssigned)'
<1> SUFFICES ASSUME Shape, [LoopNext]_allVars PROVE (LoopShapeOK /\ WorkAssigned)'
  OBVIOUS
<1> USE TimingAssumption
    DEF Shape, TypeOK, LoopShapeOK, WorkAssigned, Phases, Enter, Move
<1>1. ASSUME NEW o \in Owners, NEW t \in Tasks, Begin(o, t)
      PROVE  (LoopShapeOK /\ WorkAssigned)'
  <2>1. Move(o, "setup", t, now + Setup) /\ disturbed' \in BOOLEAN
    BY <1>1 DEF Begin
  <2> QED
    BY <2>1
<1>2. ASSUME NEW o \in Owners, StartBeating(o) \/ Beat(o)
      PROVE  (LoopShapeOK /\ WorkAssigned)'
  BY <1>2 DEF StartBeating, Beat
<1>3. ASSUME NEW o \in Owners, LoseLease(o) \/ OperationDone(o)
      PROVE  (LoopShapeOK /\ WorkAssigned)'
  <2>1. work[o] \in Tasks /\ Enter(o, "settling", work[o], now + Settle)
    BY <1>3 DEF LoseLease, OperationDone
  <2> QED
    BY <2>1
<1>4. ASSUME NEW o \in Owners, Finish(o) \/ Abandon(o)
      PROVE  (LoopShapeOK /\ WorkAssigned)'
  <2>1. Move(o, "idle", NoTask, 0) /\ disturbed' \in BOOLEAN
    BY <1>4 DEF Finish, Abandon
  <2> QED
    BY <2>1
<1>5. CASE Sweep \/ LoopTick \/ UNCHANGED allVars
  BY <1>5 DEF Sweep, LoopTick, allVars, loop
<1> QED
  BY <1>1, <1>2, <1>3, <1>4, <1>5 DEF LoopNext

LEMMA PunctualStep == Timely /\ IInv /\ [LoopNext]_allVars /\ ~disturbed' => Margin'
<1> SUFFICES ASSUME Timely, IInv, [LoopNext]_allVars, ~disturbed' PROVE Margin'
  OBVIOUS
<1>k. /\ now \in Nat /\ TTL \in Nat /\ Setup \in Nat
      /\ Interval \in Nat /\ Lag \in Nat /\ Settle \in Nat
      /\ Setup + Interval + Lag + Settle < TTL
  BY TTLAssumption, TimingAssumption DEF IInv, Shape, TypeOK, Timely
<1>m. ASSUME NEW q \in Owners, NEW p, NEW t, NEW d, Move(q, p, t, d)
      PROVE  /\ phase'[q] = p /\ work'[q] = t /\ due'[q] = d
             /\ \A o \in Owners \ {q} :
                   phase'[o] = phase[o] /\ work'[o] = work[o] /\ due'[o] = due[o]
  BY <1>m DEF Move, IInv, Shape, LoopShapeOK
<1>1. ASSUME NEW q \in Owners, NEW t \in Tasks, Begin(q, t) PROVE Margin'
  <2>1. AcquireFresh(q, t, TTL) /\ Move(q, "setup", t, now + Setup)
    BY <1>1 DEF Begin
  <2>2. /\ ~Live(t) /\ now' = now
        /\ leases' = [leases EXCEPT ![t] = [owner |-> q, expires |-> now + TTL]]
    BY <2>1 DEF AcquireFresh, CanAcquire
  <2>3. /\ phase'[q] = "setup" /\ work'[q] = t /\ due'[q] = now + Setup
        /\ \A o \in Owners \ {q} :
              phase'[o] = phase[o] /\ work'[o] = work[o] /\ due'[o] = due[o]
    BY <1>m, <2>1
  <2>4. /\ leases'[t] = [owner |-> q, expires |-> now + TTL]
        /\ leases'[t] # NoLease
        /\ \A u \in Tasks \ {t} : leases'[u] = leases[u]
    BY <1>k, <2>2, NoLeaseAssumption DEF IInv, Shape, TypeOK
  <2>5. Ahead("setup", now + Setup, now + TTL)'
    BY <1>k, <2>2, TimingAssumption DEF Ahead
  <2>6. OwnedBy(work[q], q)' /\ Ahead(phase[q], due[q], leases[work[q]].expires)'
    BY <1>k, <2>2, <2>3, <2>4 DEF OwnedBy, Ahead
  <2> QED
    BY <2>2, <2>3, <2>4, <2>6, LocalStep
<1>2. ASSUME NEW q \in Owners, StartBeating(q) PROVE Margin'
  <2>1. /\ phase[q] = "setup" /\ work[q] \in Tasks /\ OwnedBy(work[q], q)
        /\ Ahead("setup", due[q], leases[work[q]].expires)
    BY <1>2 DEF StartBeating, IInv, Margin
  <2>2. /\ phase'[q] = "beating" /\ work'[q] = work[q] /\ due'[q] = now + Interval
        /\ \A o \in Owners \ {q} :
              phase'[o] = phase[o] /\ work'[o] = work[o] /\ due'[o] = due[o]
    BY <1>2, <1>m DEF StartBeating, Enter
  <2>3. now' = now /\ leases' = leases
    BY <1>2 DEF StartBeating, vars
  <2>4. due[q] \in Nat /\ leases[work[q]].expires \in Nat
    BY <2>1, NoLeaseAssumption DEF IInv, Shape, TypeOK, LoopShapeOK, Lease, OwnedBy
  <2>5. /\ now <= (now + Interval) + Lag
        /\ (now + Interval) + Lag + Settle < leases[work[q]].expires
    BY <1>k, <2>1, <2>4 DEF Ahead
  <2>6. OwnedBy(work[q], q)' /\ Ahead(phase[q], due[q], leases[work[q]].expires)'
    BY <2>1, <2>2, <2>3, <2>5 DEF OwnedBy, Ahead
  <2> QED
    BY <2>1, <2>2, <2>3, <2>6, LocalStep
<1>3. ASSUME NEW q \in Owners, Beat(q) PROVE Margin'
  <2>1. /\ phase[q] = "beating" /\ work[q] \in Tasks /\ OwnedBy(work[q], q)
    BY <1>3 DEF Beat, IInv, Margin
  <2>2. /\ phase'[q] = "beating" /\ work'[q] = work[q] /\ due'[q] = now + Interval
        /\ \A o \in Owners \ {q} :
              phase'[o] = phase[o] /\ work'[o] = work[o] /\ due'[o] = due[o]
    BY <1>3, <1>m DEF Beat, Enter
  <2>3. /\ now' = now
        /\ leases' = [leases EXCEPT ![work[q]] = [owner |-> q, expires |-> now + TTL]]
    BY <1>3 DEF Beat, BeatKeepsLease, Heartbeat
  <2>4. /\ leases'[work[q]] = [owner |-> q, expires |-> now + TTL]
        /\ leases'[work[q]] # NoLease
        /\ \A u \in Tasks \ {work[q]} : leases'[u] = leases[u]
    BY <1>k, <2>1, <2>3, NoLeaseAssumption DEF IInv, Shape, TypeOK
  <2>5. /\ now <= (now + Interval) + Lag
        /\ (now + Interval) + Lag + Settle < now + TTL
    BY <1>k
  <2>6. OwnedBy(work[q], q)' /\ Ahead(phase[q], due[q], leases[work[q]].expires)'
    BY <2>2, <2>3, <2>4, <2>5 DEF OwnedBy, Ahead
  <2> QED
    BY <2>1, <2>2, <2>3, <2>4, <2>6, LocalStep
<1>4. ASSUME NEW q \in Owners, LoseLease(q) PROVE Margin'
  \* The beat of a punctual loop never finds the lease gone.
  BY <1>4, MarginProtects DEF LoseLease, HeartbeatRefused
<1>5. ASSUME NEW q \in Owners, OperationDone(q) PROVE Margin'
  <2>1. /\ phase[q] = "beating" /\ work[q] \in Tasks /\ OwnedBy(work[q], q)
        /\ Ahead("beating", due[q], leases[work[q]].expires)
    BY <1>5 DEF OperationDone, IInv, Margin
  <2>2. /\ phase'[q] = "settling" /\ work'[q] = work[q] /\ due'[q] = now + Settle
        /\ \A o \in Owners \ {q} :
              phase'[o] = phase[o] /\ work'[o] = work[o] /\ due'[o] = due[o]
    BY <1>5, <1>m DEF OperationDone, Enter
  <2>3. now' = now /\ leases' = leases
    BY <1>5 DEF OperationDone, vars
  <2>4. due[q] \in Nat /\ leases[work[q]].expires \in Nat
    BY <2>1, NoLeaseAssumption DEF IInv, Shape, TypeOK, LoopShapeOK, Lease, OwnedBy
  <2>5. now <= now + Settle /\ now + Settle < leases[work[q]].expires
    BY <1>k, <2>1, <2>4 DEF Ahead
  <2>6. OwnedBy(work[q], q)' /\ Ahead(phase[q], due[q], leases[work[q]].expires)'
    BY <2>1, <2>2, <2>3, <2>5 DEF OwnedBy, Ahead
  <2> QED
    BY <2>1, <2>2, <2>3, <2>6, LocalStep
<1>6. ASSUME NEW q \in Owners, Finish(q) PROVE Margin'
  <2>1. work[q] \in Tasks /\ OwnedBy(work[q], q)
    BY <1>6 DEF Finish, IInv, Margin
  <2>2. /\ phase'[q] = "idle"
        /\ \A o \in Owners \ {q} :
              phase'[o] = phase[o] /\ work'[o] = work[o] /\ due'[o] = due[o]
    BY <1>6, <1>m DEF Finish, Enter
  <2>3. now' = now /\ \A u \in Tasks \ {work[q]} : leases'[u] = leases[u]
    BY <1>6, <2>1 DEF Finish, Release, IInv, Shape, TypeOK
  <2> QED
    BY <2>1, <2>2, <2>3, LocalStep
<1>7. ASSUME NEW q \in Owners, Abandon(q) PROVE Margin'
  \* The lease stays behind with the owner's name on it.
  <2>1. work[q] \in Tasks /\ OwnedBy(work[q], q)
    BY <1>7 DEF Abandon, IInv, Margin
  <2>2. /\ phase'[q] = "idle"
        /\ \A o \in Owners \ {q} :
              phase'[o] = phase[o] /\ work'[o] = work[o] /\ due'[o] = due[o]
    BY <1>7, <1>m DEF Abandon, Enter
  <2>3. now' = now /\ leases' = leases
    BY <1>7 DEF Abandon, vars
  <2> QED
    BY <2>1, <2>2, <2>3, LocalStep
<1>8. CASE Sweep
  <2>1. /\ phase' = phase /\ work' = work /\ due' = due /\ now' = now
        /\ leases' = [t \in Tasks |-> IF Poppable(t) THEN NoLease ELSE leases[t]]
    BY <1>8 DEF Sweep, PopExpired, loop
  <2>2. ASSUME NEW o \in Owners, phase[o] # "idle"
        PROVE  work[o] \in Tasks /\ leases'[work[o]] = leases[work[o]]
    <3>1. work[o] \in Tasks /\ Live(work[o])
      BY <2>2, MarginProtects DEF IInv, Margin
    <3>2. leases[work[o]].expires \in Nat
      BY <3>1 DEF IInv, Shape, TypeOK, Lease, Live
    <3>3. ~Poppable(work[o])
      BY <1>k, <3>1, <3>2 DEF Poppable, Lapsed, Live
    <3> QED
      BY <2>1, <3>1, <3>3
  <2> QED
    BY <2>1, <2>2 DEF IInv, Margin, OwnedBy, Ahead
<1>9. CASE LoopTick
  <2>1. /\ phase' = phase /\ work' = work /\ due' = due
        /\ now' = now + 1 /\ leases' = leases
    BY <1>9 DEF LoopTick, Tick, loop
  <2>2. Punctual
    <3>1. disturbed' = (disturbed \/ ~Punctual)
      BY <1>9 DEF LoopTick
    <3> QED
      BY <3>1, ZenonT(30)
  <2> SUFFICES ASSUME NEW o \in Owners, phase[o] # "idle"
               PROVE  Ahead(phase[o], due[o], leases[work[o]].expires)'
    BY <2>1 DEF IInv, Margin, OwnedBy
  <2>3. /\ due[o] \in Nat
        /\ phase[o] \in {"setup", "beating", "settling"}
        /\ Ahead(phase[o], due[o], leases[work[o]].expires)
    BY DEF IInv, Margin, Shape, LoopShapeOK, Phases
  <2>4. /\ phase[o] \in {"setup", "settling"} => now < due[o]
        /\ phase[o] = "beating" => now < due[o] + Lag
    BY <2>2 DEF Punctual
  <2>5. /\ phase[o] \in {"setup", "settling"} => now + 1 <= due[o]
        /\ phase[o] = "beating" => now + 1 <= due[o] + Lag
    BY <1>k, <2>3, <2>4
  <2> QED
    BY <2>1, <2>3, <2>5 DEF Ahead
<1>a. CASE UNCHANGED allVars
  BY <1>a DEF allVars, vars, loop, IInv, Margin, OwnedBy, Ahead
<1> QED
  BY <1>1, <1>2, <1>3, <1>4, <1>5, <1>6, <1>7, <1>8, <1>9, <1>a DEF LoopNext

\* A disturbance is not forgotten.
LEMMA DisturbedStays == Shape /\ [LoopNext]_allVars /\ disturbed => disturbed'
BY DEF LoopNext, Begin, StartBeating, Abandon, Beat, LoseLease, OperationDone,
       Finish, Sweep, LoopTick, Enter, allVars, loop, Shape, LoopShapeOK

LEMMA ShapeInit == LoopInit => Shape
<1> SUFFICES ASSUME LoopInit PROVE Shape
  OBVIOUS
<1>1. TypeOK
  BY DEF LoopInit, Init, TypeOK
<1>2. LoopShapeOK /\ WorkAssigned
  BY DEF LoopInit, LoopShapeOK, WorkAssigned, Phases
<1> QED
  BY <1>1, <1>2 DEF Shape

LEMMA ShapeStep == Shape /\ [LoopNext]_allVars => Shape'
BY LoopCallsManager, TypingStep, LoopTypingStep DEF Shape

\* Every variable of the loop and of its manager keeps its type, punctual or not.
THEOREM LoopTyping == LoopSpec => []LoopTypeOK
<1>1. Shape => LoopTypeOK
  BY DEF Shape, LoopTypeOK
<1> QED
  BY <1>1, ShapeInit, ShapeStep, PTL DEF LoopSpec

LEMMA InvariantHolds ==
    ASSUME Timely PROVE LoopSpec => [](Shape /\ (~disturbed => Margin))
<1>1. LoopInit => Shape /\ Margin
  BY ShapeInit DEF LoopInit, Margin
<1>2. /\ Shape /\ (~disturbed => Margin) /\ [LoopNext]_allVars
      => (Shape /\ (~disturbed => Margin))'
  BY ShapeStep, DisturbedStays, PunctualStep DEF IInv
<1> QED
  BY <1>1, <1>2, PTL DEF LoopSpec

\* The workers call the manager as its own specification allows, so what is
\* proved of the manager above is true under their calls.
LEMMA LoopIsManager == LoopSpec => Spec
<1>1. LoopInit => Init
  BY DEF LoopInit
<1>2. LoopSpec => []Shape
  BY ShapeInit, ShapeStep, PTL DEF LoopSpec
<1>3. Shape /\ [LoopNext]_allVars => [Next]_vars
  BY LoopCallsManager
<1> QED
  BY <1>1, <1>2, <1>3, PTL DEF LoopSpec, Spec

\* Under the workers' calls, too, the table keeps every deadline, to one owner
\* per task, and the leases change hands as LeaseService promises.
THEOREM ManagerUnderLoop ==
    LoopSpec => []PromiseKept /\ []ExclusivePromise /\ ImplementsLeaseService
BY LoopIsManager, PromiseSafety, Exclusion, Refinement, PTL

\* A run holds a live lease from its acquire to its release: its beats never find
\* the lease gone, and its verdict is saved under it.
THEOREM HeartbeatKeepsLease ==
    ASSUME Timely PROVE LoopSpec => []RunHoldsLease
<1>1. Shape /\ (~disturbed => Margin) => RunHoldsLease
  BY MarginProtects DEF RunHoldsLease, IInv
<1> QED
  BY <1>1, InvariantHolds, PTL

\* Two workers are never both in a run on one task.
THEOREM RunExclusion ==
    ASSUME Timely PROVE LoopSpec => []OneRunPerTask
<1>1. RunHoldsLease => OneRunPerTask
  BY DEF RunHoldsLease, OneRunPerTask, OwnedBy
<1> QED
  BY <1>1, HeartbeatKeepsLease, PTL

\* Only leases that abandoned runs left behind lapse: the sweeper marks no task
\* that a run is working on.
THEOREM LapsesAreLeaked ==
    ASSUME Timely PROVE LoopSpec => []OnlyLeakedLapse
<1>1. Shape /\ (~disturbed => Margin) => OnlyLeakedLapse
  <2> SUFFICES ASSUME IInv, NEW o \in Owners, phase[o] # "idle"
               PROVE  ~Lapsed(work[o])
    BY DEF OnlyLeakedLapse, IInv
  <2>1. work[o] \in Tasks /\ Live(work[o])
    BY MarginProtects DEF IInv, Shape, WorkAssigned
  <2>2. leases[work[o]].expires \in Nat /\ now \in Nat
    BY <2>1 DEF IInv, Shape, TypeOK, Lease, Live
  <2> QED
    BY <2>1, <2>2 DEF Live, Lapsed
<1> QED
  BY <1>1, InvariantHolds, PTL
===============================================================================
