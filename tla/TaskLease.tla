------------------------------ MODULE TaskLease ------------------------------
(***************************************************************************)
(* services/task_lease.py: TaskLeaseManager.  One manager of one process.  *)
(* Its asyncio.Lock is never held across an await, so every method is one  *)
(* atomic step.  Time is the injected monotonic clock, counted in ticks.   *)
(***************************************************************************)
EXTENDS Integers

CONSTANTS Tasks, Owners,
          NoOwner,          \* no owner id
          NoLease,          \* a task without an entry in self._leases
          TTLs,             \* the ttl_seconds callers pass
          MaxTime           \* bound: the last instant the clock shows

ASSUME TTLAssumption == TTLs \subseteq Nat \ {0}
ASSUME MaxTimeAssumption == MaxTime \in Nat
ASSUME NoOwnerAssumption == NoOwner \notin Owners
ASSUME NoLeaseAssumption == NoLease \notin [owner : Owners, expires : Nat]

VARIABLES
    now,       \* self._clock()
    leases,    \* self._leases
    promised   \* history: the deadline of the last True an owner was given for
               \* a task and has not given back, 0 when there is none

vars == <<now, leases, promised>>

Lease == [owner : Owners, expires : Nat]

TypeOK ==
    /\ now \in Nat
    /\ leases \in [Tasks -> Lease \cup {NoLease}]
    /\ promised \in [Owners -> [Tasks -> Nat]]

Init ==
    /\ now = 0
    /\ leases = [t \in Tasks |-> NoLease]
    /\ promised = [o \in Owners |-> [t \in Tasks |-> 0]]

\* An entry whose deadline is still ahead.
Live(t) == leases[t] # NoLease /\ leases[t].expires > now

\* An entry that has run out of time but has not been swept.
Lapsed(t) == leases[t] # NoLease /\ leases[t].expires <= now

------------------------------------------------------------------------------
\* Plausible bugs of the tests below (used to show the properties can fail).
OwnedBy_NoOwnerCheck(t, o) == leases[t] # NoLease
CanAcquire_IgnoresOthers(t, o) == TRUE
Poppable_AnyEntry(t) == leases[t] # NoLease

\* current is not None and current.owner_id == owner_id
OwnedBy(t, o) == leases[t] # NoLease /\ leases[t].owner = o

\* A new lease is written unless a live one stands in the way.
CanAcquire(t, o) == ~Live(t)

\* pop_expired's filter.
Poppable(t) == Lapsed(t)

\* acquire: True with a fresh deadline when no live lease stands in the way.
AcquireFresh(o, t, ttl) ==
    /\ CanAcquire(t, o)
    /\ leases' = [leases EXCEPT ![t] = [owner |-> o, expires |-> now + ttl]]
    /\ promised' = [promised EXCEPT ![o][t] = now + ttl]
    /\ UNCHANGED now

\* acquire by the owner of a live lease: True, but the deadline is NOT moved.
AcquireAgain(o, t) ==
    /\ Live(t)
    /\ OwnedBy(t, o)
    /\ promised' = [promised EXCEPT ![o][t] = leases[t].expires]
    /\ UNCHANGED <<now, leases>>

\* heartbeat: the owner of a live lease pushes its deadline out.
Heartbeat(o, t, ttl) ==
    /\ OwnedBy(t, o)
    /\ Live(t)
    /\ leases' = [leases EXCEPT ![t] = [owner |-> o, expires |-> now + ttl]]
    /\ promised' = [promised EXCEPT ![o][t] = now + ttl]
    /\ UNCHANGED now

\* heartbeat answering False: the caller knows it holds nothing.
HeartbeatRefused(o, t) ==
    /\ ~(Live(t) /\ OwnedBy(t, o))
    /\ promised' = [promised EXCEPT ![o][t] = 0]
    /\ UNCHANGED <<now, leases>>

\* release: the owner removes the entry, lapsed or not.
Release(o, t) ==
    /\ OwnedBy(t, o)
    /\ leases' = [leases EXCEPT ![t] = NoLease]
    /\ promised' = [promised EXCEPT ![o][t] = 0]
    /\ UNCHANGED now

\* pop_expired: every lapsed entry is removed in one step.
PopExpired ==
    /\ \E t \in Tasks : Poppable(t)
    /\ leases' = [t \in Tasks |-> IF Poppable(t) THEN NoLease ELSE leases[t]]
    /\ UNCHANGED <<now, promised>>

\* Time passes.
Tick ==
    /\ now < MaxTime
    /\ now' = now + 1
    /\ UNCHANGED <<leases, promised>>

Next ==
    \/ \E o \in Owners, t \in Tasks :
          \/ \E ttl \in TTLs : AcquireFresh(o, t, ttl) \/ Heartbeat(o, t, ttl)
          \/ AcquireAgain(o, t)
          \/ HeartbeatRefused(o, t)
          \/ Release(o, t)
    \/ PopExpired
    \/ Tick

Spec == Init /\ [][Next]_vars

------------------------------------------------------------------------------
\* What an owner was promised is what the manager has recorded: until its
\* deadline, the entry is there, is its own, and runs exactly that long.
\* acquire, heartbeat, release and pop_expired of every other caller may not
\* disturb it.
PromiseKept ==
    \A o \in Owners, t \in Tasks :
        promised[o][t] > now =>
            leases[t] = [owner |-> o, expires |-> promised[o][t]]

\* Two owners are never both inside the time they were promised for one task,
\* whatever the order of acquire, heartbeat, release, pop_expired and the clock.
ExclusivePromise ==
    \A o, p \in Owners, t \in Tasks :
        promised[o][t] > now /\ promised[p][t] > now => o = p

\* The task's holder as a client may rely on it.
Holder == [t \in Tasks |-> IF Live(t) THEN leases[t].owner ELSE NoOwner]

Contract == INSTANCE LeaseService WITH holder <- Holder

\* The manager implements the time-free contract: no task changes hands
\* without having been free in between.
ImplementsLeaseService == Contract!Spec
==============================================================================
