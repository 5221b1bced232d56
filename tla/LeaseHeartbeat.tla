--------------------------- MODULE LeaseHeartbeat ---------------------------
(***************************************************************************)
(* services/task_lease.py: run_with_lease_heartbeat, between the acquire   *)
(* and the release of MissionService.run.  Workers with distinct owner ids *)
(* share one TaskLeaseManager.  A worker acquires, sets its run up (saves  *)
(* of task and checkpoint, no heartbeat yet), runs the agent operation     *)
(* with a beat every Interval, and then settles the task (evidence,        *)
(* verification, saves; no heartbeat any more) and releases.               *)
(*                                                                         *)
(* Setup, Lag and Settle say how late a punctual event loop may be: set-up *)
(* and settling take at most Setup and Settle, and a due beat runs at most *)
(* Lag late.  The loop may be later: from then on disturbed holds.  A run  *)
(* may also end in its set-up, before the try block that would release the *)
(* lease; if the owner of such a leaked lease acquires it again, with its  *)
(* old deadline, disturbed holds as well.                                  *)
(***************************************************************************)
EXTENDS TaskLease

CONSTANTS NoTask,
          TTL,          \* lease_ttl_seconds
          Interval,     \* interval_seconds, ttl / 3 by default
          Setup, Lag, Settle

ASSUME NoTaskAssumption == NoTask \notin Tasks
ASSUME TimingAssumption ==
    /\ TTL \in TTLs
    /\ Interval \in Nat \ {0} /\ Interval < TTL
    /\ Setup \in Nat /\ Lag \in Nat /\ Settle \in Nat

VARIABLES
    phase,    \* idle, setup, beating, settling
    work,     \* the task the worker is on
    due,      \* set-up, settling: when they must be over; beating: the next beat
    disturbed \* history: the loop was later than punctual, or a run began on
              \* what was left of an earlier lease of its owner

loop == <<phase, work, due>>
allVars == <<vars, loop, disturbed>>

Phases == {"idle", "setup", "beating", "settling"}

LoopShapeOK ==
    /\ phase \in [Owners -> Phases]
    /\ work \in [Owners -> Tasks \cup {NoTask}]
    /\ due \in [Owners -> Nat]
    /\ disturbed \in BOOLEAN
LoopTypeOK == TypeOK /\ LoopShapeOK

LoopInit ==
    /\ Init
    /\ phase = [o \in Owners |-> "idle"]
    /\ work = [o \in Owners |-> NoTask]
    /\ due = [o \in Owners |-> 0]
    /\ disturbed = FALSE

Move(o, p, t, d) ==
    /\ phase' = [phase EXCEPT ![o] = p]
    /\ work' = [work EXCEPT ![o] = t]
    /\ due' = [due EXCEPT ![o] = d]

Enter(o, p, t, d) == Move(o, p, t, d) /\ UNCHANGED disturbed

------------------------------------------------------------------------------
\* Plausible bugs.
BeatKeepsLease_NoRenewal(o) ==
    Live(work[o]) /\ OwnedBy(work[o], o) /\ UNCHANGED vars

\* The beat's call of leases.heartbeat answering True.
BeatKeepsLease(o) == Heartbeat(o, work[o], TTL)

\* acquired = await self._leases.acquire(...): True.
Begin(o, t) ==
    /\ phase[o] = "idle"
    /\ \/ AcquireFresh(o, t, TTL) /\ UNCHANGED disturbed
       \/ AcquireAgain(o, t) /\ disturbed' = TRUE
    /\ Move(o, "setup", t, now + Setup)

StartBeating_Past(o) ==
    /\ phase[o] = "setup"
    /\ Enter(o, "beating", work[o], now - Interval)
    /\ UNCHANGED vars

\* run_with_lease_heartbeat starts the beat task; its first sleep begins.
StartBeating(o) ==
    /\ phase[o] = "setup"
    /\ Enter(o, "beating", work[o], now + Interval)
    /\ UNCHANGED vars

\* The set-up raises: the try block with the release was not entered yet.
Abandon(o) ==
    /\ phase[o] = "setup"
    /\ Enter(o, "idle", NoTask, 0)
    /\ UNCHANGED vars

\* The sleep is over and the heartbeat succeeds: sleep again.
Beat(o) ==
    /\ phase[o] = "beating"
    /\ now >= due[o]
    /\ BeatKeepsLease(o)
    /\ Enter(o, "beating", work[o], now + Interval)

\* The heartbeat fails: operation.cancel(), LeaseLostError, no more beats.
LoseLease(o) ==
    /\ phase[o] = "beating"
    /\ now >= due[o]
    /\ HeartbeatRefused(o, work[o])
    /\ Enter(o, "settling", work[o], now + Settle)

\* The operation is done first: the beat task is cancelled.
OperationDone(o) ==
    /\ phase[o] = "beating"
    /\ Enter(o, "settling", work[o], now + Settle)
    /\ UNCHANGED vars

\* finally: await self._leases.release(...)
Finish(o) ==
    /\ phase[o] = "settling"
    /\ \/ Release(o, work[o])
       \/ ~OwnedBy(work[o], o) /\ UNCHANGED vars
    /\ Enter(o, "idle", NoTask, 0)

\* ExpiredTaskRecovery sweeps the lease table.
Sweep == PopExpired /\ UNCHANGED <<loop, disturbed>>

\* Nothing that is due is later than punctual at the next instant either.
Punctual ==
    \A o \in Owners :
        /\ phase[o] \in {"setup", "settling"} => now < due[o]
        /\ phase[o] = "beating" => now < due[o] + Lag

LoopTick ==
    /\ Tick
    /\ disturbed' = (disturbed \/ ~Punctual)
    /\ UNCHANGED loop

LoopNext ==
    \/ \E o \in Owners :
          \/ \E t \in Tasks : Begin(o, t)
          \/ StartBeating(o) \/ Abandon(o) \/ Beat(o) \/ LoseLease(o)
          \/ OperationDone(o) \/ Finish(o)
    \/ Sweep
    \/ LoopTick

LoopSpec == LoopInit /\ [][LoopNext]_allVars

------------------------------------------------------------------------------
\* From its acquire to its release a run holds a live lease: when Setup +
\* Interval + Lag + Settle < TTL and the loop is punctual, no interleaving of other
\* workers' acquires, sweeps, abandoned runs and clock ticks makes the beat find
\* it gone, or lets it lapse while the verdict is being saved.
RunHoldsLease ==
    ~disturbed =>
        \A o \in Owners :
            phase[o] # "idle" => Live(work[o]) /\ OwnedBy(work[o], o)

\* So two workers are never both in a run on one task.
OneRunPerTask ==
    ~disturbed =>
        \A o, p \in Owners :
            phase[o] # "idle" /\ phase[p] # "idle" /\ work[o] = work[p] => o = p

\* And what pop_expired finds are leases left behind, of tasks nobody works on:
\* the sweeper marks no task of a run in progress.
OnlyLeakedLapse ==
    ~disturbed =>
        \A o \in Owners : phase[o] # "idle" => ~Lapsed(work[o])
==============================================================================
