------------------------------- MODULE CronHealth -------------------------------
(***************************************************************************)
(* GET /api/health/cron: is the scheduler still dispatching every job?      *)
(* JobLease has how one job's lease row is touched; here are the rows of    *)
(* all jobs, the deployments that add and retire jobs and restart the       *)
(* process, and the probe that judges them.                                 *)
(*                                                                         *)
(* A probe reads the clock, then the rows and the oldest createdAt in two   *)
(* queries of their own, so a job may be dispatched, or the very first row  *)
(* come up, between any two of them.                                        *)
(*                                                                         *)
(* Abstractions.  One clock, of the process and of the database.  A probe   *)
(* without the cron secret is refused and is no step.                       *)
(***************************************************************************)
EXTENDS Naturals, FiniteSets

CONSTANTS
  CronJobs,            \* jobs some deployment declares a cadence for
  CadenceSeconds,      \* the cadence of each
  StalenessMultiplier,
  Never,               \* no row, no instant
  MaxMoment,           \* bound on the clock
  MaxDeployments       \* bound on restarts

ASSUME CronHealthAssumption ==
  /\ CadenceSeconds \in [CronJobs -> Nat \ {0}]
  /\ StalenessMultiplier \in Nat \ {0}
  /\ MaxMoment \in Nat /\ MaxDeployments \in Nat
  /\ Never \notin 0..MaxMoment /\ IsFiniteSet(CronJobs)

VARIABLES
  moment,      \* the clock
  declared,    \* the cadence table of the deployment that runs
  started,     \* when its process first was asked: it builds the service then
  deployments, \* how often it was replaced
  lease,       \* job_leases: updatedAt and createdAt of each row
  probe        \* the probe under way and what it answered

healthVars == <<moment, declared, started, deployments, lease, probe>>

NoLease == [seen |-> Never, made |-> Never]
NoLeases == [j \in CronJobs |-> NoLease]

(* A probe: the instant it sampled, since when each job was idle then        *)
(* (history for the property), the rows and the oldest createdAt as it read  *)
(* them, and its answer with the jobs it names.                             *)
NoProbe == [pc |-> "idle", at |-> 0, idle |-> [j \in CronJobs |-> 0],
            rows |-> NoLeases, oldest |-> Never, status |-> "none", stale |-> {}]

HealthInit ==
  /\ moment = 0 /\ started = Never /\ deployments = 0
  /\ declared \in SUBSET CronJobs
  /\ lease = NoLeases
  /\ probe = NoProbe

(* A runner acquires, renews or releases the lease of a job: the scheduler   *)
(* dispatches it.  A job that no longer is declared may be under way.       *)
Dispatched(j) ==
  /\ lease' = [lease EXCEPT ![j] =
                 [seen |-> moment, made |-> IF @.made = Never THEN moment ELSE @.made]]
  /\ UNCHANGED <<moment, declared, started, deployments, probe>>

(* A deployment with another cadence table: the process is replaced and its  *)
(* probe lost; the rows stay.                                               *)
Deploy(jobs) ==
  /\ deployments < MaxDeployments
  /\ deployments' = deployments + 1
  /\ declared' = jobs /\ started' = Never /\ probe' = NoProbe
  /\ UNCHANGED <<moment, lease>>

MomentPasses ==
  /\ moment < MaxMoment
  /\ moment' = moment + 1
  /\ UNCHANGED <<declared, started, deployments, lease, probe>>

Made == {lease[j].made : j \in CronJobs} \ {Never}
Oldest == IF Made = {} THEN Never ELSE CHOOSE t \in Made : \A u \in Made : t <= u

(* Since when a job has not been dispatched: its last dispatch or, if it     *)
(* never ran, the first of any job or, if none ran, the service's start.    *)
IdleSince(j, start) ==
  IF lease[j].seen # Never THEN lease[j].seen
  ELSE IF Oldest # Never THEN Oldest ELSE start

ProbeStarts ==
  /\ probe.pc \in {"idle", "answered"}
  /\ started' = IF started = Never THEN moment ELSE started
  /\ probe' = [NoProbe EXCEPT !.pc = "reading", !.at = moment,
                              !.idle = [j \in CronJobs |-> IdleSince(j, started')]]
  /\ UNCHANGED <<moment, declared, deployments, lease>>

(* The two queries, in either order. *)
ReadsRows ==
  /\ probe.pc \in {"reading", "oldest"}
  /\ probe' = [probe EXCEPT !.pc = IF @ = "reading" THEN "rows" ELSE "judge", !.rows = lease]
  /\ UNCHANGED <<moment, declared, started, deployments, lease>>

ReadsOldest ==
  /\ probe.pc \in {"reading", "rows"}
  /\ probe' = [probe EXCEPT !.pc = IF @ = "reading" THEN "oldest" ELSE "judge",
                            !.oldest = Oldest]
  /\ UNCHANGED <<moment, declared, started, deployments, lease>>

StaleAfterMs(j) == CadenceSeconds[j] * StalenessMultiplier

(* The verdict on a job is strict: at its threshold it is still healthy.    *)
Older(t, at, j) == t + StaleAfterMs(j) < at

(* Mutant: every deployment starts the grace of a first run anew.           *)
ActiveSinceRestart(p) == started

(* Since when the scheduler has plausibly been dispatching: the oldest row,  *)
(* or this service where there is none.                                     *)
ActiveSince(p) == IF p.oldest # Never THEN p.oldest ELSE started

Verdict(p, j) ==
  LET seen == p.rows[j].seen IN
  IF seen # Never
  THEN IF Older(seen, p.at, j) THEN "stale" ELSE "healthy"
  ELSE IF Older(ActiveSince(p), p.at, j) THEN "never_run" ELSE "pending_first_run"

StaleJobs(p) == {j \in declared : Verdict(p, j) \in {"stale", "never_run"}}

Answers ==
  /\ probe.pc = "judge"
  /\ probe' = [NoProbe EXCEPT !.pc = "answered", !.stale = StaleJobs(probe),
                              !.status = IF StaleJobs(probe) = {} THEN "healthy"
                                                                  ELSE "degraded"]
  /\ UNCHANGED <<moment, declared, started, deployments, lease>>

(* The lease store cannot be read: degraded, and no job is named.           *)
ReadFails ==
  /\ probe.pc \in {"reading", "rows", "oldest"}
  /\ probe' = [NoProbe EXCEPT !.pc = "answered", !.status = "unavailable"]
  /\ UNCHANGED <<moment, declared, started, deployments, lease>>

HealthNext ==
  \/ \E j \in CronJobs : Dispatched(j)
  \/ \E jobs \in SUBSET CronJobs : Deploy(jobs)
  \/ MomentPasses
  \/ ProbeStarts \/ ReadsRows \/ ReadsOldest \/ Answers \/ ReadFails

HealthSpec == HealthInit /\ [][HealthNext]_healthVars

-------------------------------------------------------------------------------
(* What a probe answers is true of the scheduler.  A job it names is         *)
(* declared, and when the probe was made it had been idle for longer than   *)
(* its threshold: a dispatch or a first row between the probe's reads never *)
(* makes a job look dead.  And a declared job that is idle for longer than  *)
(* its threshold when the probe answers is named, however often the process *)
(* was replaced since a job was first dispatched.                           *)
AlarmIsTrue ==
  [][probe'.status \in {"healthy", "degraded"} /\ probe.pc = "judge" =>
       /\ \A j \in probe'.stale : j \in declared /\ Older(probe.idle[j], probe.at, j)
       /\ \A j \in declared : Older(IdleSince(j, started), probe.at, j) => j \in probe'.stale
       /\ probe'.status = "healthy" <=> probe'.stale = {}]_healthVars

===============================================================================
