------------------------------- MODULE JobLease --------------------------------
(***************************************************************************)
(* One background job: the runs a scheduler dispatches, the job_leases row  *)
(* they compete for, and the page-by-page sweep a run makes while it holds  *)
(* the row.                                                                 *)
(*                                                                         *)
(* Any number of runs may overlap: a run that outlives its lease goes on    *)
(* with its batch until its next renewal tells it that it lost the lease.   *)
(* A run samples the clock first and sends its statement later.             *)
(*                                                                         *)
(* Abstractions.  Instants are relative: "left" ticks until the lease       *)
(* expires, "lag" ticks since a run sampled the clock.  A null cursor is    *)
(* the start of the first pass.  A job has one pass, but for retention,     *)
(* which has one per category.  Every invocation mints an owner id, so an   *)
(* owner no run in progress has is None.                                    *)
(***************************************************************************)
EXTENDS Integers, FiniteSets, FiniteSetsExt

CONSTANTS
  Runs,        \* runs in progress at one time
  None,
  NumPasses,   \* passes of the job
  NumIds,      \* ids of rows, in their order
  Rows,        \* the rows of each pass, as <<pass, id>>
  BatchSize,   \* rows of a page
  MaxBatches,  \* maxBatchesPerRun
  Duration,    \* leaseDurationMs
  Cadence,     \* everySeconds: a dispatch follows the one before within it
  Multiplier,  \* STALENESS_CADENCE_MULTIPLIER
  MaxLag       \* bound on the ticks a statement is under way

ASSUME JobLeaseAssumption ==
  /\ NumPasses \in Nat \ {0} /\ NumIds \in Nat \ {0}
  /\ Rows \subseteq (1..NumPasses) \X (1..NumIds)
  /\ BatchSize \in Nat \ {0} /\ MaxBatches \in Nat \ {0}
  /\ Duration \in Nat \ {0} /\ Cadence \in Nat \ {0} /\ Multiplier \in Nat \ {0}
  /\ MaxLag \in Nat
  /\ None \notin Runs

VARIABLES
  lease,   \* the job_leases row; owner None and left -MaxLag before the first run
  run,     \* the runs in progress
  due,     \* the rows each pass has to act on
  since,   \* ticks since the last dispatch
  seen     \* ticks since updatedAt, or since the start while there is no row

vars == <<lease, run, due, since, seen>>

Passes == 1..NumPasses
Ids == 1..NumIds
Cursor == [pass : Passes, after : 0..NumIds]
Start == [pass |-> 1, after |-> 0]

StaleAfter == Multiplier * Cadence

(* A lease, a dispatch and a slow statement fit in the threshold: the code   *)
(* has a lease of 55 seconds, cadences of a minute and more, and the         *)
(* multiplier 3, which leaves a statement more than a minute.               *)
ASSUME HealthAssumption == Duration + Cadence + MaxLag <= StaleAfter + 1

RunRow == [pc : {"idle", "acquire", "list", "work", "renew", "release"}, lag : 0..MaxLag,
           cursor : Cursor, page : SUBSET Ids, next : Cursor, batches : 0..MaxBatches]

NoRun == [pc |-> "idle", lag |-> 0, cursor |-> Start, page |-> {}, next |-> Start,
          batches |-> 0]

Init ==
  /\ lease = [owner |-> None, left |-> -MaxLag, cursor |-> Start]
  /\ run = [r \in Runs |-> NoRun]
  /\ due \in SUBSET Rows
  /\ since = Cadence /\ seen = 0

-------------------------------------------------------------------------------
(* The lease row.                                                           *)

(* Mutant: only a released lease is taken over. *)
DecideTakeoverReleased(lag) == lease.left = -MaxLag

(* decideLeaseTakeover, as of the instant the run sampled.                  *)
DecideTakeover(lag) == lease.left + lag <= 0

(* Mutant: a renewal does not look at who owns the lease. *)
StillOwnerAny(r) == lease.left + run[r].lag > 0

StillOwner(r) == lease.owner = r /\ lease.left + run[r].lag > 0

(* The expiry a run stamps counts from the instant it sampled.              *)
NextLeaseUntil(r) == Duration - run[r].lag

Touch == seen' = 0

(* The end of a run: its owner id is never used again.                      *)
Ended(r, row) == IF row.owner = r THEN [row EXCEPT !.owner = None] ELSE row

-------------------------------------------------------------------------------
(* The scheduler and the lifecycle of a run.                                *)

Dispatch(r) ==
  /\ run[r].pc = "idle" /\ since > 0
  /\ run' = [run EXCEPT ![r] = [NoRun EXCEPT !.pc = "acquire"]]
  /\ since' = 0
  /\ UNCHANGED <<lease, due, seen>>

Acquire(r) ==
  /\ run[r].pc = "acquire"
  /\ DecideTakeover(run[r].lag)
  /\ lease' = [lease EXCEPT !.owner = r, !.left = NextLeaseUntil(r)]
  /\ run' = [run EXCEPT ![r].pc = "list", ![r].lag = 0, ![r].cursor = lease.cursor]
  /\ Touch
  /\ UNCHANGED <<due, since>>

(* Another run's lease is live: this one is skipped_locked, without a trace. *)
SkippedLocked(r) ==
  /\ run[r].pc = "acquire"
  /\ ~DecideTakeover(run[r].lag)
  /\ run' = [run EXCEPT ![r] = NoRun]
  /\ UNCHANGED <<lease, due, since, seen>>

-------------------------------------------------------------------------------
(* A batch.                                                                 *)

DueAfter(c) == {i \in Ids : i > c.after /\ <<c.pass, i>> \in due}

(* The rows of the page: the first BatchSize due ones after the cursor.     *)
Page(c) == {i \in DueAfter(c) : Cardinality({j \in DueAfter(c) : j <= i}) <= BatchSize}

(* Mutant: a page that comes out empty leaves the cursor where it is. *)
CursorAfterStuck(c, page) ==
  IF page = {} /\ c.after # 0 THEN c
  ELSE IF Cardinality(page) < BatchSize
       THEN IF c.pass < NumPasses THEN [pass |-> c.pass + 1, after |-> 0] ELSE Start
       ELSE [c EXCEPT !.after = Max(page)]

(* A short page drains its pass: the next one is due, or a fresh sweep.     *)
CursorAfter(c, page) ==
  IF Cardinality(page) < BatchSize
  THEN IF c.pass < NumPasses THEN [pass |-> c.pass + 1, after |-> 0] ELSE Start
  ELSE [c EXCEPT !.after = Max(page)]

List(r) ==
  LET page == Page(run[r].cursor) IN
  /\ run[r].pc = "list"
  /\ run' = [run EXCEPT ![r].pc = "work", ![r].page = page,
                        ![r].next = CursorAfter(run[r].cursor, page),
                        ![r].batches = @ + 1]
  /\ UNCHANGED <<lease, due, since, seen>>

(* The command on one row of the page: a no-op on a row that is not due.    *)
WorkRow(r, i) ==
  /\ run[r].pc = "work"
  /\ i \in run[r].page /\ \A j \in run[r].page : i <= j
  /\ due' = due \ {<<run[r].cursor.pass, i>>}
  /\ run' = [run EXCEPT ![r].page = @ \ {i}]
  /\ UNCHANGED <<lease, since, seen>>

(* The page in one transaction or statement.                                *)
WorkPage(r) ==
  /\ run[r].pc = "work" /\ run[r].page # {}
  /\ due' = due \ ({run[r].cursor.pass} \X run[r].page)
  /\ run' = [run EXCEPT ![r].page = {}]
  /\ UNCHANGED <<lease, since, seen>>

(* The batch is over; the renewal's expiry is sampled.                      *)
BatchEnds(r) ==
  /\ run[r].pc = "work" /\ run[r].page = {}
  /\ run' = [run EXCEPT ![r].pc = "renew", ![r].lag = 0]
  /\ UNCHANGED <<lease, due, since, seen>>

(* The batch throws: the run goes to its "finally" with the cursor it had.  *)
BatchThrows(r) ==
  /\ run[r].pc \in {"list", "work"}
  /\ run' = [run EXCEPT ![r] = [NoRun EXCEPT !.pc = "release"]]
  /\ UNCHANGED <<lease, due, since, seen>>

(* The run goes on until the job is drained (the next cursor is the start)  *)
(* or it has done maxBatchesPerRun batches.                                 *)
AnotherBatch(r) == run[r].next # Start /\ run[r].batches < MaxBatches

(* Cursor and expiry in one conditional statement.                          *)
Renew(r) ==
  /\ run[r].pc = "renew" /\ StillOwner(r)
  /\ lease' = [lease EXCEPT !.left = NextLeaseUntil(r), !.cursor = run[r].next]
  /\ run' = [run EXCEPT ![r] = IF AnotherBatch(r)
                               THEN [NoRun EXCEPT !.pc = "list", !.cursor = run[r].next,
                                                  !.batches = run[r].batches]
                               ELSE [NoRun EXCEPT !.pc = "release"]]
  /\ Touch
  /\ UNCHANGED <<due, since>>

LeaseLost(r) ==
  /\ run[r].pc = "renew" /\ ~StillOwner(r)
  /\ run' = [run EXCEPT ![r] = [NoRun EXCEPT !.pc = "release"]]
  /\ UNCHANGED <<lease, due, since, seen>>

(* The lease expires at once, if it is still this run's.                    *)
Release(r) ==
  /\ run[r].pc = "release"
  /\ IF lease.owner = r
     THEN lease' = [lease EXCEPT !.owner = None, !.left = -MaxLag] /\ Touch
     ELSE UNCHANGED <<lease, seen>>
  /\ run' = [run EXCEPT ![r] = NoRun]
  /\ UNCHANGED <<due, since>>

(* The process dies: the row stays as it is until it expires.  (A dispatch  *)
(* that dies before its acquire is one the scheduler never made.)           *)
Crash(r) ==
  /\ run[r].pc \notin {"idle", "acquire"}
  /\ lease' = Ended(r, lease)
  /\ run' = [run EXCEPT ![r] = NoRun]
  /\ UNCHANGED <<due, since, seen>>

-------------------------------------------------------------------------------
(* The rest of the platform makes rows due, and time passes.                *)
Arises(x) ==
  /\ x \notin due
  /\ due' = due \cup {x}
  /\ UNCHANGED <<lease, run, since, seen>>

Tick ==
  /\ since < Cadence
  /\ \A r \in Runs : run[r].pc \in {"acquire", "renew"} => run[r].lag < MaxLag
  /\ since' = since + 1
  /\ seen' = IF seen <= StaleAfter THEN seen + 1 ELSE seen
  /\ lease' = [lease EXCEPT !.left = IF @ > -MaxLag THEN @ - 1 ELSE @]
  /\ run' = [r \in Runs |-> IF run[r].pc \in {"acquire", "renew"}
                            THEN [run[r] EXCEPT !.lag = @ + 1] ELSE run[r]]
  /\ UNCHANGED due

RunStep(r) ==
  \/ Dispatch(r) \/ Acquire(r) \/ SkippedLocked(r)
  \/ List(r) \/ WorkPage(r) \/ BatchEnds(r) \/ BatchThrows(r)
  \/ \E i \in Ids : WorkRow(r, i)
  \/ Renew(r) \/ LeaseLost(r) \/ Release(r) \/ Crash(r)

Next == (\E r \in Runs : RunStep(r)) \/ (\E x \in Rows : Arises(x)) \/ Tick

Spec == Init /\ [][Next]_vars

(* Time passes, the scheduler dispatches (Tick waits for it), and no run     *)
(* hangs.                                                                   *)
Goes(r) ==
  \/ Acquire(r) \/ SkippedLocked(r)
  \/ List(r) \/ WorkPage(r) \/ BatchEnds(r) \/ \E i \in Ids : WorkRow(r, i)
  \/ Renew(r) \/ LeaseLost(r) \/ Release(r)

Fairness ==
  /\ WF_vars(Tick)
  /\ WF_vars(\E r \in Runs : Dispatch(r))
  /\ \A r \in Runs : WF_vars(Goes(r))

FairSpec == Spec /\ Fairness

-------------------------------------------------------------------------------
(* Properties.                                                              *)

TypeOK ==
  /\ lease \in [owner : Runs \cup {None}, left : Int, cursor : Cursor]
  /\ lease.left >= -MaxLag /\ lease.left <= Duration
  /\ run \in [Runs -> RunRow]
  /\ due \subseteq Rows
  /\ since \in 0..Cadence /\ seen \in 0..(StaleAfter + 1)

(* What the run holding the lease read is what the row holds: no run writes *)
(* the cursor of a lease that is not its own.                               *)
HolderIsCurrent ==
  \A r \in Runs :
    lease.owner = r =>
      /\ run[r].pc \in {"list", "work", "renew", "release"}
      /\ run[r].pc # "release" => run[r].cursor = lease.cursor

(* A step writes the cursor that follows the one the row holds. *)
CursorStep ==
  lease'.cursor # lease.cursor =>
    \E r \in Runs : /\ Renew(r)
                   /\ run[r].cursor = lease.cursor
                   /\ lease'.cursor = run[r].next

(* A persisted cursor is only replaced by the one that follows it: a run    *)
(* that lost its lease and goes on cannot take the sweep back or forward    *)
(* past rows no one has looked at.                                          *)
CursorContinues == [][CursorStep]_vars

(* A lease that has not expired is not taken from its run, whenever the     *)
(* other run sampled its clock.                                             *)
LiveIsNotTaken ==
  [][lease.left > 0 /\ lease'.owner # lease.owner => lease'.owner = None]_vars

(* judgeKnownJob: seen at its threshold a job is still healthy.             *)
Stale == seen > StaleAfter

(* The health endpoint does not cry wolf: while dispatches reach the        *)
(* database at their cadence the job is never reported stale or never run,  *)
(* however many runs are skipped, outlive their lease, throw or crash.      *)
HealthyWhileDispatched == ~Stale

(* Once runs stop failing, whatever they left behind (an unexpired lease, a  *)
(* cursor in the middle, a run that lost its lease), every row that becomes *)
(* due is acted on, whatever page it is in.                                 *)
Fails(r) == Crash(r) \/ BatchThrows(r) \/ LeaseLost(r)
DueIsDone ==
  <>[][~\E r \in Runs : Fails(r)]_vars => \A x \in Rows : x \in due ~> x \notin due

===============================================================================
