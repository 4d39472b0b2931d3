------------------------------- MODULE RateLimit -------------------------------
(***************************************************************************)
(* One counter of the shared rate-limit store, and the requests that count   *)
(* into it: a request reads the counter, decides on what it read, and adds  *)
(* its event later with one upsert, which merges into the row it finds.     *)
(* The retention job deletes rows that were expired when it listed them.    *)
(*                                                                         *)
(* A login counts failures ("penalize" after a "check"), the internal and   *)
(* the agent interface count admitted requests ("consume"): both read,      *)
(* decide and add one event, and a login that succeeds clears the key.      *)
(***************************************************************************)
EXTENDS Naturals, FiniteSetsExt

CONSTANTS
  Callers,
  Limit, Window, Cooldown,   \* the rule; Cooldown is 0 where it has none
  MaxCount, Horizon          \* bounds on events and on the clock

ASSUME RateLimitAssumption ==
  /\ Limit \in Nat \ {0} /\ Window \in Nat \ {0} /\ Cooldown \in Nat
  /\ MaxCount \in Nat /\ Horizon \in Nat

VARIABLES
  row,       \* the stored counter; absent when "there" is false
  caller,    \* a request that has decided and will add its event
  pruning,   \* the retention job has listed the row as expired
  events,    \* history: events added since the row last started
  time

rateVars == <<row, caller, pruning, events, time>>

(* blocked is 0 where the column is null.                                   *)
WindowCounter == [count : 0..MaxCount, start : 0..Horizon, blocked : 0..(Horizon + Cooldown)]

Row == [there : BOOLEAN, counter : WindowCounter, expires : 0..(Horizon + Window + Cooldown)]

CallerState == [pc : {"idle", "checked", "adds"}, counter : WindowCounter]

EmptyCounter == [count |-> 0, start |-> 0, blocked |-> 0]

NoRow == [there |-> FALSE, counter |-> EmptyCounter, expires |-> 0]

RateInit ==
  /\ row = NoRow
  /\ caller = [c \in Callers |-> [pc |-> "idle", counter |-> EmptyCounter]]
  /\ pruning = FALSE
  /\ events = 0
  /\ time = 0

-------------------------------------------------------------------------------
(* The policy, on a counter.                                                *)

NormalizeCounter(k) ==
  IF \/ k.blocked # 0 /\ time >= k.blocked
     \/ k.blocked = 0 /\ time >= k.start + Window
  THEN EmptyCounter ELSE k

EvaluateWindow(k) ==
  LET active == NormalizeCounter(k) IN active.blocked = 0 /\ active.count < Limit

RegisterEvent(k) ==
  LET active == NormalizeCounter(k) IN
  IF active.blocked # 0 THEN active
  ELSE [count |-> active.count + 1,
        start |-> IF active.count = 0 THEN time ELSE active.start,
        blocked |-> IF active.count + 1 >= Limit /\ Cooldown > 0 THEN time + Cooldown ELSE 0]

ExpiryFor(k) == Max({k.start + Window, k.blocked})

-------------------------------------------------------------------------------
(* The store.                                                               *)

LiveRow == row.there /\ row.expires > time

Get == IF LiveRow THEN row.counter ELSE EmptyCounter

(* Mutants: the number the caller computed overwrites the row; the block     *)
(* the caller computed overwrites the one in force.                         *)
MergeOverwrites(k, expires) ==
  [there |-> TRUE, counter |-> k, expires |-> Max({row.expires, expires})]

MergeForgetsBlock(k, expires) ==
  [there |-> TRUE,
   counter |-> [count |-> row.counter.count + 1, start |-> row.counter.start,
                blocked |-> k.blocked],
   expires |-> Max({row.expires, expires})]

(* ON CONFLICT with a live row: one more event in that row's window.        *)
Merge(k, expires) ==
  [there |-> TRUE,
   counter |-> [count |-> row.counter.count + 1, start |-> row.counter.start,
                blocked |-> Max({row.counter.blocked, k.blocked})],
   expires |-> Max({row.expires, expires})]

Fresh(k, expires) == [there |-> TRUE, counter |-> k, expires |-> expires]

Set(k) ==
  /\ row' = IF LiveRow THEN Merge(k, ExpiryFor(k)) ELSE Fresh(k, ExpiryFor(k))
  /\ events' = IF LiveRow THEN events + 1 ELSE 1

-------------------------------------------------------------------------------
(* Requests.                                                                *)

(* check: a refused request ends here.                                      *)
Check(c) ==
  /\ caller[c].pc = "idle"
  /\ EvaluateWindow(Get)
  /\ caller' = [caller EXCEPT ![c].pc = "checked"]
  /\ UNCHANGED <<row, pruning, events, time>>

(* penalize reads the counter again.                                        *)
PenalizeReads(c) ==
  /\ caller[c].pc = "checked" /\ Get.count < MaxCount
  /\ caller' = [caller EXCEPT ![c] = [pc |-> "adds", counter |-> RegisterEvent(Get)]]
  /\ UNCHANGED <<row, pruning, events, time>>

(* consume decides and computes the new counter on one read.                *)
ConsumeReads(c) ==
  /\ caller[c].pc = "idle" /\ Get.count < MaxCount
  /\ EvaluateWindow(Get)
  /\ caller' = [caller EXCEPT ![c] = [pc |-> "adds", counter |-> RegisterEvent(Get)]]
  /\ UNCHANGED <<row, pruning, events, time>>

AddsEvent(c) ==
  /\ caller[c].pc = "adds"
  /\ row.counter.count < MaxCount
  /\ Set(caller[c].counter)
  /\ caller' = [caller EXCEPT ![c] = [pc |-> "idle", counter |-> EmptyCounter]]
  /\ UNCHANGED <<pruning, time>>

(* The password was right: the key is forgotten.                            *)
Clear(c) ==
  /\ caller[c].pc = "checked"
  /\ row' = NoRow /\ events' = 0
  /\ caller' = [caller EXCEPT ![c].pc = "idle"]
  /\ UNCHANGED <<pruning, time>>

PruneLists ==
  /\ ~pruning /\ row.there /\ row.expires <= time
  /\ pruning' = TRUE
  /\ UNCHANGED <<row, caller, events, time>>

(* The delete names the key only: a row that was armed again goes with it.  *)
PruneDeletes ==
  /\ pruning
  /\ pruning' = FALSE
  /\ row' = NoRow /\ events' = 0
  /\ UNCHANGED <<caller, time>>

TimeGoesOn ==
  /\ time < Horizon
  /\ time' = time + 1
  /\ UNCHANGED <<row, caller, pruning, events>>

RateNext ==
  \/ \E c \in Callers :
       Check(c) \/ PenalizeReads(c) \/ ConsumeReads(c) \/ AddsEvent(c) \/ Clear(c)
  \/ PruneLists \/ PruneDeletes \/ TimeGoesOn

RateSpec == RateInit /\ [][RateNext]_rateVars

-------------------------------------------------------------------------------
(* Properties.                                                              *)

RateTypeOK ==
  /\ row \in Row
  /\ caller \in [Callers -> CallerState]
  /\ events \in Nat /\ time \in 0..Horizon

(* Requests that all read the counter before any of them wrote are all       *)
(* counted: the row holds at least the events added since it started (more   *)
(* when the first of them was computed from a row that has expired since).  *)
NoEventLost == row.there => row.counter.count >= events

(* A live row that blocks its key goes on blocking it at least as long,      *)
(* however stale the counters that later writes were computed from, until    *)
(* the key is cleared or the row deleted.                                   *)
BlockHolds ==
  [][LiveRow /\ row.counter.blocked > time /\ row'.there
       => row'.counter.blocked >= row.counter.blocked]_rateVars

===============================================================================
