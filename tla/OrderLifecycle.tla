---------------------------- MODULE OrderLifecycle ----------------------------
(***************************************************************************)
(* The order lifecycle of the partner platform: buyers reserve a phone     *)
(* number, the number's agent forwards the SMS it receives, the first OTP   *)
(* settles the order and pays the partner once, and the number stays held   *)
(* ("listening") until the buyer completes the order or its window lapses.  *)
(*                                                                         *)
(* Every command is one Postgres READ COMMITTED transaction of several      *)
(* statements.  A transaction is a worker of Procs that reads the order     *)
(* row, then the number and device rows, then commits: what it read may be  *)
(* stale by then, and only the compare-and-set in its UPDATEs protects it.  *)
(* A commit is one step (its rows are locked from the first UPDATE on).     *)
(*                                                                         *)
(* Abstractions.  A device row is reduced to fresh[n]: the device hosting n *)
(* is online and was heard from within the heartbeat timeout.  A number's   *)
(* "enabled" flag is status # "disabled".  The intermediate statuses        *)
(* "created" and "reserved" exist only inside the reservation transaction.  *)
(* Offers and partner approval only ever refuse: a refusal is no step.      *)
(***************************************************************************)
EXTENDS Naturals

CONSTANTS
  Orders,         \* order ids, handed out by reservations
  Numbers,        \* phone numbers of the inventory
  Messages,       \* inbound SMS, each with its own message id
  ApiProcs,       \* workers serving buyer, admin and agent requests
  CronProcs,      \* workers of the scheduled jobs
  None,           \* no order, number or message
  OrderTimeout,   \* orderTimeoutSeconds of the active configuration
  CancelMinimum,  \* cancelMinimumSeconds of the active configuration
  MaxTime         \* bound on the clock

ASSUME ConstantsAssumption ==
  /\ OrderTimeout \in Nat /\ CancelMinimum \in Nat
  /\ MaxTime \in Nat
  /\ None \notin Orders \cup Numbers \cup Messages
  /\ ApiProcs \cap CronProcs = {}

VARIABLES
  now,      \* the server clock
  orders,   \* partner_orders rows
  numbers,  \* partner_numbers rows: status and currentOrderId
  fresh,    \* the number's device is live
  sms,      \* partner_sms rows
  earned,   \* earnings (with their order-success ledger event) per order
  jobKey,   \* idempotency record of each cron command on each order
  tx        \* the transaction each worker is running

vars == <<now, orders, numbers, fresh, sms, earned, jobKey, tx>>

Procs == ApiProcs \cup CronProcs

TerminalStatus == {"success", "cancelled", "timeout", "failed"}
OrderStatus == {"absent", "waiting_sms"} \cup TerminalStatus
IdleStatus == {"offline", "available", "disabled"}
NumberStatus == IdleStatus \cup {"busy"}

(* The timeout has two callers: the job, and Main by its own request.       *)
JobCommands == {"timeout", "sweep"}
TimeoutCommands == {"timeout", "main_timeout"}
TerminalCommands == {"cancel", "compensate", "fail"} \cup TimeoutCommands
ReleaseCommands == {"complete", "sweep"}
Commands == TerminalCommands \cup ReleaseCommands

OrderRow == [status : OrderStatus, num : Numbers \cup {None}, since : Nat,
             done : BOOLEAN, ver : Nat, otp : Messages \cup {None}]
NumberRow == [status : NumberStatus, owner : Orders \cup {None}]
SmsRow == [st : {"new", "unmatched", "unparsed", "ambiguous", "matched"},
           o : Orders \cup {None}]

NoOrder == [status |-> "absent", num |-> None, since |-> 0,
            done |-> FALSE, ver |-> 0, otp |-> None]
NewSms == [st |-> "new", o |-> None]

(* A transaction: the command and its subject, the instant it observed, the *)
(* order row it read, and what it decided: the verdict and the status the   *)
(* number is released to ("keep": it is left alone).  For an SMS, holder is *)
(* the order its number named at the receipt (history for a property).      *)
Tx == [step : {"idle", "order", "number", "match", "context", "commit"},
       cmd : Commands \cup {"none", "sms"},
       o : Orders \cup {None}, n : Numbers \cup {None}, m : Messages \cup {None},
       at : Nat, row : OrderRow,
       verdict : {"apply", "no_change", "reject"},
       to : {"keep", "available", "offline"},
       holder : Orders \cup {None}]

Idle == [step |-> "idle", cmd |-> "none", o |-> None, n |-> None, m |-> None,
         at |-> 0, row |-> NoOrder, verdict |-> "reject", to |-> "keep",
         holder |-> None]

TypeOK ==
  /\ now \in Nat
  /\ orders \in [Orders -> OrderRow]
  /\ numbers \in [Numbers -> NumberRow]
  /\ fresh \in [Numbers -> BOOLEAN]
  /\ sms \in [Messages -> SmsRow]
  /\ earned \in [Orders -> Nat]
  /\ jobKey \in [JobCommands -> [Orders -> {"none", "done", "rejected"}]]
  /\ tx \in [Procs -> Tx]

Init ==
  /\ now = 0
  /\ orders = [o \in Orders |-> NoOrder]
  /\ numbers \in [Numbers -> [status : IdleStatus, owner : {None}]]
  /\ fresh \in [Numbers -> BOOLEAN]
  /\ sms = [m \in Messages |-> NewSms]
  /\ earned = [o \in Orders |-> 0]
  /\ jobKey = [j \in JobCommands |-> [o \in Orders |-> "none"]]
  /\ tx = [p \in Procs |-> Idle]

-------------------------------------------------------------------------------
(* Vocabulary of the domain rules.                                          *)

ExpiresAt(row) == row.since + OrderTimeout

(* A row that holds its number: waiting for the first OTP, or successful    *)
(* and not yet completed.                                                   *)
Holds(row) ==
  \/ row.status = "waiting_sms"
  \/ row.status = "success" /\ ~row.done

Live(o) == Holds(orders[o])

(* Mutant: the window's start is not tested. *)
EligibleAnyPast(o, n, at) ==
  orders[o].num = n /\ Live(o) /\ at <= ExpiresAt(orders[o])

(* matchSmsToActiveOrder's window test, inclusive at both ends. *)
Eligible(o, n, at) ==
  /\ orders[o].num = n
  /\ Live(o)
  /\ orders[o].since <= at /\ at <= ExpiresAt(orders[o])

IsListening(row, at) ==
  row.status = "success" /\ ~row.done /\ at <= ExpiresAt(row)

Target == [c \in TerminalCommands |->
             CASE c \in {"cancel", "compensate"} -> "cancelled"
               [] c \in TimeoutCommands -> "timeout"
               [] c = "fail" -> "failed"]

(* decideOrderNumberTransition for a terminal target, on the rows read. *)
TerminalAllowed(t, number) ==
  /\ t.row.status = "waiting_sms"
  /\ t.cmd \in {"cancel", "compensate"} \cup TimeoutCommands => t.row.otp = None
  /\ t.cmd = "cancel" => t.at >= t.row.since + CancelMinimum
  /\ t.cmd \in TimeoutCommands => t.at >= ExpiresAt(t.row)
  /\ number.status = "busy"

(* decideListeningHoldRelease on the order row read. *)
ReleaseAllowed(t) ==
  /\ t.row.status = "success"
  /\ t.cmd = "sweep" => t.at > ExpiresAt(t.row)

AlreadyDone(t) ==
  IF t.cmd \in TerminalCommands THEN t.row.status = Target[t.cmd] ELSE t.row.done

Allowed(t, number) ==
  IF t.cmd \in TerminalCommands THEN TerminalAllowed(t, number) ELSE ReleaseAllowed(t)

Verdict(t, number) ==
  CASE AlreadyDone(t) -> "no_change"
    [] ~AlreadyDone(t) /\ Allowed(t, number) -> "apply"
    [] OTHER -> "reject"

(* decideNumberRelease: a terminal transition always releases the number, a *)
(* completion only one still seen held by the order; it goes to available   *)
(* on a live device and to offline otherwise.                               *)
ReleaseTo(t, number, live) ==
  CASE /\ t.cmd \in ReleaseCommands
       /\ number # [status |-> "busy", owner |-> t.o] -> "keep"
    [] OTHER -> IF live THEN "available" ELSE "offline"

-------------------------------------------------------------------------------
(* Reservation: one transaction holding the number row FOR UPDATE from its  *)
(* selection to the commit, so the whole of it is one step.                 *)
(* MaxTime bounds it so that every window can play out before the clock     *)
(* stops.                                                                   *)
Reserve(o, n) ==
  /\ orders[o].status = "absent"
  /\ numbers[n] = [status |-> "available", owner |-> None]
  /\ fresh[n]
  /\ now + OrderTimeout < MaxTime
  /\ orders' = [orders EXCEPT ![o] =
                  [status |-> "waiting_sms", num |-> n, since |-> now,
                   done |-> FALSE, ver |-> 2, otp |-> None]]
  /\ numbers' = [numbers EXCEPT ![n] = [status |-> "busy", owner |-> o]]
  /\ UNCHANGED <<now, fresh, sms, earned, jobKey, tx>>

-------------------------------------------------------------------------------
(* Commands on an existing order.                                           *)

(* A buyer or Main command reads the order row as its first statement. *)
SubmitCommand(p, o, c) ==
  /\ tx[p].step = "idle"
  /\ orders[o].status # "absent"
  /\ tx' = [tx EXCEPT ![p] = [Idle EXCEPT !.step = "number", !.cmd = c,
                                          !.o = o, !.row = orders[o]]]
  /\ UNCHANGED <<now, orders, numbers, fresh, sms, earned, jobKey>>

(* Mutant: orders are listed before they expire. *)
TimeoutDueEarly(o) == orders[o].status = "waiting_sms" /\ orders[o].otp = None

(* The order-timeout job's listing: unanswered orders at or past expiry. *)
TimeoutDue(o) == orders[o].status = "waiting_sms" /\ orders[o].otp = None
                 /\ ExpiresAt(orders[o]) <= now

(* Mutant: the listing includes the boundary the command still refuses. *)
SweepDueAtExpiry(o) == orders[o].status = "success" /\ ~orders[o].done
                       /\ ExpiresAt(orders[o]) <= now

(* The completion sweep's listing: listening orders strictly past expiry. *)
SweepDue(o) == orders[o].status = "success" /\ ~orders[o].done
               /\ ExpiresAt(orders[o]) < now

Due(c, o) == IF c = "timeout" THEN TimeoutDue(o) ELSE SweepDue(o)

(* A job lists a due order and calls the command with the instant of the    *)
(* listing.  The key is constant per order: with a record already there the *)
(* engine replays the stored answer and nothing runs.                       *)
JobPicks(p, o, c) ==
  /\ tx[p].step = "idle"
  /\ Due(c, o)
  /\ jobKey[c][o] = "none"
  /\ tx' = [tx EXCEPT ![p] = [Idle EXCEPT !.step = "order", !.cmd = c,
                                          !.o = o, !.at = now]]
  /\ UNCHANGED <<now, orders, numbers, fresh, sms, earned, jobKey>>

ReadOrder(p) ==
  /\ tx[p].step = "order"
  /\ tx' = [tx EXCEPT ![p] = [@ EXCEPT !.step = "number", !.row = orders[tx[p].o]]]
  /\ UNCHANGED <<now, orders, numbers, fresh, sms, earned, jobKey>>

(* The instant a command is decided at: a job's is that of its listing, the *)
(* body of Main's timeout names one of its own, past or future, and every   *)
(* other command takes the server's.                                        *)
Instants(t) ==
  CASE t.cmd \in JobCommands -> {t.at}
    [] t.cmd = "main_timeout" -> 0 .. MaxTime
    [] OTHER -> {now}

(* Whether the device is live is judged at that instant: at another than    *)
(* now, a device heard from since has a negative age (not live), and one    *)
(* that is silent by now may still have been live.                          *)
LiveThen(t, n) == IF t.cmd \in TimeoutCommands \cup JobCommands THEN BOOLEAN ELSE {fresh[n]}

Decide(t, number, live) ==
  LET v == Verdict(t, number) IN
  [Idle EXCEPT !.step = "commit", !.cmd = t.cmd, !.o = t.o, !.verdict = v,
               !.row = IF v = "apply" THEN t.row ELSE NoOrder,
               !.to = IF v = "apply" THEN ReleaseTo(t, number, live) ELSE "keep"]

(* The number and device rows are read by a later statement than the order  *)
(* row, and the command is decided.                                         *)
ReadNumber(p) ==
  LET n == tx[p].row.num IN
  /\ tx[p].step = "number"
  /\ \E at \in Instants(tx[p]), live \in LiveThen(tx[p], n) :
       tx' = [tx EXCEPT ![p] = Decide([@ EXCEPT !.at = at], numbers[n], live)]
  /\ UNCHANGED <<now, orders, numbers, fresh, sms, earned, jobKey>>

(* Mutant: the order UPDATE trusts what was read. *)
OrderNotCompared(t) == orders[t.o].num = t.row.num

(* The compare-and-set of the order UPDATE: version and status as read. *)
OrderMatches(t) ==
  /\ orders[t.o].ver = t.row.ver
  /\ orders[t.o].status = t.row.status
  /\ t.cmd \in ReleaseCommands => ~orders[t.o].done

(* The compare-and-set of the number UPDATE: still busy, as read, and ours. *)
NumberMatches(t) ==
  t.to # "keep" => numbers[t.row.num] = [status |-> "busy", owner |-> t.o]

(* The idempotency record commits with the effect; a record committed first *)
(* by another worker rolls this one back.                                   *)
KeyFree(t) == t.cmd \in JobCommands => jobKey[t.cmd][t.o] = "none"

RecordKey(t, outcome) ==
  jobKey' = IF t.cmd \in JobCommands
            THEN [jobKey EXCEPT ![t.cmd][t.o] = outcome] ELSE jobKey

(* Mutant: a completion leaves the version as it was. *)
OrderAfterSameVersion(c, row) ==
  IF c \in TerminalCommands
  THEN [row EXCEPT !.status = Target[c], !.ver = row.ver + 1]
  ELSE [row EXCEPT !.done = TRUE]

OrderAfter(c, row) ==
  IF c \in TerminalCommands
  THEN [row EXCEPT !.status = Target[c], !.ver = row.ver + 1]
  ELSE [row EXCEPT !.done = TRUE, !.ver = row.ver + 1]

ApplyCommand(p) ==
  LET t == tx[p] IN
  /\ t.step = "commit" /\ t.cmd \in Commands
  /\ t.verdict = "apply"
  /\ KeyFree(t) /\ OrderMatches(t) /\ NumberMatches(t)
  /\ orders' = [orders EXCEPT ![t.o] = OrderAfter(t.cmd, @)]
  /\ numbers' = IF t.to = "keep" THEN numbers
                ELSE [numbers EXCEPT ![t.row.num] = [status |-> t.to, owner |-> None]]
  /\ RecordKey(t, "done")
  /\ tx' = [tx EXCEPT ![p] = Idle]
  /\ UNCHANGED <<now, fresh, sms, earned>>

(* A decision that changes nothing is still recorded under its key: a       *)
(* no_change as the success it repeats, a rejection as the final answer.    *)
AnswerCommand(p) ==
  LET t == tx[p] IN
  /\ t.step = "commit" /\ t.cmd \in Commands
  /\ t.verdict # "apply"
  /\ KeyFree(t)
  /\ RecordKey(t, IF t.verdict = "reject" THEN "rejected" ELSE "done")
  /\ tx' = [tx EXCEPT ![p] = Idle]
  /\ UNCHANGED <<now, orders, numbers, fresh, sms, earned>>

(* A lost compare-and-set or a taken key rolls everything back. *)
CommandContention(p) ==
  LET t == tx[p] IN
  /\ t.step = "commit" /\ t.cmd \in Commands
  /\ \/ ~KeyFree(t)
     \/ t.verdict = "apply" /\ ~(OrderMatches(t) /\ NumberMatches(t))
  /\ tx' = [tx EXCEPT ![p] = Idle]
  /\ UNCHANGED <<now, orders, numbers, fresh, sms, earned, jobKey>>

-------------------------------------------------------------------------------
(* SMS ingestion: one transaction that stores the SMS and matches it.       *)

(* The agent posts an SMS; its receipt time is the transaction's start.  A  *)
(* second post of a message already being stored waits on the unique key,   *)
(* and one already stored is answered "duplicate".                          *)
SmsReceived(p, m, n) ==
  /\ tx[p].step = "idle"
  /\ sms[m].st = "new"
  /\ \A q \in Procs : tx[q].m # m
  /\ tx' = [tx EXCEPT ![p] = [Idle EXCEPT !.step = "match", !.cmd = "sms", !.m = m,
                                          !.n = n, !.at = now,
                                          !.holder = numbers[n].owner]]
  /\ UNCHANGED <<now, orders, numbers, fresh, sms, earned, jobKey>>

Candidates(t) == {o \in Orders : Eligible(o, t.n, t.at)}

StoreSms(p, row) ==
  /\ sms' = [sms EXCEPT ![tx[p].m] = row]
  /\ tx' = [tx EXCEPT ![p] = Idle]

Audited(st) == [NewSms EXCEPT !.st = st]

(* No candidate, several, or a body the service's parser rejects: the SMS   *)
(* is stored for audit and delivers nothing.                                *)
AuditStatus(C) ==
  CASE C = {} -> "unmatched"
    [] \E o \in C : C = {o} -> "unparsed"
    [] OTHER -> "ambiguous"

SmsAudited(p) ==
  /\ tx[p].step = "match"
  /\ StoreSms(p, Audited(AuditStatus(Candidates(tx[p]))))
  /\ UNCHANGED <<now, orders, numbers, fresh, earned, jobKey>>

(* Exactly one candidate: it is answered for the first time or repeatedly,  *)
(* as its status says now; the mode is remembered as the status read.       *)
SmsMatched(p) ==
  /\ tx[p].step = "match"
  /\ \E o \in Candidates(tx[p]) :
       /\ Candidates(tx[p]) = {o}
       /\ tx' = [tx EXCEPT ![p] = [@ EXCEPT !.step = "context", !.o = o, !.row = orders[o]]]
  /\ UNCHANGED <<now, orders, numbers, fresh, sms, earned, jobKey>>

(* The matched order is re-read (with its number and earning); one that has *)
(* moved on since the match turns the SMS into an audit row.                *)
StillDeliverable(t) ==
  LET row == orders[t.o] IN
  IF t.row.status = "success"
  THEN IsListening(row, t.at)
  ELSE /\ row.status = "waiting_sms" /\ row.otp = None
       /\ numbers[row.num].status = "busy"
       /\ earned[t.o] = 0

SmsContext(p) ==
  /\ tx[p].step = "context"
  /\ IF StillDeliverable(tx[p])
     THEN /\ tx' = [tx EXCEPT ![p] = [@ EXCEPT !.step = "commit", !.row = orders[tx[p].o]]]
          /\ UNCHANGED sms
     ELSE StoreSms(p, Audited("unmatched"))
  /\ UNCHANGED <<now, orders, numbers, fresh, earned, jobKey>>

Delivered(t) == [st |-> "matched", o |-> t.o]

(* The rows the first and a repeated OTP leave. *)
Answered(row, m) == [row EXCEPT !.status = "success", !.otp = m, !.ver = row.ver + 1]
Refreshed(row, m) == [row EXCEPT !.otp = m, !.ver = row.ver + 1]

(* Mutant: the order is answered as the context showed it, not as it is. *)
DeliverFirstBlind(p) ==
  LET t == tx[p] IN
  /\ t.step = "commit" /\ t.cmd = "sms" /\ t.row.status = "waiting_sms"
  /\ orders' = [orders EXCEPT ![t.o] = Answered(@, t.m)]
  /\ earned' = [earned EXCEPT ![t.o] = @ + 1]
  /\ StoreSms(p, Delivered(t))
  /\ UNCHANGED <<now, numbers, fresh, jobKey>>

(* First OTP: waiting_sms to success, one earning, the number still held. *)
DeliverFirst(p) ==
  LET t == tx[p] IN
  /\ t.step = "commit" /\ t.cmd = "sms" /\ t.row.status = "waiting_sms"
  /\ orders[t.o].ver = t.row.ver
  /\ orders[t.o].status = "waiting_sms" /\ orders[t.o].otp = None
  /\ orders' = [orders EXCEPT ![t.o] = Answered(@, t.m)]
  /\ earned' = [earned EXCEPT ![t.o] = @ + 1]
  /\ StoreSms(p, Delivered(t))
  /\ UNCHANGED <<now, numbers, fresh, jobKey>>

(* Mutant: the refresh trusts what was read. *)
DeliverRepeatBlind(p) ==
  LET t == tx[p] IN
  /\ t.step = "commit" /\ t.cmd = "sms" /\ t.row.status = "success"
  /\ orders' = [orders EXCEPT ![t.o] = Refreshed(@, t.m)]
  /\ StoreSms(p, Delivered(t))
  /\ UNCHANGED <<now, numbers, fresh, earned, jobKey>>

(* Repeat OTP while listening: only the OTP changes, never the money. *)
DeliverRepeat(p) ==
  LET t == tx[p] IN
  /\ t.step = "commit" /\ t.cmd = "sms" /\ t.row.status = "success"
  /\ orders[t.o].ver = t.row.ver
  /\ orders[t.o].status = "success" /\ ~orders[t.o].done
  /\ orders' = [orders EXCEPT ![t.o] = Refreshed(@, t.m)]
  /\ StoreSms(p, Delivered(t))
  /\ UNCHANGED <<now, numbers, fresh, earned, jobKey>>

(* A lost compare-and-set rolls the SMS row back too: the agent retries. *)
SmsContention(p) ==
  LET t == tx[p] IN
  /\ t.step = "commit" /\ t.cmd = "sms"
  /\ \/ orders[t.o].ver # t.row.ver
     \/ orders[t.o].status # t.row.status
     \/ t.row.status = "success" /\ orders[t.o].done
  /\ tx' = [tx EXCEPT ![p] = Idle]
  /\ UNCHANGED <<now, orders, numbers, fresh, sms, earned, jobKey>>

-------------------------------------------------------------------------------
(* The fleet, seen from an order: each handler compare-and-sets the idle    *)
(* status it read, so it acts on an idle number or not at all, and offers   *)
(* only a number with no current order.  (One handler does not compare: the *)
(* Main admin's disabling of a number is modelled in AdminDisable.)         *)

(* Mutant: the number is set whatever its status. *)
SetAny(n, s) == numbers' = [numbers EXCEPT ![n].status = s]

SetIdle(n, s) ==
  /\ numbers[n].status \in IdleStatus
  /\ s = "available" => numbers[n].owner = None
  /\ numbers' = [numbers EXCEPT ![n].status = s]

(* A heartbeat makes the device live and reconciles its idle numbers: with  *)
(* an active offer to available, without one to offline.                    *)
Heartbeat(n) ==
  /\ fresh' = [fresh EXCEPT ![n] = TRUE]
  /\ IF numbers[n].status \in {"offline", "available"}
     THEN \E s \in {"offline", "available"} : SetIdle(n, s)
     ELSE UNCHANGED numbers
  /\ UNCHANGED <<now, orders, sms, earned, jobKey, tx>>

(* Heartbeats stop for the timeout, the device is disabled, or the number   *)
(* is moved to a silent device: no number row changes status.               *)
DeviceLost(n) ==
  /\ fresh[n]
  /\ fresh' = [fresh EXCEPT ![n] = FALSE]
  /\ UNCHANGED <<now, orders, numbers, sms, earned, jobKey, tx>>

(* The offline sweep: a lost device's available numbers go offline. *)
OfflineSweep(n) ==
  /\ ~fresh[n]
  /\ numbers[n].status = "available"
  /\ SetIdle(n, "offline")
  /\ UNCHANGED <<now, orders, fresh, sms, earned, jobKey, tx>>

(* The agent asks for an availability: offline as asked, available only on  *)
(* a live device; either one re-enables a disabled number.                  *)
AgentAvailability(n, s) ==
  /\ s = "available" => fresh[n]
  /\ SetIdle(n, s)
  /\ UNCHANGED <<now, orders, fresh, sms, earned, jobKey, tx>>

(* The portal disables an idle number, and re-enables it as offline. *)
DisableNumber(n) ==
  /\ SetIdle(n, "disabled")
  /\ UNCHANGED <<now, orders, fresh, sms, earned, jobKey, tx>>

ReEnableNumber(n) ==
  /\ numbers[n].status = "disabled"
  /\ SetIdle(n, "offline")
  /\ UNCHANGED <<now, orders, fresh, sms, earned, jobKey, tx>>

-------------------------------------------------------------------------------
Tick ==
  /\ now < MaxTime
  /\ now' = now + 1
  /\ UNCHANGED <<orders, numbers, fresh, sms, earned, jobKey, tx>>

(* The process dies or the transaction times out before its COMMIT. *)
Crash(p) ==
  /\ tx[p].step # "idle"
  /\ tx' = [tx EXCEPT ![p] = Idle]
  /\ UNCHANGED <<now, orders, numbers, fresh, sms, earned, jobKey>>

OrderStep ==
  \/ \E o \in Orders, n \in Numbers : Reserve(o, n)
  \/ \E p \in ApiProcs, o \in Orders, c \in Commands \ JobCommands : SubmitCommand(p, o, c)
  \/ \E p \in CronProcs, o \in Orders, c \in JobCommands : JobPicks(p, o, c)
  \/ \E p \in Procs : \/ ReadOrder(p) \/ ReadNumber(p)
                      \/ ApplyCommand(p) \/ AnswerCommand(p) \/ CommandContention(p)

SmsStep ==
  \/ \E p \in ApiProcs, m \in Messages, n \in Numbers : SmsReceived(p, m, n)
  \/ \E p \in ApiProcs : \/ SmsAudited(p) \/ SmsMatched(p) \/ SmsContext(p)
                         \/ DeliverFirst(p) \/ DeliverRepeat(p) \/ SmsContention(p)

FleetStep ==
  \E n \in Numbers :
    \/ Heartbeat(n) \/ DeviceLost(n) \/ OfflineSweep(n)
    \/ \E s \in IdleStatus : AgentAvailability(n, s)
    \/ DisableNumber(n) \/ ReEnableNumber(n)

Next == OrderStep \/ SmsStep \/ FleetStep \/ Tick \/ \E p \in Procs : Crash(p)

(* The scheduler dispatches both jobs every minute and the clock runs.  A   *)
(* job's transaction may crash, but not every time it is tried: its steps   *)
(* get strong fairness.  Users and devices get none.                        *)
Fairness ==
  /\ WF_vars(Tick)
  /\ \A p \in CronProcs :
       /\ WF_vars(\E o \in Orders, c \in JobCommands : JobPicks(p, o, c))
       /\ SF_vars(ReadOrder(p))
       /\ SF_vars(ReadNumber(p))
       /\ SF_vars(ApplyCommand(p) \/ AnswerCommand(p) \/ CommandContention(p))

Spec == Init /\ [][Next]_vars
FairSpec == Spec /\ Fairness

-------------------------------------------------------------------------------
(* Properties.                                                              *)

(* A number names an order as current exactly while that order holds it,    *)
(* and is busy exactly while it names one: no reservation, release, sweep,  *)
(* heartbeat or portal command, however interleaved, frees a held number,    *)
(* keeps a released one or gives one number to two live orders.             *)
HeldByItsOrder ==
  \A n \in Numbers :
    /\ \A o \in Orders : numbers[n].owner = o <=> orders[o].num = n /\ Live(o)
    /\ numbers[n].status = "busy" <=> numbers[n].owner # None

(* The partner earns once for an order that succeeded and never for one     *)
(* that was cancelled, timed out or failed, whatever raced the success.     *)
PaidOncePerSuccess ==
  \A o \in Orders : earned[o] = IF orders[o].status = "success" THEN 1 ELSE 0

(* An OTP is delivered to an order only from an SMS received inside the     *)
(* order's window, by its number, while that number was held for it: a      *)
(* resent SMS of the previous buyer is never handed to the next one.  (An   *)
(* order reserved in the very instant of the receipt is the one exception   *)
(* the inclusive window leaves.)                                            *)
DeliveredToHolder ==
  [][\A p \in Procs : LET t == tx[p] IN
       t.cmd = "sms" /\ sms'[t.m] # sms[t.m] /\ sms'[t.m].st = "matched" =>
         LET o == sms'[t.m].o IN
         /\ orders'[o].status = "success" /\ orders'[o].otp = t.m
         /\ orders[o].num = t.n /\ Live(o)
         /\ orders[o].since <= t.at /\ t.at <= ExpiresAt(orders[o])
         /\ t.holder = o \/ orders[o].since = t.at]_vars

(* A job's constant idempotency key is only ever used up on an order the    *)
(* job has nothing left to do for: an answer persisted while the order      *)
(* still waits (or still holds its number) would be replayed forever.       *)
UsedKeyIsFinal ==
  \A o \in Orders :
    /\ jobKey["timeout"][o] # "none" => orders[o].status \in TerminalStatus
    /\ jobKey["sweep"][o] # "none" => orders[o].status = "success" /\ orders[o].done

(* A terminal status is absorbing, and once the hold is released nothing    *)
(* of the order changes any more, its OTP included.                         *)
SettledForGood ==
  [][\A o \in Orders :
       /\ orders[o].status \in TerminalStatus => orders'[o].status = orders[o].status
       /\ orders[o].done => orders'[o] = orders[o]]_vars

(* "While listening, further SMS on that number match this same order and   *)
(* refresh its OTP": an SMS whose processing ends while an order of its     *)
(* number was listening at its receipt is not stored as unmatched.          *)
ListeningSmsRefreshes ==
  [][\A p \in ApiProcs :
       tx[p].cmd = "sms" /\ sms[tx[p].m].st = "new" /\ sms'[tx[p].m].st = "unmatched" =>
         ~ \E o \in Orders : /\ orders[o].num = tx[p].n
                             /\ orders[o].since <= tx[p].at
                             /\ IsListening(orders[o], tx[p].at)]_vars

(* Every hold ends: an order that is waiting or listening is eventually     *)
(* closed and its number given back, because the two jobs keep running.     *)
HoldsEnd == \A o \in Orders : Live(o) ~> ~Live(o)

-------------------------------------------------------------------------------
(* The lease each number and order is under, seen through the rows.         *)
Phase(row) ==
  CASE row.status = "absent" -> "absent"
    [] row.status = "waiting_sms" -> "waiting"
    [] row.status = "success" /\ ~row.done -> "listening"
    [] row.status = "success" /\ row.done -> "closed"
    [] OTHER -> "void"

Lease == INSTANCE NumberLease WITH
           phase <- [o \in Orders |-> Phase(orders[o])],
           lease <- [n \in Numbers |-> numbers[n].owner],
           paid <- earned

(* Every interleaving of requests, jobs and devices looks to the buyer and  *)
(* the partner like atomic grants, payments and returns of a lease.         *)
LeaseSpec == Lease!Spec

-------------------------------------------------------------------------------
(* The inductive invariant behind the safety properties: what the order     *)
(* rows can look like, and what a transaction t may rely on of what it read *)
(* while the rows of all orders are as in rows.                             *)

RowOK(row) ==
  /\ row.status = "absent" <=> row.num = None
  /\ row.done => row.status = "success"
  /\ row.otp = None <=> row.status # "success"

(* A snapshot of an order's row is as old as its version says, and what it  *)
(* shows to be final still is.                                              *)
Seen(t, rows) ==
  /\ t.o \in Orders
  /\ t.row.status # "absent" /\ RowOK(t.row)
  /\ t.row.num = rows[t.o].num /\ t.row.since = rows[t.o].since
  /\ t.row.status \in TerminalStatus => rows[t.o].status = t.row.status
  /\ t.row.done => rows[t.o].done
  /\ t.row.ver <= rows[t.o].ver
  /\ t.row.ver = rows[t.o].ver => t.row = rows[t.o]

(* What a job's listing established about its order stays true. *)
JobListed(t, rows) ==
  /\ t.o \in Orders
  /\ t.cmd = "timeout" => /\ rows[t.o].status # "absent"
                          /\ ExpiresAt(rows[t.o]) <= t.at
  /\ t.cmd = "sweep" => /\ rows[t.o].status = "success"
                        /\ ExpiresAt(rows[t.o]) < t.at

(* A job's command that changes nothing finds nothing left to change. *)
NothingLeft(c, row) ==
  /\ c = "timeout" => row.status \in TerminalStatus
  /\ c = "sweep" => row.status = "success" /\ row.done

(* A decided command: the row it read was the one its verdict is about, and *)
(* if that row is still current the number is released with it.             *)
Decided(t, rows) ==
  /\ t.o \in Orders
  /\ t.verdict = "apply" =>
       /\ Seen(t, rows)
       /\ IF t.cmd \in TerminalCommands THEN t.row.status = "waiting_sms"
          ELSE t.row.status = "success" /\ ~t.row.done
       /\ t.row.ver = rows[t.o].ver => t.to # "keep"
  /\ t.verdict # "apply" => NothingLeft(t.cmd, rows[t.o])

(* An SMS in flight: of the live orders of its number whose window was open *)
(* at the receipt, only the holder of that moment is older than the SMS.    *)
SmsInFlight(t, rows, clock) ==
  /\ t.m \in Messages /\ t.n \in Numbers /\ t.at <= clock
  /\ \A o \in Orders :
       rows[o].num = t.n /\ Holds(rows[o]) /\ rows[o].since <= t.at
         => t.holder = o \/ rows[o].since = t.at
  /\ t.step \in {"context", "commit"} =>
       /\ t.o \in Orders /\ rows[t.o].num = t.n
       /\ rows[t.o].since <= t.at /\ t.at <= ExpiresAt(rows[t.o])

TxSound(t, rows, clock) ==
  /\ t.step = "order" => t.cmd \in JobCommands
  /\ t.step = "number" => t.cmd \in Commands /\ Seen(t, rows)
  /\ t.step \in {"order", "number"} /\ t.cmd \in JobCommands => JobListed(t, rows)
  /\ t.step = "number" /\ t.cmd = "sweep" => t.row.status = "success"
  /\ t.step = "commit" /\ t.cmd \in Commands => Decided(t, rows)
  /\ t.step \in {"match", "context"} => t.cmd = "sms"
  /\ t.cmd = "sms" => /\ t.step \in {"match", "context", "commit"}
                     /\ SmsInFlight(t, rows, clock)

(* The strengthening the safety theorems rest on: every transaction in      *)
(* flight is sound about what it read, at every interleaving.               *)
IInv ==
  /\ TypeOK
  /\ \A o \in Orders : RowOK(orders[o])
  /\ HeldByItsOrder
  /\ PaidOncePerSuccess
  /\ UsedKeyIsFinal
  /\ \A p \in Procs : TxSound(tx[p], orders, now)
  /\ \A p, q \in Procs : tx[p].m # None /\ tx[p].m = tx[q].m => p = q

===============================================================================
