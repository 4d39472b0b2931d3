------------------------- MODULE OrderLifecycleProofs -------------------------
(* Proofs about OrderLifecycle, for any orders, numbers, messages, workers, *)
(* windows and clock.  The plan: IInv is inductive.  What a transaction in  *)
(* flight relies on survives any step that only lets order rows evolve      *)
(* (TxKept), so each action owes the evolution of the rows it writes, the   *)
(* soundness of its own transaction, and the rows' agreement.  The order     *)
(* detectors of the reconciler find nothing in a state where IInv holds.    *)
EXTENDS ReconcileOrders, TLAPS, FiniteSetTheorems

USE ConstantsAssumption

(* The null values are of the types they stand in for. *)
LEMMA NullTypes == Idle \in Tx /\ NoOrder \in OrderRow /\ NewSms \in SmsRow
  BY DEF Idle, Tx, NoOrder, OrderRow, OrderStatus, NewSms, SmsRow

(* The commands are closed under the sets they are grouped in. *)
LEMMA CommandSets ==
  /\ JobCommands \subseteq Commands /\ TerminalCommands \subseteq Commands
  /\ ReleaseCommands \subseteq Commands /\ "sms" \notin Commands /\ "none" \notin Commands
  BY DEF JobCommands, Commands, TerminalCommands, TimeoutCommands, ReleaseCommands

LEMMA InitTypeOK == Init => TypeOK
  BY NullTypes DEF Init, TypeOK, NumberRow, NumberStatus, JobCommands

(* Commands and OTPs turn an order row into an order row. *)
LEMMA RowsTyped ==
  ASSUME NEW row \in OrderRow
  PROVE  /\ \A c : OrderAfter(c, row) \in OrderRow
         /\ \A m \in Messages : Answered(row, m) \in OrderRow /\ Refreshed(row, m) \in OrderRow
<1> DEFINE v == row.ver + 1
<1>1. v \in Nat
  BY DEF OrderRow
<1> HIDE DEF v
<1>2. \A st \in OrderStatus : [row EXCEPT !.status = st, !.ver = v] \in OrderRow
  BY <1>1 DEF OrderRow
<1>3. \A c \in TerminalCommands : Target[c] \in OrderStatus
  BY DEF OrderStatus, TerminalStatus, Target, TerminalCommands, TimeoutCommands
<1>4. [row EXCEPT !.done = TRUE, !.ver = v] \in OrderRow
  BY <1>1 DEF OrderRow
<1>5. \A c : OrderAfter(c, row) \in OrderRow
  BY <1>2, <1>3, <1>4 DEF OrderAfter, v
<1>6. \A m \in Messages : [row EXCEPT !.otp = m, !.ver = v] \in OrderRow
  BY <1>1 DEF OrderRow
<1>7. \A m \in Messages :
        [row EXCEPT !.status = "success", !.otp = m, !.ver = v] \in OrderRow
  BY <1>1 DEF OrderRow, OrderStatus, TerminalStatus
<1> QED BY <1>5, <1>6, <1>7 DEF Answered, Refreshed, v

(* An OTP changes the OTP, the status of a first answer, and the version. *)
LEMMA OtpFields ==
  ASSUME NEW row \in OrderRow, NEW m \in Messages, NEW after,
         \/ after = Answered(row, m)
         \/ after = Refreshed(row, m) /\ row.status = "success"
  PROVE  /\ after \in OrderRow /\ after.num = row.num /\ after.since = row.since
         /\ after.otp = m /\ after.status = "success" /\ after.done = row.done
         /\ after.ver > row.ver
<1>1. after \in OrderRow
  BY RowsTyped
<1> DEFINE v == row.ver + 1
<1>2. v > row.ver
  BY DEF OrderRow
<1>3. \/ after = [row EXCEPT !.status = "success", !.otp = m, !.ver = v]
      \/ after = [row EXCEPT !.otp = m, !.ver = v] /\ row.status = "success"
  BY DEF Answered, Refreshed
<1> HIDE DEF v
<1> QED BY <1>1, <1>2, <1>3 DEF OrderRow

(* A step that replaces one worker's transaction by a well-typed one keeps  *)
(* the others', and in particular one that ends a transaction.              *)
LEMMA TxTyped ==
  ASSUME TypeOK, NEW p \in Procs, NEW t \in Tx, tx' = [tx EXCEPT ![p] = t]
  PROVE  tx' \in [Procs -> Tx]
  BY DEF TypeOK

LEMMA IdleTyped ==
  ASSUME TypeOK, NEW p \in Procs, tx' = [tx EXCEPT ![p] = Idle]
  PROVE  tx' \in [Procs -> Tx]
  BY NullTypes, TxTyped

(* The type invariant is kept by every step: rows, records of transactions  *)
(* and idempotency keys stay well formed under every handler.               *)
LEMMA TypeStep == IInv /\ [Next]_vars => TypeOK'
<1> SUFFICES ASSUME IInv, [Next]_vars PROVE TypeOK'
    OBVIOUS
<1> TypeOK
    BY DEF IInv
<1> USE NullTypes, CommandSets
<1>1. CASE OrderStep
  <2>1. ASSUME NEW o \in Orders, NEW n \in Numbers, Reserve(o, n) PROVE TypeOK'
    BY <2>1 DEF TypeOK, Reserve, OrderRow, NumberRow, OrderStatus, NumberStatus
  <2>2. ASSUME NEW p \in ApiProcs, NEW o \in Orders, NEW c \in Commands \ JobCommands,
               SubmitCommand(p, o, c)
        PROVE  TypeOK'
    BY <2>2 DEF TypeOK, SubmitCommand, Procs, Tx, Idle
  <2>3. ASSUME NEW p \in CronProcs, NEW o \in Orders, NEW c \in JobCommands,
               JobPicks(p, o, c)
        PROVE  TypeOK'
    BY <2>3 DEF TypeOK, JobPicks, Procs, Tx, Idle
  <2>4. ASSUME NEW p \in Procs, ReadOrder(p) PROVE TypeOK'
    <3>1. tx[p].o \in Orders /\ orders[tx[p].o] \in OrderRow
      BY <2>4 DEF TypeOK, IInv, TxSound, JobListed, ReadOrder
    <3> DEFINE t == [tx[p] EXCEPT !.step = "number", !.row = orders[tx[p].o]]
    <3>2. t \in Tx
      BY <3>1 DEF TypeOK, Tx
    <3>3. tx' = [tx EXCEPT ![p] = t]
      BY <2>4 DEF ReadOrder
    <3> HIDE DEF t
    <3>4. tx' \in [Procs -> Tx]
      BY <3>2, <3>3, TxTyped
    <3> QED BY <2>4, <3>4 DEF TypeOK, ReadOrder
  <2>5. ASSUME NEW p \in Procs, ReadNumber(p) PROVE TypeOK'
    <3>0. PICK at \in Instants(tx[p]), live \in LiveThen(tx[p], tx[p].row.num) :
            tx' = [tx EXCEPT ![p] = Decide([tx[p] EXCEPT !.at = at],
                                           numbers[tx[p].row.num], live)]
      BY <2>5 DEF ReadNumber, TypeOK
    <3> DEFINE n == tx[p].row.num
               s == [tx[p] EXCEPT !.at = at]
               v == Verdict(s, numbers[n])
               d == Decide(s, numbers[n], live)
    <3>a. s.cmd \in Commands \cup {"none", "sms"} /\ s.o \in Orders \cup {None}
          /\ s.row \in OrderRow
      BY DEF TypeOK, Tx
    <3>b. v \in {"apply", "no_change", "reject"}
      BY DEF Verdict
    <3>c. ReleaseTo(s, numbers[n], live) \in {"keep", "available", "offline"}
      BY DEF ReleaseTo
    <3> HIDE DEF s, v, n
    <3>d. d \in Tx
      BY <3>a, <3>b, <3>c DEF Tx, Idle, Decide, v
    <3> HIDE DEF d
    <3>1. tx' \in [Procs -> Tx]
      BY <3>0, <3>d, TxTyped DEF d, s, n
    <3> QED BY <2>5, <3>1 DEF TypeOK, ReadNumber
  <2>6. ASSUME NEW p \in Procs, ApplyCommand(p) PROVE TypeOK'
    <3>1. tx' \in [Procs -> Tx]
      BY <2>6, IdleTyped DEF ApplyCommand
    <3>2. tx[p] \in Tx
      BY DEF TypeOK
    <3>3. tx[p].o \in Orders /\ orders[tx[p].o] \in OrderRow
      BY <2>6 DEF TypeOK, IInv, TxSound, Decided, ApplyCommand
    <3>4. OrderAfter(tx[p].cmd, orders[tx[p].o]) \in OrderRow
      BY <3>3, RowsTyped
    <3>5. orders' \in [Orders -> OrderRow]
      BY <2>6, <3>4 DEF TypeOK, ApplyCommand
    <3>6. numbers' \in [Numbers -> NumberRow]
      BY <2>6, <3>2 DEF TypeOK, ApplyCommand, NumberRow, NumberStatus, IdleStatus, Tx
    <3>7. jobKey' \in [JobCommands -> [Orders -> {"none", "done", "rejected"}]]
      BY <2>6 DEF TypeOK, ApplyCommand, RecordKey
    <3> QED BY <2>6, <3>1, <3>5, <3>6, <3>7 DEF TypeOK, ApplyCommand
  <2>7. ASSUME NEW p \in Procs, AnswerCommand(p) PROVE TypeOK'
    <3>1. tx' \in [Procs -> Tx]
      BY <2>7, IdleTyped DEF AnswerCommand
    <3>2. jobKey' \in [JobCommands -> [Orders -> {"none", "done", "rejected"}]]
      BY <2>7 DEF TypeOK, AnswerCommand, RecordKey
    <3> QED BY <2>7, <3>1, <3>2 DEF TypeOK, AnswerCommand
  <2>8. ASSUME NEW p \in Procs, CommandContention(p) PROVE TypeOK'
    BY <2>8, IdleTyped DEF TypeOK, CommandContention
  <2> QED BY <1>1, <2>1, <2>2, <2>3, <2>4, <2>5, <2>6, <2>7, <2>8 DEF OrderStep
<1>2. CASE SmsStep
  <2>1. ASSUME NEW p \in ApiProcs, NEW m \in Messages, NEW n \in Numbers,
               SmsReceived(p, m, n)
        PROVE  TypeOK'
    <3> DEFINE t == [Idle EXCEPT !.step = "match", !.cmd = "sms", !.m = m, !.n = n,
                                 !.at = now, !.holder = numbers[n].owner]
    <3>a. t \in Tx
      BY DEF TypeOK, Tx, Idle, NumberRow
    <3>b. tx' = [tx EXCEPT ![p] = t] /\ p \in Procs
      BY <2>1 DEF SmsReceived, Procs
    <3> HIDE DEF t
    <3>1. tx' \in [Procs -> Tx]
      BY <3>a, <3>b, TxTyped
    <3> QED BY <2>1, <3>1 DEF TypeOK, SmsReceived
  <2>2. ASSUME NEW p \in Procs, NEW row \in SmsRow, StoreSms(p, row)
        PROVE  sms' \in [Messages -> SmsRow] /\ tx' \in [Procs -> Tx]
    BY <2>2, IdleTyped DEF TypeOK, StoreSms
  <2>3. ASSUME NEW st \in {"new", "unmatched", "unparsed", "ambiguous", "matched"}
        PROVE  Audited(st) \in SmsRow
    BY DEF Audited, SmsRow, NewSms
  <2>4. ASSUME NEW p \in ApiProcs, SmsAudited(p) PROVE TypeOK'
    <3> DEFINE C == Candidates(tx[p])
    <3>0. AuditStatus(C) \in {"unmatched", "unparsed", "ambiguous"}
      BY DEF AuditStatus
    <3>1. Audited(AuditStatus(Candidates(tx[p]))) \in SmsRow
      BY <2>3, <3>0
    <3>2. sms' \in [Messages -> SmsRow] /\ tx' \in [Procs -> Tx]
      BY <2>2, <2>4, <3>1 DEF SmsAudited, Procs
    <3> QED BY <2>4, <3>2 DEF TypeOK, SmsAudited
  <2>5. ASSUME NEW p \in ApiProcs, SmsMatched(p) PROVE TypeOK'
    <3> DEFINE T(o) == [tx[p] EXCEPT !.step = "context", !.o = o, !.row = orders[o]]
    <3>a. PICK o \in Orders : tx' = [tx EXCEPT ![p] = T(o)]
      BY <2>5 DEF SmsMatched, Candidates
    <3>b. T(o) \in Tx
      BY DEF TypeOK, Tx, Procs
    <3> HIDE DEF T
    <3>1. tx' \in [Procs -> Tx]
      BY <3>a, <3>b, TxTyped DEF Procs
    <3> QED BY <2>5, <3>1 DEF TypeOK, SmsMatched
  <2>6. ASSUME NEW p \in ApiProcs, SmsContext(p) PROVE TypeOK'
    <3>1. tx[p].o \in Orders /\ orders[tx[p].o] \in OrderRow
      BY <2>6 DEF TypeOK, IInv, TxSound, SmsInFlight, SmsContext, Procs
    <3>2. CASE StillDeliverable(tx[p])
      <4> DEFINE t == [tx[p] EXCEPT !.step = "commit", !.row = orders[tx[p].o]]
      <4>a. t \in Tx
        BY <3>1 DEF TypeOK, Tx, Procs
      <4>b. tx' = [tx EXCEPT ![p] = t]
        BY <2>6, <3>2 DEF SmsContext
      <4> HIDE DEF t
      <4>1. tx' \in [Procs -> Tx]
        BY <4>a, <4>b, TxTyped DEF Procs
      <4> QED BY <2>6, <3>2, <4>1 DEF TypeOK, SmsContext
    <3>3. CASE ~StillDeliverable(tx[p])
      <4>1. sms' \in [Messages -> SmsRow] /\ tx' \in [Procs -> Tx]
        BY <2>2, <2>3, <2>6, <3>3 DEF SmsContext, Procs
      <4> QED BY <2>6, <4>1 DEF TypeOK, SmsContext
    <3> QED BY <3>2, <3>3
  <2>7. ASSUME NEW p \in ApiProcs, tx[p].step = "commit", tx[p].cmd = "sms"
        PROVE  /\ tx[p].o \in Orders /\ orders[tx[p].o] \in OrderRow
               /\ tx[p].m \in Messages /\ Delivered(tx[p]) \in SmsRow
    BY <2>7 DEF TypeOK, IInv, TxSound, SmsInFlight, Procs, Delivered, SmsRow
  <2>8. ASSUME NEW p \in ApiProcs, DeliverFirst(p) PROVE TypeOK'
    <3>1. sms' \in [Messages -> SmsRow] /\ tx' \in [Procs -> Tx]
      BY <2>2, <2>7, <2>8 DEF DeliverFirst, Procs
    <3>2. orders' \in [Orders -> OrderRow]
      BY <2>7, <2>8, RowsTyped DEF TypeOK, DeliverFirst
    <3>3. earned' \in [Orders -> Nat]
      BY <2>7, <2>8 DEF TypeOK, DeliverFirst
    <3> QED BY <2>8, <3>1, <3>2, <3>3 DEF TypeOK, DeliverFirst
  <2>9. ASSUME NEW p \in ApiProcs, DeliverRepeat(p) PROVE TypeOK'
    <3>1. sms' \in [Messages -> SmsRow] /\ tx' \in [Procs -> Tx]
      BY <2>2, <2>7, <2>9 DEF DeliverRepeat, Procs
    <3>2. orders' \in [Orders -> OrderRow]
      BY <2>7, <2>9, RowsTyped DEF TypeOK, DeliverRepeat
    <3> QED BY <2>9, <3>1, <3>2 DEF TypeOK, DeliverRepeat
  <2>10. ASSUME NEW p \in ApiProcs, SmsContention(p) PROVE TypeOK'
    BY <2>10, IdleTyped DEF TypeOK, SmsContention, Procs
  <2> QED BY <1>2, <2>1, <2>4, <2>5, <2>6, <2>8, <2>9, <2>10 DEF SmsStep
<1>3. CASE FleetStep
  <2>1. ASSUME NEW n \in Numbers, NEW s \in IdleStatus, SetIdle(n, s)
        PROVE  numbers' \in [Numbers -> NumberRow]
    BY <2>1 DEF TypeOK, SetIdle, NumberRow, NumberStatus
  <2>2. ASSUME NEW n \in Numbers, Heartbeat(n) PROVE TypeOK'
    BY <2>1, <2>2 DEF Heartbeat, TypeOK, IdleStatus
  <2>3. ASSUME NEW n \in Numbers, DeviceLost(n) PROVE TypeOK'
    BY <2>3 DEF DeviceLost, TypeOK
  <2>4. ASSUME NEW n \in Numbers, OfflineSweep(n) PROVE TypeOK'
    BY <2>1, <2>4 DEF OfflineSweep, TypeOK, IdleStatus
  <2>5. ASSUME NEW n \in Numbers, NEW s \in IdleStatus, AgentAvailability(n, s)
        PROVE  TypeOK'
    BY <2>1, <2>5 DEF AgentAvailability, TypeOK
  <2>6. ASSUME NEW n \in Numbers, DisableNumber(n) PROVE TypeOK'
    BY <2>1, <2>6 DEF DisableNumber, TypeOK, IdleStatus
  <2>7. ASSUME NEW n \in Numbers, ReEnableNumber(n) PROVE TypeOK'
    BY <2>1, <2>7 DEF ReEnableNumber, TypeOK, IdleStatus
  <2> QED BY <1>3, <2>2, <2>3, <2>4, <2>5, <2>6, <2>7 DEF FleetStep
<1>4. CASE Tick
  BY <1>4 DEF TypeOK, Tick
<1>5. CASE \E p \in Procs : Crash(p)
  BY <1>5, IdleTyped DEF TypeOK, Crash
<1>6. CASE UNCHANGED vars
  BY <1>6 DEF TypeOK, vars
<1> QED BY <1>1, <1>2, <1>3, <1>4, <1>5, <1>6 DEF Next

-------------------------------------------------------------------------------
(* How one order row may change in a step taken at an instant: it is        *)
(* reserved, or it moves on without reopening what was final.               *)
Evolves(a, b, clock) ==
  \/ b = a
  \/ a.status = "absent" /\ b.since = clock
  \/ /\ a.status # "absent" /\ b.status # "absent"
     /\ b.num = a.num /\ b.since = a.since /\ a.ver < b.ver
     /\ ~a.done
     /\ a.status \in TerminalStatus => b.status = a.status
     /\ Holds(b) => Holds(a)

(* A row in the table, before and after a step. *)
RowsEvolve(a, b, clock) ==
  /\ a \in [Orders -> OrderRow] /\ b \in [Orders -> OrderRow]
  /\ \A o \in Orders : RowOK(a[o]) /\ Evolves(a[o], b[o], clock)

LEMMA SeenKept ==
  ASSUME NEW a, NEW b, NEW c \in Nat, RowsEvolve(a, b, c),
         NEW t \in Tx, Seen(t, a)
  PROVE  Seen(t, b)
<1>1. t.row.ver \in Nat /\ a[t.o].ver \in Nat /\ b[t.o].ver \in Nat /\ t.o \in Orders
  BY DEF Tx, OrderRow, RowsEvolve, Seen
<1>2. a[t.o].status # "absent"
  BY <1>1 DEF Seen, RowsEvolve, RowOK
<1> QED BY <1>1, <1>2 DEF Seen, RowsEvolve, Evolves, RowOK, TerminalStatus

LEMMA ListedKept ==
  ASSUME NEW a, NEW b, NEW c \in Nat, RowsEvolve(a, b, c),
         NEW t \in Tx, t.cmd \in JobCommands, JobListed(t, a)
  PROVE  JobListed(t, b)
  BY DEF JobListed, RowsEvolve, Evolves, ExpiresAt, TerminalStatus, JobCommands

LEMMA DecidedKept ==
  ASSUME NEW a, NEW b, NEW c \in Nat, RowsEvolve(a, b, c),
         NEW t \in Tx, Decided(t, a)
  PROVE  Decided(t, b)
<1>1. CASE t.verdict = "apply"
  <2>1. Seen(t, a) /\ Seen(t, b)
    BY <1>1, SeenKept DEF Decided
  <2>2. t.row.ver \in Nat /\ a[t.o].ver \in Nat /\ b[t.o].ver \in Nat /\ t.o \in Orders
    BY <2>1 DEF Tx, OrderRow, RowsEvolve, Seen
  <2>3. a[t.o].status # "absent"
    BY <2>1 DEF Seen, RowsEvolve, RowOK
  <2>4. t.row.ver = b[t.o].ver => t.row.ver = a[t.o].ver
    BY <2>1, <2>2, <2>3 DEF Seen, RowsEvolve, Evolves
  <2> QED BY <1>1, <2>1, <2>4 DEF Decided
<1>2. CASE t.verdict # "apply"
  <2>1. t.o \in Orders /\ NothingLeft(t.cmd, a[t.o])
    BY <1>2 DEF Decided
  <2>2. NothingLeft(t.cmd, b[t.o])
    BY <2>1 DEF NothingLeft, RowsEvolve, Evolves, TerminalStatus
  <2> QED BY <1>2, <2>1, <2>2 DEF Decided
<1> QED BY <1>1, <1>2

LEMMA InFlightKept ==
  ASSUME NEW a, NEW b, NEW c \in Nat, NEW d \in Nat, c <= d, RowsEvolve(a, b, c),
         NEW t \in Tx, SmsInFlight(t, a, c)
  PROVE  SmsInFlight(t, b, d)
<1>1. t.at \in Nat /\ t.at <= d
  BY DEF SmsInFlight, Tx
<1>2. ASSUME NEW o \in Orders, b[o].num = t.n, Holds(b[o]), b[o].since <= t.at
      PROVE  t.holder = o \/ b[o].since = t.at
  <2>1. CASE a[o].status = "absent" /\ b[o].since = c
    BY <1>1, <1>2, <2>1 DEF SmsInFlight
  <2>2. CASE ~(a[o].status = "absent" /\ b[o].since = c)
    BY <1>2, <2>2 DEF SmsInFlight, RowsEvolve, Evolves
  <2> QED BY <2>1, <2>2
<1>3. ASSUME t.step \in {"context", "commit"}
      PROVE  /\ t.o \in Orders /\ b[t.o].num = t.n
             /\ b[t.o].since <= t.at /\ t.at <= ExpiresAt(b[t.o])
  <2>1. t.o \in Orders /\ a[t.o].num = t.n /\ t.n # None
    BY <1>3 DEF SmsInFlight
  <2>2. a[t.o].status # "absent"
    BY <2>1 DEF RowsEvolve, RowOK
  <2> QED BY <1>3, <2>1, <2>2 DEF SmsInFlight, RowsEvolve, Evolves, ExpiresAt
<1> QED BY <1>1, <1>2, <1>3 DEF SmsInFlight

(* What a transaction in flight relies on survives every step of the others *)
(* that lets the order rows evolve and the clock advance.                   *)
LEMMA TxKept ==
  ASSUME NEW a, NEW b, NEW c \in Nat, NEW d \in Nat, c <= d, RowsEvolve(a, b, c),
         NEW t \in Tx, TxSound(t, a, c)
  PROVE  TxSound(t, b, d)
  BY SeenKept, ListedKept, DecidedKept, InFlightKept DEF TxSound

-------------------------------------------------------------------------------
(* An idle worker relies on nothing. *)
LEMMA IdleSound ==
  ASSUME NEW rows, NEW clock
  PROVE  TxSound(Idle, rows, clock)
  BY DEF TxSound, Idle, Commands, JobCommands, TerminalCommands, ReleaseCommands

(* A step of worker p that writes no order, number, earning or key: p owes  *)
(* only that it is sound about what it has read.                            *)
LEMMA ReadStep ==
  ASSUME IInv, TypeOK', NEW p \in Procs, NEW t, tx' = [tx EXCEPT ![p] = t],
         UNCHANGED <<now, orders, numbers, earned, jobKey>>,
         TxSound(t, orders, now),
         t.m # None => (t.m = tx[p].m \/ \A q \in Procs : tx[q].m # t.m)
  PROVE  IInv'
<1>1. \A q \in Procs : tx'[q] = IF q = p THEN t ELSE tx[q]
  BY DEF IInv, TypeOK
<1>2. \A q \in Procs : TxSound(tx'[q], orders', now')
  BY <1>1 DEF IInv
<1>3. \A q, r \in Procs : tx'[q].m # None /\ tx'[q].m = tx'[r].m => q = r
  BY <1>1 DEF IInv
<1>4. HeldByItsOrder' /\ PaidOncePerSuccess' /\ UsedKeyIsFinal'
      /\ \A o \in Orders : RowOK(orders'[o])
  BY DEF IInv, HeldByItsOrder, PaidOncePerSuccess, UsedKeyIsFinal, Live
<1> QED BY <1>2, <1>3, <1>4 DEF IInv

(* A step that ends worker p's transaction and lets the order rows evolve:  *)
(* what is owed are the agreements between rows, never the transactions.    *)
LEMMA CommitStep ==
  ASSUME IInv, TypeOK', NEW p \in Procs, tx' = [tx EXCEPT ![p] = Idle],
         UNCHANGED now, RowsEvolve(orders, orders', now),
         \A o \in Orders : RowOK(orders'[o]),
         HeldByItsOrder', PaidOncePerSuccess', UsedKeyIsFinal'
  PROVE  IInv'
<1>1. \A q \in Procs : tx'[q] = IF q = p THEN Idle ELSE tx[q]
  BY DEF IInv, TypeOK
<1>2. ASSUME NEW q \in Procs PROVE TxSound(tx'[q], orders', now')
  <2>1. CASE q = p
    BY <1>1, <2>1, IdleSound
  <2>2. CASE q # p
    <3>1. tx[q] \in Tx /\ TxSound(tx[q], orders, now) /\ now \in Nat /\ now <= now
      BY DEF IInv, TypeOK
    <3>2. TxSound(tx[q], orders', now)
      BY <3>1, TxKept
    <3> QED BY <1>1, <2>2, <3>2
  <2> QED BY <2>1, <2>2
<1>3. \A q, r \in Procs : tx'[q].m # None /\ tx'[q].m = tx'[r].m => q = r
  BY <1>1 DEF IInv, Idle
<1> QED BY <1>2, <1>3 DEF IInv

LEMMA InitIInv == Init => IInv
<1> SUFFICES ASSUME Init PROVE IInv
    OBVIOUS
<1>1. TypeOK
  BY InitTypeOK
<1>2. \A o \in Orders : RowOK(orders[o])
  BY DEF Init, RowOK, NoOrder
<1>3. HeldByItsOrder /\ PaidOncePerSuccess /\ UsedKeyIsFinal
  BY DEF Init, HeldByItsOrder, PaidOncePerSuccess, UsedKeyIsFinal, Live, Holds, NoOrder,
         IdleStatus, JobCommands
<1>4. \A p \in Procs : TxSound(tx[p], orders, now)
  BY IdleSound DEF Init
<1>5. \A p, q \in Procs : tx[p].m # None /\ tx[p].m = tx[q].m => p = q
  BY DEF Init, Idle
<1> QED BY <1>1, <1>2, <1>3, <1>4, <1>5 DEF IInv

-------------------------------------------------------------------------------
(* Facts about rows used by every action below. *)
LEMMA RowFacts ==
  ASSUME IInv
  PROVE  /\ now \in Nat
         /\ \A o \in Orders : orders[o] \in OrderRow /\ RowOK(orders[o])
         /\ \A n \in Numbers : numbers[n] \in NumberRow
         /\ \A p \in Procs : tx[p] \in Tx /\ TxSound(tx[p], orders, now)
  BY DEF IInv, TypeOK

(* A live order's number is busy with it. *)
LEMMA LiveHolds ==
  ASSUME IInv, NEW o \in Orders, Live(o)
  PROVE  /\ orders[o].num \in Numbers
         /\ numbers[orders[o].num].owner = o
         /\ numbers[orders[o].num].status = "busy"
         /\ numbers[orders[o].num] = [status |-> "busy", owner |-> o]
<1>1. orders[o].num \in Numbers
  BY RowFacts DEF Live, Holds, RowOK, OrderRow
<1>2. numbers[orders[o].num].owner = o /\ numbers[orders[o].num].status = "busy"
  BY <1>1 DEF IInv, HeldByItsOrder
<1>3. numbers[orders[o].num] = [status |-> "busy", owner |-> o]
  BY <1>1, <1>2, RowFacts DEF NumberRow
<1> QED BY <1>1, <1>2, <1>3

(* When one order's row evolves, the whole table evolves. *)
LEMMA OneRow ==
  ASSUME IInv, NEW o \in Orders, NEW row \in OrderRow,
         orders' = [orders EXCEPT ![o] = row],
         RowOK(row), Evolves(orders[o], row, now)
  PROVE  /\ RowsEvolve(orders, orders', now)
         /\ \A q \in Orders : RowOK(orders'[q])
         /\ \A q \in Orders : orders'[q] = IF q = o THEN row ELSE orders[q]
<1>1. orders \in [Orders -> OrderRow]
  BY DEF IInv, TypeOK
<1>2. \A q \in Orders : orders'[q] = IF q = o THEN row ELSE orders[q]
  BY <1>1
<1>3. orders' \in [Orders -> OrderRow]
  BY <1>1
<1>4. \A q \in Orders : RowOK(orders[q])
  BY RowFacts
<1> QED BY <1>1, <1>2, <1>3, <1>4 DEF RowsEvolve, Evolves

(* Keys that were used up stay used up when rows evolve. *)
LEMMA KeysKept ==
  ASSUME IInv, RowsEvolve(orders, orders', now), UNCHANGED jobKey
  PROVE  UsedKeyIsFinal'
<1> SUFFICES ASSUME NEW o \in Orders
             PROVE  /\ jobKey["timeout"][o] # "none" => orders'[o].status \in TerminalStatus
                    /\ jobKey["sweep"][o] # "none"
                         => orders'[o].status = "success" /\ orders'[o].done
    BY DEF UsedKeyIsFinal
<1> QED BY DEF IInv, UsedKeyIsFinal, RowsEvolve, Evolves, TerminalStatus

LEMMA ReserveStep ==
  ASSUME IInv, TypeOK', NEW o \in Orders, NEW n \in Numbers, Reserve(o, n)
  PROVE  IInv' /\ RowsEvolve(orders, orders', now)
<1> DEFINE row == [status |-> "waiting_sms", num |-> n, since |-> now,
                   done |-> FALSE, ver |-> 2, otp |-> None]
<1>1. row \in OrderRow
  BY RowFacts DEF OrderRow, OrderStatus
<1>2. RowOK(row) /\ Evolves(orders[o], row, now)
  BY DEF RowOK, Evolves, Reserve
<1>3. orders' = [orders EXCEPT ![o] = row]
  BY DEF Reserve
<1>4. RowsEvolve(orders, orders', now) /\ \A q \in Orders : RowOK(orders'[q])
  BY <1>1, <1>2, <1>3, OneRow
<1>5. \A q \in Orders : orders'[q] = IF q = o THEN row ELSE orders[q]
  BY <1>1, <1>2, <1>3, OneRow
<1>6. \A r \in Numbers : numbers'[r] = IF r = n THEN [status |-> "busy", owner |-> o]
                                               ELSE numbers[r]
  BY DEF Reserve, IInv, TypeOK
<1>7. HeldByItsOrder'
  <2>1. ASSUME NEW r \in Numbers, NEW q \in Orders
        PROVE  numbers'[r].owner = q <=> orders'[q].num = r /\ Holds(orders'[q])
    <3>1. numbers[r].owner = q <=> orders[q].num = r /\ Holds(orders[q])
      BY DEF IInv, HeldByItsOrder, Live
    <3>2. numbers[n].owner = None /\ orders[o].num = None /\ o # None
      BY RowFacts DEF Reserve, RowOK
    <3> QED BY <1>5, <1>6, <3>1, <3>2 DEF Holds
  <2>2. ASSUME NEW r \in Numbers
        PROVE  numbers'[r].status = "busy" <=> numbers'[r].owner # None
    BY <1>6 DEF IInv, HeldByItsOrder
  <2> QED BY <2>1, <2>2 DEF HeldByItsOrder, Live
<1>8. PaidOncePerSuccess'
  BY <1>5 DEF IInv, PaidOncePerSuccess, Reserve
<1>9. UsedKeyIsFinal'
  BY <1>4, KeysKept DEF Reserve
<1>10. ASSUME NEW q \in Procs PROVE TxSound(tx'[q], orders', now')
  BY <1>4, RowFacts, TxKept DEF Reserve
<1>11. \A p, q \in Procs : tx'[p].m # None /\ tx'[p].m = tx'[q].m => p = q
  BY DEF Reserve, IInv
<1> QED BY <1>4, <1>7, <1>8, <1>9, <1>10, <1>11 DEF IInv

LEMMA SubmitStep ==
  ASSUME IInv, TypeOK', NEW p \in Procs, NEW o \in Orders, NEW c \in Commands \ JobCommands,
         SubmitCommand(p, o, c)
  PROVE  IInv'
<1> DEFINE t == [Idle EXCEPT !.step = "number", !.cmd = c, !.o = o, !.row = orders[o]]
<1>1. orders[o] \in OrderRow /\ RowOK(orders[o])
  BY RowFacts
<1>2. Seen(t, orders)
  BY <1>1 DEF Seen, SubmitCommand, Idle, OrderRow
<1>3. TxSound(t, orders, now)
  BY <1>2, CommandSets DEF TxSound, Idle, JobCommands
<1>4. t.m = None
  BY DEF Idle
<1> HIDE DEF t
<1> QED BY <1>3, <1>4, ReadStep DEF SubmitCommand, t

LEMMA PickStep ==
  ASSUME IInv, TypeOK', NEW p \in Procs, NEW o \in Orders, NEW c \in JobCommands,
         JobPicks(p, o, c)
  PROVE  IInv'
<1> DEFINE t == [Idle EXCEPT !.step = "order", !.cmd = c, !.o = o, !.at = now]
<1>1. JobListed(t, orders)
  BY DEF JobListed, JobPicks, Due, TimeoutDue, SweepDue, Idle
<1>2. TxSound(t, orders, now)
  BY <1>1, CommandSets DEF TxSound, Idle
<1>3. t.m = None
  BY DEF Idle
<1> HIDE DEF t
<1> QED BY <1>2, <1>3, ReadStep DEF JobPicks, t

LEMMA OrderReadStep ==
  ASSUME IInv, TypeOK', NEW p \in Procs, ReadOrder(p)
  PROVE  IInv'
<1> DEFINE o == tx[p].o
           t == [tx[p] EXCEPT !.step = "number", !.row = orders[o]]
<1>1. tx[p] \in Tx /\ TxSound(tx[p], orders, now) /\ tx[p].step = "order"
  BY RowFacts DEF ReadOrder
<1>2. tx[p].cmd \in JobCommands /\ JobListed(tx[p], orders) /\ o \in Orders
  BY <1>1 DEF TxSound, JobListed
<1>3. orders[o] \in OrderRow /\ RowOK(orders[o])
  BY <1>2, RowFacts
<1>4. /\ t.step = "number" /\ t.row = orders[o] /\ t.cmd = tx[p].cmd
      /\ t.o = o /\ t.at = tx[p].at /\ t.m = tx[p].m
  BY <1>1 DEF Tx
<1>5. tx' = [tx EXCEPT ![p] = t]
  BY DEF ReadOrder
<1> HIDE DEF t
<1>6. orders[o].status # "absent"
  BY <1>2, <1>4 DEF JobListed, JobCommands
<1>7. Seen(t, orders)
  BY <1>2, <1>3, <1>4, <1>6 DEF Seen, OrderRow
<1>8. JobListed(t, orders)
  BY <1>2, <1>4 DEF JobListed
<1>9. TxSound(t, orders, now)
  BY <1>2, <1>4, <1>7, <1>8, CommandSets DEF TxSound, JobListed
<1> QED BY <1>4, <1>5, <1>9, ReadStep DEF ReadOrder

(* A verdict other than "apply" on a job's listed order, decided on the     *)
(* number as it is now, means the order is settled for that job.            *)
LEMMA RefusedIsFinal ==
  ASSUME IInv, NEW t \in Tx, t.cmd \in JobCommands, Seen(t, orders), JobListed(t, orders),
         t.cmd = "sweep" => t.row.status = "success",
         Verdict(t, numbers[t.row.num]) # "apply"
  PROVE  NothingLeft(t.cmd, orders[t.o])
<1>1. /\ t.o \in Orders /\ orders[t.o] \in OrderRow /\ RowOK(orders[t.o])
      /\ t.row \in OrderRow /\ RowOK(t.row)
  BY RowFacts DEF Seen, Tx
<1>2. CASE t.cmd = "timeout"
  <2>1. t.cmd \in TerminalCommands /\ Target[t.cmd] = "timeout"
    BY <1>2 DEF TerminalCommands, TimeoutCommands, Target
  <2>2. CASE t.row.status # "waiting_sms"
    <3>1. t.row.status \in TerminalStatus
      BY <1>1, <2>2 DEF Seen, OrderRow, OrderStatus
    <3> QED BY <1>2, <3>1 DEF Seen, NothingLeft
  <2>3. CASE t.row.status = "waiting_sms"
    <3>1. ~AlreadyDone(t)
      BY <2>1, <2>3 DEF AlreadyDone
    <3>2. ~TerminalAllowed(t, numbers[t.row.num])
      BY <2>1, <3>1 DEF Verdict, Allowed
    <3>3. t.row.otp = None /\ t.at >= ExpiresAt(t.row)
      <4>1. t.row.since \in Nat /\ t.at \in Nat /\ ExpiresAt(t.row) \in Nat
        BY <1>1 DEF OrderRow, Tx, ExpiresAt
      <4>2. ExpiresAt(t.row) = ExpiresAt(orders[t.o])
        BY DEF Seen, ExpiresAt
      <4> QED BY <1>1, <1>2, <2>3, <4>1, <4>2 DEF RowOK, JobListed
    <3>4. numbers[t.row.num].status # "busy"
      BY <1>2, <2>3, <3>2, <3>3 DEF TerminalAllowed, TimeoutCommands
    <3>5. orders[t.o].status # "waiting_sms"
      BY <1>1, <3>4, LiveHolds DEF Live, Holds, Seen
    <3> QED BY <1>1, <1>2, <3>5 DEF NothingLeft, JobListed, OrderRow, OrderStatus
  <2> QED BY <2>2, <2>3
<1>3. CASE t.cmd = "sweep"
  <2>1. t.cmd \notin TerminalCommands
    BY <1>3 DEF TerminalCommands, TimeoutCommands
  <2>2. t.at > ExpiresAt(t.row)
    <3>1. t.row.since \in Nat /\ t.at \in Nat /\ ExpiresAt(t.row) \in Nat
      BY <1>1 DEF OrderRow, Tx, ExpiresAt
    <3>2. ExpiresAt(t.row) = ExpiresAt(orders[t.o])
      BY DEF Seen, ExpiresAt
    <3> QED BY <1>3, <3>1, <3>2 DEF JobListed
  <2>3. t.row.done
    BY <1>3, <2>1, <2>2 DEF Verdict, Allowed, AlreadyDone, ReleaseAllowed
  <2> QED BY <1>1, <1>3, <2>3 DEF Seen, NothingLeft, RowOK
<1> QED BY <1>2, <1>3 DEF JobCommands

LEMMA NumberReadStep ==
  ASSUME IInv, TypeOK', NEW p \in Procs, ReadNumber(p)
  PROVE  IInv'
<1>0. PICK at \in Instants(tx[p]), live \in LiveThen(tx[p], tx[p].row.num) :
        tx' = [tx EXCEPT ![p] = Decide([tx[p] EXCEPT !.at = at],
                                       numbers[tx[p].row.num], live)]
  BY DEF ReadNumber, TypeOK, IInv
<1> DEFINE n == tx[p].row.num
           s == [tx[p] EXCEPT !.at = at]
           v == Verdict(s, numbers[n])
           t == Decide(s, numbers[n], live)
<1>1. tx[p] \in Tx /\ TxSound(tx[p], orders, now) /\ tx[p].step = "number" /\ now \in Nat
  BY RowFacts DEF ReadNumber
<1>2. tx[p].cmd \in Commands /\ Seen(tx[p], orders)
  BY <1>1 DEF TxSound
<1>a. at \in Nat /\ (tx[p].cmd \in JobCommands => at = tx[p].at)
  <2>1. tx[p].cmd \in JobCommands => "main_timeout" # tx[p].cmd
    BY DEF JobCommands
  <2> QED BY <1>0, <1>1, <2>1 DEF Instants, Tx
<1>3. /\ s \in Tx /\ s.cmd = tx[p].cmd /\ s.o = tx[p].o /\ s.row = tx[p].row
      /\ s.cmd \in JobCommands => s.at = tx[p].at
  BY <1>1, <1>a DEF Tx
<1>4. /\ t.step = "commit" /\ t.cmd = s.cmd /\ t.o = s.o /\ t.verdict = v /\ t.m = None
      /\ v = "apply" => t.row = s.row /\ t.to = ReleaseTo(s, numbers[n], live)
  BY DEF Idle, Decide
<1>5. n = s.row.num
  BY <1>3
<1>b. tx' = [tx EXCEPT ![p] = t]
  BY <1>0
<1> HIDE DEF s, n, t
<1>6. Seen(s, orders) /\ s.o \in Orders
  BY <1>2, <1>3 DEF Seen
<1>7. orders[s.o] \in OrderRow /\ RowOK(orders[s.o]) /\ RowOK(s.row)
  BY <1>6, RowFacts DEF Seen
<1>8. ASSUME v = "apply"
      PROVE  /\ Seen(t, orders)
             /\ IF t.cmd \in TerminalCommands THEN t.row.status = "waiting_sms"
                ELSE t.row.status = "success" /\ ~t.row.done
             /\ t.row.ver = orders[t.o].ver => t.to # "keep"
  <2>1. ~AlreadyDone(s) /\ Allowed(s, numbers[n])
    BY <1>8 DEF Verdict
  <2>2. Seen(t, orders)
    BY <1>4, <1>6, <1>8 DEF Seen
  <2>3. CASE s.cmd \in TerminalCommands
    <3>1. s.cmd \notin ReleaseCommands
      BY <2>3 DEF TerminalCommands, TimeoutCommands, ReleaseCommands
    <3>2. t.to # "keep"
      BY <1>4, <1>8, <3>1 DEF ReleaseTo
    <3> QED BY <1>4, <1>8, <2>1, <2>2, <2>3, <3>2 DEF Allowed, TerminalAllowed
  <2>4. CASE s.cmd \notin TerminalCommands
    <3>1. s.row.status = "success" /\ ~s.row.done
      BY <2>1, <2>4 DEF Allowed, ReleaseAllowed, AlreadyDone
    <3>2. ASSUME s.row.ver = orders[s.o].ver PROVE t.to # "keep"
      <4>1. s.row = orders[s.o]
        BY <1>6, <3>2 DEF Seen
      <4>2. numbers[n] = [status |-> "busy", owner |-> s.o]
        BY <1>5, <1>6, <3>1, <4>1, LiveHolds DEF Live, Holds
      <4> QED BY <1>4, <1>8, <4>2 DEF ReleaseTo
    <3> QED BY <1>4, <1>8, <2>2, <2>4, <3>1, <3>2
  <2> QED BY <2>3, <2>4
<1>9. ASSUME v # "apply" PROVE NothingLeft(t.cmd, orders[t.o])
  <2>1. CASE s.cmd \in JobCommands
    <3>1. JobListed(s, orders) /\ (s.cmd = "sweep" => s.row.status = "success")
      BY <1>1, <1>3, <2>1 DEF TxSound, JobListed
    <3> QED BY <1>3, <1>4, <1>5, <1>6, <1>9, <2>1, <3>1, RefusedIsFinal
  <2>2. CASE s.cmd \notin JobCommands
    BY <1>4, <2>2 DEF NothingLeft, JobCommands
  <2> QED BY <2>1, <2>2
<1>10. TxSound(t, orders, now)
  BY <1>2, <1>3, <1>4, <1>6, <1>8, <1>9, CommandSets DEF TxSound, Decided
<1> HIDE DEF v
<1> QED BY <1>b, <1>4, <1>10, ReadStep DEF ReadNumber

LEMMA ApplyStep ==
  ASSUME IInv, TypeOK', NEW p \in Procs, ApplyCommand(p)
  PROVE  IInv' /\ RowsEvolve(orders, orders', now)
<1> DEFINE t == tx[p]
           row == OrderAfter(t.cmd, orders[t.o])
           n == t.row.num
<1>1. t \in Tx /\ TxSound(t, orders, now) /\ t.cmd \in Commands
      /\ t.step = "commit" /\ t.verdict = "apply"
  BY RowFacts DEF ApplyCommand
<1>2. Decided(t, orders) /\ Seen(t, orders) /\ t.o \in Orders
  BY <1>1 DEF TxSound, Decided, Seen
<1>3. orders[t.o] \in OrderRow /\ RowOK(orders[t.o]) /\ orders[t.o] = t.row
  BY <1>2, RowFacts DEF ApplyCommand, OrderMatches, Seen
<1>4. t.to # "keep" /\ Live(t.o)
  BY <1>1, <1>2, <1>3 DEF Decided, Live, Holds, RowOK
<1>5. IF t.cmd \in TerminalCommands
      THEN row.status = Target[t.cmd] /\ row.done = orders[t.o].done
           /\ orders[t.o].status = "waiting_sms"
      ELSE row.status = "success" /\ row.done = TRUE /\ orders[t.o].status = "success"
           /\ ~orders[t.o].done
  BY <1>1, <1>2, <1>3 DEF Decided, OrderAfter, OrderRow
<1>6. /\ row \in OrderRow /\ row.num = orders[t.o].num /\ row.since = orders[t.o].since
      /\ row.otp = orders[t.o].otp /\ row.ver > orders[t.o].ver
  <2>1. row \in OrderRow
    BY <1>3, RowsTyped
  <2>2. CASE t.cmd \in TerminalCommands
    BY <1>3, <2>1, <2>2 DEF OrderAfter, OrderRow
  <2>3. CASE t.cmd \notin TerminalCommands
    BY <1>3, <2>1, <2>3 DEF OrderAfter, OrderRow
  <2> QED BY <2>2, <2>3
<1>7. orders' = [orders EXCEPT ![t.o] = row]
  BY DEF ApplyCommand
<1>a. t.cmd \in TerminalCommands => Target[t.cmd] \in {"cancelled", "timeout", "failed"}
  BY DEF Target, TerminalCommands, TimeoutCommands
<1> HIDE DEF row, t
<1>8. RowOK(row) /\ ~Holds(row) /\ Evolves(orders[t.o], row, now)
  BY <1>3, <1>4, <1>5, <1>6, <1>a DEF RowOK, Holds, Evolves, TerminalStatus, Live, OrderRow
<1>9. RowsEvolve(orders, orders', now) /\ \A q \in Orders : RowOK(orders'[q])
  BY <1>2, <1>6, <1>7, <1>8, OneRow
<1>10. \A q \in Orders : orders'[q] = IF q = t.o THEN row ELSE orders[q]
  BY <1>2, <1>6, <1>7, <1>8, OneRow
<1>11. n \in Numbers /\ numbers[n].owner = t.o /\ orders[t.o].num = n
  BY <1>2, <1>3, <1>4, LiveHolds
<1>12. \A r \in Numbers : numbers'[r] = IF r = n THEN [status |-> t.to, owner |-> None]
                                                ELSE numbers[r]
  BY <1>4 DEF ApplyCommand, IInv, TypeOK, t
<1>13. HeldByItsOrder'
  <2>1. ASSUME NEW r \in Numbers, NEW q \in Orders
        PROVE  numbers'[r].owner = q <=> orders'[q].num = r /\ Holds(orders'[q])
    <3>1. numbers[r].owner = q <=> orders[q].num = r /\ Holds(orders[q])
      BY DEF IInv, HeldByItsOrder, Live
    <3> QED BY <1>8, <1>10, <1>11, <1>12, <3>1
  <2>2. ASSUME NEW r \in Numbers
        PROVE  numbers'[r].status = "busy" <=> numbers'[r].owner # None
    <3>1. t.to # "busy"
      BY <1>1 DEF Tx
    <3> QED BY <1>12, <3>1 DEF IInv, HeldByItsOrder
  <2> QED BY <2>1, <2>2 DEF HeldByItsOrder, Live
<1>14. PaidOncePerSuccess'
  BY <1>5, <1>10, <1>a DEF IInv, PaidOncePerSuccess, ApplyCommand
<1>15. UsedKeyIsFinal'
  <2>1. ASSUME NEW q \in Orders
        PROVE  /\ jobKey["timeout"][q] # "none" => orders'[q].status \in TerminalStatus
               /\ jobKey["sweep"][q] # "none"
                     => orders'[q].status = "success" /\ orders'[q].done
    BY <1>9 DEF IInv, UsedKeyIsFinal, RowsEvolve, Evolves, TerminalStatus
  <2>2. /\ t.cmd = "timeout" => orders'[t.o].status \in TerminalStatus
        /\ t.cmd = "sweep" => orders'[t.o].status = "success" /\ orders'[t.o].done
    BY <1>2, <1>5, <1>10, <1>a DEF TerminalStatus, TerminalCommands, TimeoutCommands, Target
  <2>3. ASSUME NEW c \in JobCommands, NEW q \in Orders
        PROVE  jobKey'[c][q] # "none" => jobKey[c][q] # "none" \/ (c = t.cmd /\ q = t.o)
    BY DEF ApplyCommand, RecordKey, IInv, TypeOK, t
  <2> QED BY <2>1, <2>2, <2>3 DEF UsedKeyIsFinal, JobCommands
<1> QED BY <1>9, <1>13, <1>14, <1>15, CommitStep DEF ApplyCommand

LEMMA AnswerStep ==
  ASSUME IInv, TypeOK', NEW p \in Procs, AnswerCommand(p)
  PROVE  IInv'
<1> DEFINE t == tx[p]
<1>1. t.o \in Orders /\ NothingLeft(t.cmd, orders[t.o])
  BY RowFacts DEF AnswerCommand, TxSound, Decided
<1>2. \A c \in JobCommands, q \in Orders :
        jobKey'[c][q] # "none" => jobKey[c][q] # "none" \/ (c = t.cmd /\ q = t.o)
  BY DEF AnswerCommand, RecordKey, IInv, TypeOK
<1>3. UsedKeyIsFinal'
  BY <1>1, <1>2 DEF UsedKeyIsFinal, IInv, NothingLeft, JobCommands, AnswerCommand
<1>4. RowsEvolve(orders, orders', now) /\ \A o \in Orders : RowOK(orders'[o])
  BY DEF AnswerCommand, RowsEvolve, Evolves, IInv, TypeOK
<1>5. HeldByItsOrder' /\ PaidOncePerSuccess'
  BY DEF AnswerCommand, IInv, HeldByItsOrder, PaidOncePerSuccess, Live
<1> QED BY <1>3, <1>4, <1>5, CommitStep DEF AnswerCommand

(* Giving up a transaction writes nothing: a lost race or a crash. *)
LEMMA GiveUpStep ==
  ASSUME IInv, TypeOK', NEW p \in Procs, tx' = [tx EXCEPT ![p] = Idle],
         UNCHANGED <<now, orders, numbers, earned, jobKey>>
  PROVE  IInv'
  BY ReadStep, IdleSound DEF Idle

-------------------------------------------------------------------------------
LEMMA ReceivedStep ==
  ASSUME IInv, TypeOK', NEW p \in ApiProcs, NEW m \in Messages, NEW n \in Numbers,
         SmsReceived(p, m, n)
  PROVE  IInv'
<1> DEFINE t == [Idle EXCEPT !.step = "match", !.cmd = "sms", !.m = m, !.n = n,
                             !.at = now, !.holder = numbers[n].owner]
<1>1. /\ t.step = "match" /\ t.cmd = "sms" /\ t.m = m /\ t.n = n /\ t.at = now
      /\ t.holder = numbers[n].owner
  BY DEF Idle
<1>2. tx' = [tx EXCEPT ![p] = t] /\ p \in Procs
  BY DEF SmsReceived, Procs
<1> HIDE DEF t
<1>3. \A o \in Orders : orders[o].num = n /\ Holds(orders[o]) => t.holder = o
  BY <1>1 DEF IInv, HeldByItsOrder, Live
<1>4. SmsInFlight(t, orders, now)
  BY <1>1, <1>3, RowFacts DEF SmsInFlight
<1>5. TxSound(t, orders, now)
  BY <1>1, <1>4, CommandSets, "sms" \notin JobCommands DEF TxSound
<1> QED BY <1>1, <1>2, <1>5, ReadStep DEF SmsReceived

LEMMA MatchedStep ==
  ASSUME IInv, TypeOK', NEW p \in ApiProcs, SmsMatched(p)
  PROVE  IInv'
<1> DEFINE T(o) == [tx[p] EXCEPT !.step = "context", !.o = o, !.row = orders[o]]
<1>1. PICK o \in Orders : Eligible(o, tx[p].n, tx[p].at) /\ tx' = [tx EXCEPT ![p] = T(o)]
  BY DEF SmsMatched, Candidates
<1> DEFINE t == T(o)
<1>2. p \in Procs /\ tx[p] \in Tx /\ TxSound(tx[p], orders, now) /\ tx[p].step = "match"
  BY RowFacts DEF Procs, SmsMatched
<1>3. tx[p].cmd = "sms" /\ SmsInFlight(tx[p], orders, now)
  BY <1>2 DEF TxSound
<1>4. /\ t.step = "context" /\ t.cmd = "sms" /\ t.m = tx[p].m /\ t.n = tx[p].n
      /\ t.at = tx[p].at /\ t.holder = tx[p].holder /\ t.o = o
  BY <1>2, <1>3 DEF Tx
<1> HIDE DEF T
<1>5. SmsInFlight(t, orders, now)
  BY <1>1, <1>3, <1>4 DEF SmsInFlight, Eligible
<1>6. TxSound(t, orders, now)
  BY <1>4, <1>5, CommandSets DEF TxSound
<1> QED BY <1>1, <1>2, <1>4, <1>6, ReadStep DEF SmsMatched

LEMMA ContextStep ==
  ASSUME IInv, TypeOK', NEW p \in ApiProcs, SmsContext(p)
  PROVE  IInv'
<1>1. p \in Procs /\ tx[p] \in Tx /\ TxSound(tx[p], orders, now) /\ tx[p].step = "context"
  BY RowFacts DEF Procs, SmsContext
<1>2. CASE StillDeliverable(tx[p])
  <2> DEFINE t == [tx[p] EXCEPT !.step = "commit", !.row = orders[tx[p].o]]
  <2>1. tx[p].cmd = "sms" /\ SmsInFlight(tx[p], orders, now)
    BY <1>1 DEF TxSound
  <2>2. /\ t.step = "commit" /\ t.cmd = "sms" /\ t.m = tx[p].m /\ t.n = tx[p].n
        /\ t.at = tx[p].at /\ t.holder = tx[p].holder /\ t.o = tx[p].o
    BY <1>1, <2>1 DEF Tx
  <2>3. tx' = [tx EXCEPT ![p] = t]
    BY <1>2 DEF SmsContext
  <2> HIDE DEF t
  <2>4. SmsInFlight(t, orders, now)
    BY <1>1, <2>1, <2>2 DEF SmsInFlight
  <2>5. TxSound(t, orders, now)
    BY <2>2, <2>4, CommandSets DEF TxSound
  <2> QED BY <1>1, <2>2, <2>3, <2>5, ReadStep DEF SmsContext
<1>3. CASE ~StillDeliverable(tx[p])
  BY <1>1, <1>3, GiveUpStep DEF SmsContext, StoreSms
<1> QED BY <1>2, <1>3

(* A first OTP turns a waiting order into a paid one that keeps its number. *)
LEMMA FirstStep ==
  ASSUME IInv, TypeOK', NEW p \in ApiProcs, DeliverFirst(p)
  PROVE  IInv' /\ RowsEvolve(orders, orders', now)
<1> DEFINE t == tx[p]
           row == Answered(orders[t.o], t.m)
<1>1. p \in Procs /\ t.o \in Orders /\ t.m \in Messages /\ t.m # None
  BY RowFacts DEF Procs, DeliverFirst, TxSound, SmsInFlight
<1>2. orders[t.o] \in OrderRow /\ RowOK(orders[t.o]) /\ orders[t.o].status = "waiting_sms"
  BY <1>1, RowFacts DEF DeliverFirst
<1>3. /\ row \in OrderRow /\ row.num = orders[t.o].num /\ row.since = orders[t.o].since
      /\ row.otp = t.m /\ row.status = "success" /\ row.done = orders[t.o].done
      /\ row.ver > orders[t.o].ver
  BY <1>1, <1>2, OtpFields
<1>4. orders' = [orders EXCEPT ![t.o] = row] /\ earned' = [earned EXCEPT ![t.o] = @ + 1]
      /\ tx' = [tx EXCEPT ![p] = Idle]
  BY DEF DeliverFirst, StoreSms
<1> HIDE DEF row, t
<1>5. RowOK(row) /\ Holds(row) /\ Holds(orders[t.o]) /\ Evolves(orders[t.o], row, now)
  BY <1>1, <1>2, <1>3 DEF RowOK, Holds, Evolves, TerminalStatus, OrderRow
<1>6. RowsEvolve(orders, orders', now) /\ \A q \in Orders : RowOK(orders'[q])
  BY <1>1, <1>3, <1>4, <1>5, OneRow
<1>7. \A q \in Orders : orders'[q] = IF q = t.o THEN row ELSE orders[q]
  BY <1>1, <1>3, <1>4, <1>5, OneRow
<1>8. HeldByItsOrder'
  BY <1>3, <1>5, <1>7 DEF IInv, HeldByItsOrder, Live, DeliverFirst
<1>9. PaidOncePerSuccess'
  BY <1>1, <1>2, <1>3, <1>4, <1>7 DEF IInv, TypeOK, PaidOncePerSuccess
<1>10. UsedKeyIsFinal'
  BY <1>6, KeysKept DEF DeliverFirst
<1> QED BY <1>1, <1>4, <1>6, <1>8, <1>9, <1>10, CommitStep DEF DeliverFirst

(* A repeated OTP changes nothing but the OTP of a listening order. *)
LEMMA RepeatStep ==
  ASSUME IInv, TypeOK', NEW p \in ApiProcs, DeliverRepeat(p)
  PROVE  IInv' /\ RowsEvolve(orders, orders', now)
<1> DEFINE t == tx[p]
           row == Refreshed(orders[t.o], t.m)
<1>1. p \in Procs /\ t.o \in Orders /\ t.m \in Messages /\ t.m # None
  BY RowFacts DEF Procs, DeliverRepeat, TxSound, SmsInFlight
<1>2. /\ orders[t.o] \in OrderRow /\ RowOK(orders[t.o])
      /\ orders[t.o].status = "success" /\ ~orders[t.o].done
  BY <1>1, RowFacts DEF DeliverRepeat
<1>3. /\ row \in OrderRow /\ row.num = orders[t.o].num /\ row.since = orders[t.o].since
      /\ row.otp = t.m /\ row.status = "success" /\ row.done = orders[t.o].done
      /\ row.ver > orders[t.o].ver
  BY <1>1, <1>2, OtpFields
<1>4. orders' = [orders EXCEPT ![t.o] = row] /\ tx' = [tx EXCEPT ![p] = Idle]
  BY DEF DeliverRepeat, StoreSms
<1> HIDE DEF row, t
<1>5. RowOK(row) /\ Holds(row) /\ Holds(orders[t.o]) /\ Evolves(orders[t.o], row, now)
  BY <1>1, <1>2, <1>3 DEF RowOK, Holds, Evolves, TerminalStatus, OrderRow
<1>6. RowsEvolve(orders, orders', now) /\ \A q \in Orders : RowOK(orders'[q])
  BY <1>1, <1>3, <1>4, <1>5, OneRow
<1>7. \A q \in Orders : orders'[q] = IF q = t.o THEN row ELSE orders[q]
  BY <1>1, <1>3, <1>4, <1>5, OneRow
<1>8. HeldByItsOrder'
  BY <1>3, <1>5, <1>7 DEF IInv, HeldByItsOrder, Live, DeliverRepeat
<1>9. PaidOncePerSuccess'
  BY <1>2, <1>3, <1>7 DEF IInv, PaidOncePerSuccess, DeliverRepeat
<1>10. UsedKeyIsFinal'
  BY <1>6, KeysKept DEF DeliverRepeat
<1> QED BY <1>1, <1>4, <1>6, <1>8, <1>9, <1>10, CommitStep DEF DeliverRepeat

-------------------------------------------------------------------------------
(* The fleet writes the status of idle numbers only, so no hold is touched. *)
LEMMA FleetKeeps ==
  ASSUME IInv, TypeOK', FleetStep
  PROVE  IInv'
<1>1. UNCHANGED <<now, orders, sms, earned, jobKey, tx>>
  BY DEF FleetStep, Heartbeat, DeviceLost, OfflineSweep, AgentAvailability,
         DisableNumber, ReEnableNumber
<1>2. ASSUME NEW n \in Numbers, NEW s \in IdleStatus, SetIdle(n, s)
      PROVE  HeldByItsOrder'
  <2>1. \A r \in Numbers : /\ numbers'[r].owner = numbers[r].owner
                           /\ numbers'[r].status = IF r = n THEN s ELSE numbers[r].status
    BY <1>2, RowFacts DEF SetIdle, NumberRow, IInv, TypeOK
  <2> QED BY <1>1, <1>2, <2>1 DEF IInv, HeldByItsOrder, Live, SetIdle, IdleStatus
<1>3. UNCHANGED numbers => HeldByItsOrder'
  BY <1>1 DEF IInv, HeldByItsOrder, Live
<1>4. HeldByItsOrder'
  BY <1>2, <1>3 DEF FleetStep, Heartbeat, DeviceLost, OfflineSweep, AgentAvailability,
                    DisableNumber, ReEnableNumber, IdleStatus
<1>5. \A q \in Procs : TxSound(tx'[q], orders', now')
  BY <1>1, RowFacts
<1> QED BY <1>1, <1>4, <1>5 DEF IInv, PaidOncePerSuccess, UsedKeyIsFinal

LEMMA TickKeeps ==
  ASSUME IInv, TypeOK', Tick
  PROVE  IInv'
<1>1. RowsEvolve(orders, orders', now) /\ now \in Nat /\ now' \in Nat /\ now <= now'
  BY DEF Tick, RowsEvolve, Evolves, IInv, TypeOK
<1>2. ASSUME NEW q \in Procs PROVE TxSound(tx'[q], orders', now')
  BY <1>1, RowFacts, TxKept DEF Tick
<1> QED BY <1>2 DEF Tick, IInv, HeldByItsOrder, PaidOncePerSuccess, UsedKeyIsFinal, Live

-------------------------------------------------------------------------------
(* IInv is inductive: one case per action. *)
LEMMA Inductive == IInv /\ [Next]_vars => IInv'
<1> SUFFICES ASSUME IInv, [Next]_vars PROVE IInv'
    OBVIOUS
<1>1. TypeOK'
  BY TypeStep
<1>2. CASE OrderStep
  <2>1. ASSUME NEW p \in Procs, CommandContention(p) PROVE IInv'
    BY <1>1, <2>1, GiveUpStep DEF CommandContention
  <2> QED BY <1>1, <1>2, <2>1, ReserveStep, SubmitStep, PickStep, OrderReadStep,
             NumberReadStep, ApplyStep, AnswerStep DEF OrderStep, Procs
<1>3. CASE SmsStep
  <2>1. ASSUME NEW p \in ApiProcs, SmsAudited(p) PROVE IInv'
    BY <1>1, <2>1, GiveUpStep DEF SmsAudited, StoreSms, Procs
  <2>2. ASSUME NEW p \in ApiProcs, SmsContention(p) PROVE IInv'
    BY <1>1, <2>2, GiveUpStep DEF SmsContention, Procs
  <2> QED BY <1>1, <1>3, <2>1, <2>2, ReceivedStep, MatchedStep, ContextStep, FirstStep,
             RepeatStep DEF SmsStep
<1>4. CASE FleetStep
  BY <1>1, <1>4, FleetKeeps
<1>5. CASE Tick
  BY <1>1, <1>5, TickKeeps
<1>6. CASE \E p \in Procs : Crash(p)
  BY <1>1, <1>6, GiveUpStep DEF Crash
<1>7. CASE UNCHANGED vars
  BY <1>1, <1>7 DEF vars, IInv, HeldByItsOrder, PaidOncePerSuccess, UsedKeyIsFinal, Live
<1> QED BY <1>2, <1>3, <1>4, <1>5, <1>6, <1>7 DEF Next

(* The strengthened invariant holds of every reachable state. *)
THEOREM Invariance == Spec => []IInv
  BY InitIInv, Inductive, PTL DEF Spec

(* Rows, keys and transactions stay well formed under every interleaving of *)
(* requests, jobs, SMS, fleet changes and crashes.                          *)
THEOREM TypeCorrect == Spec => []TypeOK
<1>1. IInv => TypeOK
  BY DEF IInv
<1> QED BY <1>1, Invariance, PTL

(* A number is busy exactly for the one live order that holds it, whatever  *)
(* transactions race: the transition and SMS services' compare-and-sets are *)
(* enough, with no lock on the rows they read.                              *)
THEOREM HoldsAreExclusive == Spec => []HeldByItsOrder
<1>1. IInv => HeldByItsOrder
  BY DEF IInv
<1> QED BY <1>1, Invariance, PTL

(* The partner is paid exactly once for a success and never otherwise. *)
THEOREM PaidExactlyOnce == Spec => []PaidOncePerSuccess
<1>1. IInv => PaidOncePerSuccess
  BY DEF IInv
<1> QED BY <1>1, Invariance, PTL

(* A job's constant key is never used up on an order it still has to close. *)
THEOREM KeysNeverPoisoned == Spec => []UsedKeyIsFinal
<1>1. IInv => UsedKeyIsFinal
  BY DEF IInv
<1> QED BY <1>1, Invariance, PTL

-------------------------------------------------------------------------------
(* Every step lets every order row evolve, and only evolve. *)
LEMMA Evolution == IInv /\ [Next]_vars => RowsEvolve(orders, orders', now)
<1> SUFFICES ASSUME IInv, [Next]_vars PROVE RowsEvolve(orders, orders', now)
    OBVIOUS
<1>1. TypeOK'
  BY TypeStep
<1>2. ASSUME UNCHANGED orders PROVE RowsEvolve(orders, orders', now)
  BY <1>2 DEF RowsEvolve, Evolves, IInv, TypeOK
<1>3. CASE OrderStep
  BY <1>1, <1>2, <1>3, ReserveStep, ApplyStep
     DEF OrderStep, SubmitCommand, JobPicks, ReadOrder, ReadNumber, AnswerCommand,
         CommandContention
<1>4. CASE SmsStep
  BY <1>1, <1>2, <1>4, FirstStep, RepeatStep
     DEF SmsStep, SmsReceived, SmsAudited, SmsMatched, SmsContext, SmsContention
<1>5. CASE ~OrderStep /\ ~SmsStep
  BY <1>2, <1>5 DEF Next, vars, FleetStep, Heartbeat, DeviceLost, OfflineSweep,
     AgentAvailability, DisableNumber, ReEnableNumber, Tick, Crash
<1> QED BY <1>3, <1>4, <1>5

(* A terminal order never changes its status and a completed one nothing at *)
(* all, its OTP included, whatever was read before it got there.            *)
THEOREM Settled == Spec => SettledForGood
<1>1. IInv /\ [Next]_vars
        => [\A o \in Orders :
              /\ orders[o].status \in TerminalStatus => orders'[o].status = orders[o].status
              /\ orders[o].done => orders'[o] = orders[o]]_vars
  BY Evolution DEF RowsEvolve, Evolves, RowOK, TerminalStatus
<1> QED BY <1>1, Invariance, PTL DEF Spec, SettledForGood

(* An OTP reaches only an order whose window the SMS fell in and that held  *)
(* the number when the SMS was received.                                    *)
THEOREM NeverMisdelivered == Spec => DeliveredToHolder
<1> DEFINE Right(p) ==
      LET t == tx[p] IN
      t.cmd = "sms" /\ sms'[t.m] # sms[t.m] /\ sms'[t.m].st = "matched" =>
        LET o == sms'[t.m].o IN
        /\ orders'[o].status = "success" /\ orders'[o].otp = t.m
        /\ orders[o].num = t.n /\ Live(o)
        /\ orders[o].since <= t.at /\ t.at <= ExpiresAt(orders[o])
        /\ t.holder = o \/ orders[o].since = t.at
<1>1. ASSUME IInv, NEW q \in ApiProcs, DeliverFirst(q) \/ DeliverRepeat(q), NEW p \in Procs
      PROVE  Right(p)
  <2> DEFINE t == tx[q]
             after == IF DeliverFirst(q) THEN Answered(orders[t.o], t.m)
                                         ELSE Refreshed(orders[t.o], t.m)
  <2>1. q \in Procs /\ t.m \in Messages /\ t.m # None /\ t.o \in Orders
        /\ SmsInFlight(t, orders, now) /\ t.step = "commit"
    BY <1>1, RowFacts DEF Procs, DeliverFirst, DeliverRepeat, TxSound, SmsInFlight
  <2>2. sms' = [sms EXCEPT ![t.m] = Delivered(t)]
    BY <1>1 DEF DeliverFirst, DeliverRepeat, StoreSms
  <2>3. /\ orders[t.o] \in OrderRow /\ RowOK(orders[t.o]) /\ Live(t.o)
        /\ orders' = [orders EXCEPT ![t.o] = after]
        /\ DeliverFirst(q) \/ orders[t.o].status = "success"
    BY <1>1, <2>1, RowFacts DEF DeliverFirst, DeliverRepeat, Live, Holds
  <2>4. after.status = "success" /\ after.otp = t.m
    BY <2>1, <2>3, OtpFields
  <2> HIDE DEF after
  <2>5. orders'[t.o].status = "success" /\ orders'[t.o].otp = t.m
    BY <1>1, <2>1, <2>3, <2>4 DEF IInv, TypeOK
  <2>6. /\ orders[t.o].num = t.n
        /\ orders[t.o].since <= t.at /\ t.at <= ExpiresAt(orders[t.o])
        /\ t.holder = t.o \/ orders[t.o].since = t.at
    BY <2>1, <2>3 DEF SmsInFlight, Live
  <2>7. CASE tx[p].cmd = "sms" /\ tx[p].m = t.m
    <3>1. p = q
      BY <1>1, <2>1, <2>7 DEF IInv
    <3>2. sms'[t.m].o = t.o
      BY <1>1, <2>1, <2>2 DEF IInv, TypeOK, Delivered
    <3> QED BY <2>3, <2>5, <2>6, <3>1, <3>2
  <2>8. CASE tx[p].cmd = "sms" /\ tx[p].m # t.m
    BY <2>2, <2>8
  <2> QED BY <2>7, <2>8
<1>2. ASSUME IInv, NEW q \in ApiProcs, SmsAudited(q) \/ SmsContext(q), NEW p \in Procs
      PROVE  Right(p)
  <2>1. UNCHANGED sms \/ \E st \in {"unmatched", "unparsed", "ambiguous"} :
                           sms' = [sms EXCEPT ![tx[q].m] = Audited(st)]
    BY <1>2 DEF SmsAudited, SmsContext, StoreSms, AuditStatus
  <2>2. \A st \in {"unmatched", "unparsed", "ambiguous"} : Audited(st).st # "matched"
    BY DEF Audited, NewSms
  <2>3. tx[p].cmd = "sms" => tx[p].m \in Messages
    BY <1>2, RowFacts DEF TxSound, SmsInFlight
  <2> QED BY <1>2, <2>1, <2>2, <2>3 DEF IInv, TypeOK
<1>3. ASSUME UNCHANGED sms, NEW p \in Procs PROVE Right(p)
  BY <1>3
<1>4. ASSUME IInv, [Next]_vars, NEW p \in Procs PROVE Right(p)
  <2>1. CASE SmsStep
    BY <1>1, <1>2, <1>3, <1>4, <2>1 DEF SmsStep, SmsReceived, SmsMatched, SmsContention
  <2>2. CASE ~SmsStep
    <3>1. UNCHANGED sms
      BY <1>4, <2>2 DEF Next, vars, OrderStep, Reserve, SubmitCommand, JobPicks, ReadOrder,
         ReadNumber, ApplyCommand, AnswerCommand, CommandContention, FleetStep, Heartbeat,
         DeviceLost, OfflineSweep, AgentAvailability, DisableNumber, ReEnableNumber, Tick,
         Crash
    <3> QED BY <1>3, <3>1
  <2> QED BY <2>1, <2>2
<1>5. IInv /\ [Next]_vars => [\A p \in Procs : Right(p)]_vars
  BY <1>4
<1> QED BY <1>5, Invariance, PTL DEF Spec, DeliveredToHolder

-------------------------------------------------------------------------------
(* Refinement of the abstract number lease: a reservation is a grant, a     *)
(* first OTP a payment, an applied command a return, and nothing else moves *)
(* what the lease shows.                                                    *)

PhaseOf == [o \in Orders |-> Phase(orders[o])]
LeaseOf == [n \in Numbers |-> numbers[n].owner]

LEMMA LeaseStutter ==
  ASSUME UNCHANGED <<orders, earned>>,
         \A n \in Numbers : numbers'[n].owner = numbers[n].owner
  PROVE  UNCHANGED Lease!vars
<1>1. PhaseOf' = PhaseOf /\ LeaseOf' = LeaseOf
  BY DEF PhaseOf, LeaseOf
<1> QED BY <1>1 DEF Lease!vars, PhaseOf, LeaseOf

(* The lease's view of a step that rewrites one order's row. *)
LEMMA PhaseStep ==
  ASSUME NEW o \in Orders, NEW row, \A q \in Orders : orders'[q] = IF q = o THEN row
                                                                     ELSE orders[q]
  PROVE  PhaseOf' = [PhaseOf EXCEPT ![o] = Phase(row)]
  BY DEF PhaseOf

LEMMA LeaseOneNumber ==
  ASSUME NEW n \in Numbers, NEW r,
         \A k \in Numbers : numbers'[k].owner = IF k = n THEN r ELSE numbers[k].owner
  PROVE  LeaseOf' = [LeaseOf EXCEPT ![n] = r]
  BY DEF LeaseOf

LEMMA GrantStep ==
  ASSUME IInv, NEW o \in Orders, NEW n \in Numbers, Reserve(o, n)
  PROVE  Lease!Grant(o, n)
<1> DEFINE row == [status |-> "waiting_sms", num |-> n, since |-> now,
                   done |-> FALSE, ver |-> 2, otp |-> None]
<1>1. \A q \in Orders : orders'[q] = IF q = o THEN row ELSE orders[q]
  BY DEF Reserve, IInv, TypeOK
<1>2. \A k \in Numbers : numbers'[k].owner = IF k = n THEN o ELSE numbers[k].owner
  BY DEF Reserve, IInv, TypeOK
<1>3. Phase(row) = "waiting"
  BY DEF Phase
<1> HIDE DEF row
<1>4. PhaseOf' = [PhaseOf EXCEPT ![o] = "waiting"]
  BY <1>1, <1>3, PhaseStep
<1>5. LeaseOf' = [LeaseOf EXCEPT ![n] = o]
  BY <1>2, LeaseOneNumber
<1>6. PhaseOf[o] = "absent" /\ LeaseOf[n] = None
  BY DEF Reserve, PhaseOf, LeaseOf, Phase
<1> QED BY <1>4, <1>5, <1>6 DEF Lease!Grant, PhaseOf, LeaseOf, Reserve

LEMMA PayStep ==
  ASSUME IInv, NEW p \in ApiProcs, DeliverFirst(p)
  PROVE  Lease!Pay(tx[p].o)
<1> DEFINE o == tx[p].o
           row == Answered(orders[o], tx[p].m)
<1>1. o \in Orders /\ tx[p].m \in Messages /\ orders[o] \in OrderRow
      /\ RowOK(orders[o]) /\ orders[o].status = "waiting_sms"
  BY RowFacts DEF Procs, DeliverFirst, TxSound, SmsInFlight
<1>2. \A q \in Orders : orders'[q] = IF q = o THEN row ELSE orders[q]
  BY DEF DeliverFirst, IInv, TypeOK
<1>3. row.status = "success" /\ row.done = orders[o].done
  BY <1>1, OtpFields
<1>4. Phase(row) = "listening" /\ Phase(orders[o]) = "waiting"
  BY <1>1, <1>3 DEF Phase, RowOK
<1> HIDE DEF row
<1>5. PhaseOf' = [PhaseOf EXCEPT ![o] = "listening"]
  BY <1>1, <1>2, <1>4, PhaseStep
<1>6. PhaseOf[o] = "waiting"
  BY <1>1, <1>4 DEF PhaseOf
<1>7. earned' = [earned EXCEPT ![o] = @ + 1] /\ UNCHANGED numbers
  BY DEF DeliverFirst
<1> QED BY <1>5, <1>6, <1>7 DEF Lease!Pay, PhaseOf

LEMMA ReturnStep ==
  ASSUME IInv, NEW p \in Procs, ApplyCommand(p), NEW o \in Orders, NEW n \in Numbers,
         o = tx[p].o, n = tx[p].row.num
  PROVE  Lease!Return(o, n)
<1> DEFINE t == tx[p]
           row == OrderAfter(t.cmd, orders[o])
<1>1. t \in Tx /\ TxSound(t, orders, now) /\ t.cmd \in Commands
      /\ t.step = "commit" /\ t.verdict = "apply"
  BY RowFacts DEF ApplyCommand
<1>2. Decided(t, orders) /\ Seen(t, orders)
  BY <1>1 DEF TxSound, Decided, Seen
<1>3. orders[o] \in OrderRow /\ RowOK(orders[o]) /\ orders[o] = t.row
  BY <1>2, RowFacts DEF ApplyCommand, OrderMatches, Seen
<1>4. t.to # "keep" /\ Live(o)
  BY <1>1, <1>2, <1>3 DEF Decided, Live, Holds, RowOK
<1>5. numbers[n].owner = o
  BY <1>3, <1>4, LiveHolds
<1>6. IF t.cmd \in TerminalCommands
      THEN row.status = Target[t.cmd] /\ orders[o].status = "waiting_sms"
      ELSE row.status = "success" /\ row.done = TRUE
           /\ orders[o].status = "success" /\ ~orders[o].done
  BY <1>1, <1>2, <1>3 DEF Decided, OrderAfter, OrderRow
<1>7. Phase(row) = Lease!EndPhase(Phase(orders[o])) /\ Phase(orders[o]) \in {"waiting", "listening"}
  BY <1>6 DEF Phase, Lease!EndPhase, Target, TerminalCommands, TimeoutCommands
<1>8. \A q \in Orders : orders'[q] = IF q = o THEN row ELSE orders[q]
  BY DEF ApplyCommand, IInv, TypeOK
<1>9. \A k \in Numbers : numbers'[k].owner = IF k = n THEN None ELSE numbers[k].owner
  BY <1>4 DEF ApplyCommand, IInv, TypeOK
<1> HIDE DEF row
<1>10. PhaseOf' = [PhaseOf EXCEPT ![o] = Phase(row)]
  BY <1>2, <1>8, PhaseStep
<1>11. LeaseOf' = [LeaseOf EXCEPT ![n] = None]
  BY <1>5, <1>9, LeaseOneNumber
<1>12. PhaseOf[o] = Phase(orders[o]) /\ LeaseOf[n] = o
  BY <1>2, <1>5 DEF PhaseOf, LeaseOf
<1>13. PhaseOf' = [PhaseOf EXCEPT ![o] = Lease!EndPhase(@)]
  BY <1>7, <1>10, <1>12
<1>14. UNCHANGED earned
  BY DEF ApplyCommand
<1> QED BY <1>7, <1>11, <1>12, <1>13, <1>14 DEF Lease!Return, PhaseOf, LeaseOf

LEMMA LeaseInit == Init => Lease!Init
<1> SUFFICES ASSUME Init PROVE Lease!Init
    OBVIOUS
<1>1. \A o \in Orders : Phase(orders[o]) = "absent"
  BY DEF Init, Phase, NoOrder
<1>2. \A n \in Numbers : numbers[n].owner = None
  BY DEF Init
<1> QED BY <1>1, <1>2 DEF Lease!Init, Init

LEMMA LeaseStep == IInv /\ [Next]_vars => [Lease!Next]_(Lease!vars)
<1> SUFFICES ASSUME IInv, [Next]_vars PROVE [Lease!Next]_(Lease!vars)
    OBVIOUS
<1>1. ASSUME UNCHANGED <<orders, numbers, earned>> PROVE UNCHANGED Lease!vars
  BY <1>1, LeaseStutter
<1>2. CASE OrderStep
  <2>1. ASSUME NEW o \in Orders, NEW n \in Numbers, Reserve(o, n) PROVE Lease!Next
    BY <2>1, GrantStep DEF Lease!Next
  <2>2. ASSUME NEW p \in Procs, ApplyCommand(p) PROVE Lease!Next
    <3>1. tx[p].o \in Orders /\ tx[p].row.num \in Numbers
      <4>1. Decided(tx[p], orders) /\ Seen(tx[p], orders) /\ tx[p].row \in OrderRow
        BY <2>2, RowFacts DEF ApplyCommand, TxSound, Decided, Tx
      <4> QED BY <4>1 DEF Seen, RowOK, OrderRow
    <3>2. PICK o \in Orders, n \in Numbers : o = tx[p].o /\ n = tx[p].row.num
      BY <3>1
    <3>3. Lease!Return(o, n)
      BY <2>2, <3>2, ReturnStep
    <3> QED BY <3>3 DEF Lease!Next
  <2> QED BY <1>1, <1>2, <2>1, <2>2 DEF OrderStep, SubmitCommand, JobPicks, ReadOrder,
             ReadNumber, AnswerCommand, CommandContention
<1>3. CASE SmsStep
  <2>1. ASSUME NEW p \in ApiProcs, DeliverFirst(p) PROVE Lease!Next
    <3>1. tx[p].o \in Orders
      BY <2>1, RowFacts DEF Procs, DeliverFirst, TxSound, SmsInFlight
    <3> QED BY <2>1, <3>1, PayStep DEF Lease!Next
  <2>2. ASSUME NEW p \in ApiProcs, DeliverRepeat(p) PROVE UNCHANGED Lease!vars
    <3> DEFINE o == tx[p].o
               row == Refreshed(orders[o], tx[p].m)
    <3>1. o \in Orders /\ tx[p].m \in Messages /\ orders[o] \in OrderRow
          /\ orders[o].status = "success"
      BY <2>2, RowFacts DEF Procs, DeliverRepeat, TxSound, SmsInFlight
    <3>2. row.status = "success" /\ row.done = orders[o].done
      BY <3>1, OtpFields
    <3>3. \A q \in Orders : orders'[q] = IF q = o THEN row ELSE orders[q]
      BY <2>2 DEF DeliverRepeat, IInv, TypeOK
    <3>4. Phase(row) = Phase(orders[o])
      BY <3>1, <3>2 DEF Phase
    <3> HIDE DEF row
    <3>5. PhaseOf' = PhaseOf /\ LeaseOf' = LeaseOf
      BY <2>2, <3>3, <3>4 DEF PhaseOf, LeaseOf, DeliverRepeat
    <3> QED BY <2>2, <3>5 DEF Lease!vars, PhaseOf, LeaseOf, DeliverRepeat
  <2> QED BY <1>1, <1>3, <2>1, <2>2 DEF SmsStep, SmsReceived, SmsAudited, SmsMatched,
             SmsContext, SmsContention
<1>4. CASE FleetStep
  <2>1. ASSUME NEW n \in Numbers, NEW s, SetIdle(n, s)
        PROVE  \A k \in Numbers : numbers'[k].owner = numbers[k].owner
    BY <2>1, RowFacts DEF SetIdle, NumberRow, IInv, TypeOK
  <2>2. /\ UNCHANGED <<orders, earned>>
        /\ \A k \in Numbers : numbers'[k].owner = numbers[k].owner
    BY <1>4, <2>1 DEF FleetStep, Heartbeat, DeviceLost, OfflineSweep, AgentAvailability,
       DisableNumber, ReEnableNumber
  <2> QED BY <2>2, LeaseStutter
<1>5. CASE Tick \/ (\E p \in Procs : Crash(p)) \/ UNCHANGED vars
  BY <1>1, <1>5 DEF Tick, Crash, vars
<1> QED BY <1>2, <1>3, <1>4, <1>5 DEF Next

(* The system implements the number lease: to buyer and partner, every      *)
(* history of transactions is one of atomic grants, payments and returns.   *)
THEOREM ImplementsLease == Spec => LeaseSpec
<1>1. Init => Lease!Init
  BY LeaseInit
<1>2. IInv /\ [Next]_vars => [Lease!Next]_(Lease!vars)
  BY LeaseStep
<1> QED BY <1>1, <1>2, Invariance, PTL DEF Spec, LeaseSpec, Lease!Spec

-------------------------------------------------------------------------------
(* The reconciler's silence about orders: it follows from the exclusive     *)
(* lease and the single earning above.                                     *)

(* A set all of whose members are equal has at most one. *)
LEMMA AtMostOne ==
  ASSUME NEW S, \A x, y \in S : x = y
  PROVE  Cardinality(S) <= 1
<1>1. CASE S = {}
  BY <1>1, FS_EmptySet
<1>2. CASE S # {}
  <2>1. PICK x : x \in S
    BY <1>2
  <2>2. S = {x}
    BY <2>1
  <2> QED BY <2>2, FS_Singleton
<1> QED BY <1>1, <1>2

(* What counts as active for the reconciler is what holds its number. *)
LEMMA ActiveIsLive ==
  ASSUME NEW o \in Orders
  PROVE  ActiveOrder(o) <=> Live(o)
BY DEF ActiveOrder, Live, Holds

(* A number's active orders are its owner, or none. *)
LEMMA ActiveIsOwner ==
  ASSUME IInv, NEW n \in Numbers, NEW o \in Orders
  PROVE  o \in ActiveOrdersOf[n] <=> numbers[n].owner = o
BY ActiveIsLive DEF IInv, HeldByItsOrder, ActiveOrdersOf

(* An active order is waiting or settled, and its number is busy. *)
LEMMA ActiveIsPaired ==
  ASSUME IInv, NEW o \in Orders, ActiveOrder(o)
  PROVE  /\ orders[o].status \in {"waiting_sms", "success"}
         /\ numbers[orders[o].num].status = "busy"
<1>1. orders[o].status \in {"waiting_sms", "success"}
  BY DEF ActiveOrder
<1>2. orders[o].num \in Numbers
  BY <1>1 DEF IInv, RowOK, TypeOK, OrderRow
<1>3. numbers[orders[o].num].owner = o
  BY <1>2, ActiveIsLive DEF IInv, HeldByItsOrder
<1>4. o # None
  BY ConstantsAssumption
<1> QED BY <1>1, <1>2, <1>3, <1>4 DEF IInv, HeldByItsOrder

LEMMA NoPairAlarm ==
  ASSUME IInv
  PROVE  PairFindings(Pairs) = {}
<1> SUFFICES ASSUME NEW q \in Pairs
             PROVE  ConsistentPair(q.orderStatus, q.numberStatus)
  BY DEF PairFindings
<1>1. PICK o \in Orders :
         /\ ActiveOrder(o)
         /\ q = [order |-> o, orderStatus |-> orders[o].status,
                 numberStatus |-> numbers[orders[o].num].status]
  BY DEF Pairs
<1>2. q.orderStatus \in {"waiting_sms", "success"} /\ q.numberStatus = "busy"
  BY <1>1, ActiveIsPaired
<1> QED BY <1>2 DEF ConsistentPair

LEMMA NoNumberAlarm ==
  ASSUME IInv
  PROVE  NumberFindings(HeldNumbers, ActiveOrdersOf) = {}
<1>1. DOMAIN ActiveOrdersOf = Numbers
  BY DEF ActiveOrdersOf
<1>2. ASSUME NEW n \in Numbers
      PROVE  ActiveOrdersOf[n] = IF numbers[n].owner = None THEN {} ELSE {numbers[n].owner}
  <2>1. numbers[n].owner \in Orders \cup {None} /\ None \notin Orders
    BY ConstantsAssumption DEF IInv, TypeOK, NumberRow
  <2>2. ActiveOrdersOf[n] \subseteq Orders
    BY DEF ActiveOrdersOf
  <2> QED BY <2>1, <2>2, ActiveIsOwner
<1>3. ASSUME NEW n \in Numbers
      PROVE  n \in HeldNumbers <=> numbers[n].owner # None
  BY DEF IInv, HeldByItsOrder, TypeOK, NumberRow, NumberStatus, IdleStatus,
         HeldNumbers, HeldNumberStatus
<1>4. ASSUME NEW n \in Numbers
      PROVE  /\ Cardinality(ActiveOrdersOf[n]) <= 1
             /\ n \in HeldNumbers => ActiveOrdersOf[n] # {}
             /\ n \notin HeldNumbers => Cardinality(ActiveOrdersOf[n]) = 0
  <2>1. Cardinality(ActiveOrdersOf[n]) <= 1
    BY <1>2, AtMostOne
  <2>2. n \notin HeldNumbers => ActiveOrdersOf[n] = {}
    BY <1>2, <1>3
  <2> QED BY <1>2, <1>3, <2>1, <2>2, FS_EmptySet
<1>5. {n \in DOMAIN ActiveOrdersOf : Cardinality(ActiveOrdersOf[n]) > 1} = {}
  <2>1. ASSUME NEW n \in Numbers PROVE ~(Cardinality(ActiveOrdersOf[n]) > 1)
    <3>1. ActiveOrdersOf[n] = {} \/ \E x : ActiveOrdersOf[n] = {x}
      BY <1>2
    <3>2. Cardinality(ActiveOrdersOf[n]) \in {0, 1}
      BY <3>1, FS_EmptySet, FS_Singleton
    <3> QED BY <3>2
  <2> QED BY <1>1, <2>1
<1>6. {n \in HeldNumbers : ActiveOrdersOf[n] = {}} = {}
  BY <1>4 DEF HeldNumbers
<1>7. {n \in DOMAIN ActiveOrdersOf \ HeldNumbers : Cardinality(ActiveOrdersOf[n]) = 1} = {}
  BY <1>1, <1>4
<1> QED BY <1>5, <1>6, <1>7 DEF NumberFindings

LEMMA NoEarningAlarm ==
  ASSUME IInv
  PROVE  DuplicateEarnings(earned) = {}
<1>1. DOMAIN earned = Orders
  BY DEF IInv, TypeOK
<1>2. ASSUME NEW o \in Orders PROVE ~(earned[o] > 1)
  BY DEF IInv, PaidOncePerSuccess
<1> QED BY <1>1, <1>2 DEF DuplicateEarnings

(* The reconciler never records an issue about a partner's orders, numbers  *)
(* or duplicate earnings that the commands alone brought about.             *)
THEOREM OrdersRaiseNoAlarm == Spec => []NoOrderAlarm
<1>1. IInv => NoOrderAlarm
  BY NoPairAlarm, NoNumberAlarm, NoEarningAlarm DEF NoOrderAlarm, OrderFindings
<1> QED BY <1>1, Invariance, PTL

===============================================================================
