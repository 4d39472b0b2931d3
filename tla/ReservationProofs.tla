-------------------------- MODULE ReservationProofs --------------------------
(***************************************************************************)
(* The safety properties of Reservation, for any number of keys, references,*)
(* numbers and workers and any batch limit: IInv is inductive.              *)
(***************************************************************************)
EXTENDS Reservation, TLAPS

(* An idle worker relies on nothing and is in nobody's way. *)
LEMMA IdleSound ==
  /\ Idle \in Tx /\ Idle.step = "idle" /\ Idle.code = "none" /\ Idle.locks = {}
  /\ \A nums, ords : TxSound(Idle, nums, ords)
  BY DEF Idle, Tx, Stored, Definite, TxSound

(* Rows and transactions are records of their fields. *)
LEMMA Typed ==
  ASSUME IInv
  PROVE  /\ tx \in [Procs -> Tx]
         /\ \A p \in Procs : tx[p] \in Tx
         /\ \A k \in Keys : records[k] \in [ref : Refs \cup {None}, code : Stored,
                                            num : Numbers \cup {None}]
         /\ \A r \in Refs : orders[r] \in [key : Keys \cup {None}, num : Numbers \cup {None}]
  BY DEF IInv, TypeOK

(* A step that only changes what one worker is doing keeps the invariant if *)
(* the worker's new state is sound and apart from every other.              *)
LEMMA TxOnly ==
  ASSUME IInv, NEW p \in Procs, NEW t \in Tx,
         TxSound(t, numbers, orders),
         \A q \in Procs \ {p} : Apart(t, tx[q]),
         tx' = [tx EXCEPT ![p] = t],
         UNCHANGED <<orders, numbers, eligible, records, answers>>
  PROVE  IInv'
<1>1. tx \in [Procs -> Tx]
  BY Typed
<1>2. \A q \in Procs : tx'[q] = IF q = p THEN t ELSE tx[q]
  BY <1>1
<1>3. TypeOK'
  BY <1>1 DEF IInv, TypeOK
<1>4. RecordIsEffect' /\ OneAnswerPerKey' /\ \A k \in Keys : RecordOK(records'[k])
  BY DEF IInv, RecordIsEffect, OneAnswerPerKey, Definitive
<1>5. \A q \in Procs : TxSound(tx'[q], numbers', orders')
  BY <1>2 DEF IInv
<1>6. \A q, r \in Procs : q # r => Apart(tx'[q], tx'[r])
  <2> SUFFICES ASSUME NEW q \in Procs, NEW r \in Procs, q # r PROVE Apart(tx'[q], tx'[r])
    OBVIOUS
  <2>1. CASE q = p
    BY <2>1, <1>2
  <2>2. CASE r = p
    <3>1. Apart(t, tx[q])
      BY <2>2
    <3>2. Apart(tx[q], t)
      BY <3>1 DEF Apart
    <3> QED BY <2>2, <3>2, <1>2
  <2>3. CASE q # p /\ r # p
    BY <2>3, <1>2 DEF IInv
  <2> QED BY <2>1, <2>2, <2>3
<1> QED BY <1>3, <1>4, <1>5, <1>6 DEF IInv

(* A transaction that ends without an effect tells Main an answer that is   *)
(* on record or is not definitive.                                          *)
LEMMA Told ==
  ASSUME IInv, NEW p \in Procs, NEW c \in Answer, NEW n \in Numbers \cup {None},
         tx[p].step # "idle",
         \/ c \in {"IDEMPOTENCY_CONFLICT", "DEPENDENCY_UNAVAILABLE"}
         \/ records[tx[p].key] = [ref |-> tx[p].ref, code |-> c, num |-> n],
         Tell(p, c, n),
         UNCHANGED <<orders, numbers, eligible, records>>
  PROVE  IInv'
<1> DEFINE k == tx[p].key
           r == tx[p].ref
           a == [code |-> c, num |-> n]
<1>1. tx[p] \in Tx /\ k \in Keys /\ r \in Refs /\ TxSound(tx[p], numbers, orders)
  BY Typed DEF IInv, TxSound
<1>2. answers \in [Keys -> [Refs -> SUBSET Reply]] /\ a \in Reply
  BY DEF IInv, TypeOK, Reply
<1>3. answers' = [answers EXCEPT ![k][r] = @ \cup {a}] /\ tx' = [tx EXCEPT ![p] = Idle]
  BY DEF Tell
<1>4. answers' \in [Keys -> [Refs -> SUBSET Reply]]
  BY <1>1, <1>2, <1>3
<1>5. \A j \in Keys, s \in Refs :
        answers'[j][s] = IF j = k /\ s = r THEN answers[j][s] \cup {a} ELSE answers[j][s]
  BY <1>1, <1>2, <1>3
<1>6. OneAnswerPerKey'
  <2> SUFFICES ASSUME NEW j \in Keys, NEW s \in Refs, NEW b \in answers'[j][s],
                      b.code \notin {"IDEMPOTENCY_CONFLICT", "DEPENDENCY_UNAVAILABLE"}
               PROVE  records[j] = [ref |-> s, code |-> b.code, num |-> b.num]
    BY DEF OneAnswerPerKey, Definitive
  <2>1. CASE b \in answers[j][s]
    BY <2>1 DEF IInv, OneAnswerPerKey, Definitive
  <2>2. CASE b \notin answers[j][s]
    <3>1. j = k /\ s = r
      BY <2>2, <1>5
    <3>2. b \in answers[k][r] \cup {a}
      BY <3>1, <1>1, <1>5
    <3>3. b = a
      BY <3>1, <3>2, <2>2
    <3> QED BY <3>1, <3>3
  <2> QED BY <2>1, <2>2
<1>7. tx' \in [Procs -> Tx] /\ \A q \in Procs : tx'[q] = IF q = p THEN Idle ELSE tx[q]
  BY <1>3, Typed, IdleSound
<1>8. TypeOK' /\ RecordIsEffect' /\ \A j \in Keys : RecordOK(records'[j])
  BY <1>4, <1>7 DEF IInv, TypeOK, RecordIsEffect
<1>9. \A q \in Procs : TxSound(tx'[q], numbers', orders')
  BY <1>7, IdleSound DEF IInv
<1>10. \A q, s \in Procs : q # s => Apart(tx'[q], tx'[s])
  BY <1>7, IdleSound DEF IInv, Apart
<1> QED BY <1>6, <1>8, <1>9, <1>10 DEF IInv

(* Where a transaction stands while it has locked nothing. *)
LEMMA NothingLocked ==
  ASSUME NEW t, NEW u, t.locks = {}, t.code = "none"
  PROVE  Apart(t, u)
  BY DEF Apart

(* A request starts with nothing locked and nothing decided. *)
LEMMA SubmitInv ==
  ASSUME IInv, NEW p \in Procs, NEW k \in Keys, NEW r \in Refs, Submit(p, k, r)
  PROVE  IInv'
<1> DEFINE t == [Idle EXCEPT !.step = "find", !.key = k, !.ref = r]
<1>1. t \in Tx /\ TxSound(t, numbers, orders) /\ t.locks = {} /\ t.code = "none"
  BY DEF Idle, Tx, Stored, Definite, TxSound
<1>2. tx' = [tx EXCEPT ![p] = t] /\ UNCHANGED <<orders, numbers, eligible, records, answers>>
  BY DEF Submit
<1> HIDE DEF t
<1> QED BY <1>1, <1>2, NothingLocked, TxOnly

(* A worker that dies leaves nothing of its transaction behind. *)
LEMMA CrashInv ==
  ASSUME IInv, NEW p \in Procs, Crash(p)
  PROVE  IInv'
<1>1. tx' = [tx EXCEPT ![p] = Idle] /\ UNCHANGED <<orders, numbers, eligible, records, answers>>
  BY DEF Crash
<1> QED BY <1>1, IdleSound, NothingLocked, TxOnly

(* The loser of the race on the key keeps only its key and reference. *)
LEMMA LoseKeyInv ==
  ASSUME IInv, NEW p \in Procs, LoseKey(p)
  PROVE  IInv'
<1> DEFINE t == [Idle EXCEPT !.step = "replay", !.key = tx[p].key, !.ref = tx[p].ref]
<1>1. tx[p] \in Tx /\ tx[p].key \in Keys /\ tx[p].ref \in Refs
  BY Typed DEF IInv, TxSound, LoseKey
<1>2. t \in Tx /\ TxSound(t, numbers, orders) /\ t.locks = {} /\ t.code = "none"
  BY <1>1 DEF Idle, Tx, Stored, Definite, TxSound
<1>3. tx' = [tx EXCEPT ![p] = t] /\ UNCHANGED <<orders, numbers, eligible, records, answers>>
  BY DEF LoseKey
<1> HIDE DEF t
<1> QED BY <1>2, <1>3, NothingLocked, TxOnly

(* A replay tells what is on record, or a refusal. *)
LEMMA ReplayInv ==
  ASSUME IInv, NEW p \in Procs, Replay(p)
  PROVE  IInv'
<1> DEFINE rec == records[tx[p].key]
<1>1. tx[p].step # "idle" /\ tx[p].key \in Keys /\ rec # NoRecord
  BY Typed DEF IInv, TxSound, Replay
<1>2. /\ rec \in [ref : Refs \cup {None}, code : Stored, num : Numbers \cup {None}]
      /\ rec.code \in Answer
  BY <1>1, Typed DEF IInv, RecordOK, Answer, Definite
<1>3. rec = [ref |-> rec.ref, code |-> rec.code, num |-> rec.num]
  BY <1>2
<1>4. CASE SamePayload(p)
  <2>1. Tell(p, rec.code, rec.num) /\ UNCHANGED <<orders, numbers, eligible, records>>
    BY <1>4 DEF Replay
  <2>2. rec = [ref |-> tx[p].ref, code |-> rec.code, num |-> rec.num]
    BY <1>3, <1>4 DEF SamePayload
  <2> QED BY <2>1, <2>2, <1>1, <1>2, Told
<1>5. CASE ~SamePayload(p)
  <2>1. Tell(p, "IDEMPOTENCY_CONFLICT", None) /\ UNCHANGED <<orders, numbers, eligible, records>>
    BY <1>5 DEF Replay
  <2> QED BY <2>1, <1>1, Told DEF Answer, Definite
<1> QED BY <1>4, <1>5

(* Finding no record changes only where the transaction stands. *)
LEMMA FindNothingInv ==
  ASSUME IInv, NEW p \in Procs, FindNothing(p)
  PROVE  IInv'
<1> DEFINE t == [tx[p] EXCEPT !.step = "lock"]
<1>1. tx[p] \in Tx /\ tx[p].step = "find" /\ TxSound(tx[p], numbers, orders)
  BY Typed DEF IInv, FindNothing
<1>2. t \in Tx /\ TxSound(t, numbers, orders) /\ t.locks = tx[p].locks /\ t.code = tx[p].code
      /\ t.ref = tx[p].ref
  BY <1>1 DEF Tx, TxSound
<1>3. \A q \in Procs \ {p} : Apart(t, tx[q])
  BY <1>2 DEF IInv, Apart
<1>4. tx' = [tx EXCEPT ![p] = t] /\ UNCHANGED <<orders, numbers, eligible, records, answers>>
  BY DEF FindNothing, Goto
<1> HIDE DEF t
<1> QED BY <1>2, <1>3, <1>4, TxOnly

(* The rows a transaction locks are unsold and locked by nobody. *)
LEMMA LockBatchInv ==
  ASSUME IInv, NEW p \in Procs, LockBatch(p)
  PROVE  IInv'
<1> DEFINE t == [tx[p] EXCEPT !.step = IF Batch = {} THEN "present" ELSE "select",
                              !.locks = Batch]
<1>1. tx[p] \in Tx /\ tx[p].step = "lock" /\ TxSound(tx[p], numbers, orders)
  BY Typed DEF IInv, LockBatch
<1>2. /\ Batch \in SUBSET Numbers
      /\ \A n \in Batch : numbers[n] = Unsold /\ \A q \in Procs : n \notin tx[q].locks
  BY DEF Batch, Free, Locked
<1>3. t \in Tx
  BY <1>1, <1>2 DEF Tx
<1>4. t.locks = Batch /\ t.code = "none" /\ TxSound(t, numbers, orders)
  BY <1>1, <1>2 DEF Tx, TxSound
<1>5. \A q \in Procs \ {p} : Apart(t, tx[q])
  BY <1>2, <1>4 DEF Apart
<1>6. tx' = [tx EXCEPT ![p] = t] /\ UNCHANGED <<orders, numbers, eligible, records, answers>>
  BY DEF LockBatch
<1> HIDE DEF t
<1> QED BY <1>3, <1>4, <1>5, <1>6, TxOnly

(* Contention is told and rolled back; an empty dimension is decided. *)
LEMMA CheckPresentInv ==
  ASSUME IInv, NEW p \in Procs, CheckPresent(p)
  PROVE  IInv'
<1>1. tx[p] \in Tx /\ tx[p].step = "present" /\ TxSound(tx[p], numbers, orders)
  BY Typed DEF IInv, CheckPresent
<1>2. CASE \E n \in Numbers : numbers[n] = Unsold
  <2>1. Tell(p, "DEPENDENCY_UNAVAILABLE", None) /\ UNCHANGED <<orders, numbers, eligible, records>>
    BY <1>2 DEF CheckPresent
  <2> QED BY <2>1, <1>1, Told DEF Answer, Definite
<1>3. CASE ~ \E n \in Numbers : numbers[n] = Unsold
  <2> DEFINE t == [tx[p] EXCEPT !.step = "insert", !.code = "OUT_OF_STOCK"]
  <2>1. t \in Tx /\ TxSound(t, numbers, orders) /\ t.locks = tx[p].locks /\ t.code # "order"
    BY <1>1 DEF Tx, Stored, Definite, TxSound
  <2>2. \A q \in Procs \ {p} : Apart(t, tx[q])
    BY <2>1 DEF IInv, Apart
  <2>3. tx' = [tx EXCEPT ![p] = t] /\ UNCHANGED <<orders, numbers, eligible, records, answers>>
    BY <1>3 DEF CheckPresent
  <2> HIDE DEF t
  <2> QED BY <2>1, <2>2, <2>3, TxOnly
<1> QED BY <1>2, <1>3

(* The pick is one of the rows the transaction locked. *)
LEMMA SelectInv ==
  ASSUME IInv, NEW p \in Procs, Select(p)
  PROVE  IInv'
<1>1. tx[p] \in Tx /\ tx[p].step = "select" /\ TxSound(tx[p], numbers, orders)
  BY Typed DEF IInv, Select
<1>2. UNCHANGED <<orders, numbers, eligible, records, answers>>
  BY DEF Select
<1>3. CASE tx' = [tx EXCEPT ![p] = [@ EXCEPT !.step = "insert", !.code = "OUT_OF_STOCK"]]
  <2> DEFINE t == [tx[p] EXCEPT !.step = "insert", !.code = "OUT_OF_STOCK"]
  <2>1. t \in Tx /\ TxSound(t, numbers, orders) /\ t.locks = tx[p].locks /\ t.code # "order"
    BY <1>1 DEF Tx, Stored, Definite, TxSound
  <2>2. \A q \in Procs \ {p} : Apart(t, tx[q])
    BY <2>1 DEF IInv, Apart
  <2>3. tx' = [tx EXCEPT ![p] = t]
    BY <1>3
  <2> HIDE DEF t
  <2> QED BY <1>2, <2>1, <2>2, <2>3, TxOnly
<1>4. CASE \E n \in Numbers :
             /\ IsLowest(n, {m \in tx[p].locks : eligible[m]})
             /\ tx' = [tx EXCEPT ![p] = [@ EXCEPT !.step = "create", !.pick = n]]
  <2>1. PICK n \in Numbers :
             /\ IsLowest(n, {m \in tx[p].locks : eligible[m]})
             /\ tx' = [tx EXCEPT ![p] = [@ EXCEPT !.step = "create", !.pick = n]]
    BY <1>4
  <2> DEFINE t == [tx[p] EXCEPT !.step = "create", !.pick = n]
  <2>2. n \in tx[p].locks
    BY <2>1 DEF IsLowest
  <2>3. t \in Tx /\ TxSound(t, numbers, orders) /\ t.locks = tx[p].locks /\ t.code # "order"
    BY <1>1, <2>2 DEF Tx, TxSound
  <2>4. \A q \in Procs \ {p} : Apart(t, tx[q])
    BY <2>3 DEF IInv, Apart
  <2>5. tx' = [tx EXCEPT ![p] = t]
    BY <2>1
  <2> HIDE DEF t
  <2> QED BY <1>2, <2>3, <2>4, <2>5, TxOnly
<1> QED BY <1>3, <1>4 DEF Select

(* An order is created under a reference that no row and no other           *)
(* transaction has.                                                         *)
LEMMA CreateOrderInv ==
  ASSUME IInv, NEW p \in Procs, CreateOrder(p)
  PROVE  IInv'
<1>1. tx[p] \in Tx /\ tx[p].step = "create" /\ TxSound(tx[p], numbers, orders) /\ ~RefPending(p)
  BY Typed DEF IInv, CreateOrder
<1>2. UNCHANGED <<orders, numbers, eligible, records, answers>>
  BY DEF CreateOrder
<1>3. CASE orders[tx[p].ref] = NoOrder
  <2> DEFINE t == [tx[p] EXCEPT !.step = "insert", !.code = "order"]
  <2>1. /\ t \in Tx /\ TxSound(t, numbers, orders)
        /\ t.locks = tx[p].locks /\ t.ref = tx[p].ref
    BY <1>1, <1>3 DEF Tx, Stored, Definite, TxSound
  <2>2. \A q \in Procs \ {p} : Apart(t, tx[q])
    BY <1>1, <2>1 DEF IInv, Apart, RefPending
  <2>3. tx' = [tx EXCEPT ![p] = t]
    BY <1>3 DEF CreateOrder
  <2> HIDE DEF t
  <2> QED BY <1>2, <2>1, <2>2, <2>3, TxOnly
<1>4. CASE orders[tx[p].ref] # NoOrder
  <2> DEFINE t == [tx[p] EXCEPT !.step = "insert", !.code = "BUYER_ORDER_REF_CONFLICT",
                                !.aborted = TRUE]
  <2>1. t \in Tx /\ t.locks = tx[p].locks /\ t.code # "order"
    BY <1>1 DEF Tx, Stored, Definite
  <2>2. TxSound(t, numbers, orders)
    BY <1>1 DEF Tx, TxSound
  <2>3. \A q \in Procs \ {p} : Apart(t, tx[q])
    BY <2>1 DEF IInv, Apart
  <2>4. tx' = [tx EXCEPT ![p] = t]
    BY <1>4 DEF CreateOrder
  <2> HIDE DEF t
  <2> QED BY <1>2, <2>1, <2>2, <2>3, <2>4, TxOnly
<1> QED BY <1>3, <1>4

(* An early refusal is decided, and a missing configuration told, before    *)
(* anything is locked.                                                      *)
LEMMA RefuseEarlyInv ==
  ASSUME IInv, NEW p \in Procs, RefuseEarly(p)
  PROVE  IInv'
<1>1. tx[p] \in Tx /\ tx[p].step = "lock" /\ TxSound(tx[p], numbers, orders)
  BY Typed DEF IInv, RefuseEarly
<1>2. UNCHANGED <<orders, numbers, eligible, records>>
  BY DEF RefuseEarly
<1>3. CASE Tell(p, "DEPENDENCY_UNAVAILABLE", None)
  BY <1>1, <1>2, <1>3, Told DEF Answer, Definite
<1>4. ASSUME NEW c \in EarlyRefusal, UNCHANGED answers,
             tx' = [tx EXCEPT ![p] = [@ EXCEPT !.step = "insert", !.code = c]]
      PROVE  IInv'
  <2> DEFINE t == [tx[p] EXCEPT !.step = "insert", !.code = c]
  <2>1. t \in Tx /\ t.locks = tx[p].locks /\ t.code \notin {"order", "none"}
    BY <1>1, ReservationAssumption DEF Tx, Stored, Definite
  <2>2. TxSound(t, numbers, orders)
    BY <1>1, ReservationAssumption DEF Tx, TxSound
  <2>3. \A q \in Procs \ {p} : Apart(t, tx[q])
    BY <2>1 DEF IInv, Apart
  <2>4. tx' = [tx EXCEPT ![p] = t]
    BY <1>4
  <2> HIDE DEF t
  <2> QED BY <1>2, <1>4, <2>1, <2>2, <2>3, <2>4, TxOnly
<1> QED BY <1>3, <1>4 DEF RefuseEarly

(* An aborted transaction tells a retryable error. *)
LEMMA InsertRefusedInv ==
  ASSUME IInv, NEW p \in Procs, InsertRefused(p)
  PROVE  IInv'
  BY Told DEF InsertRefused, Answer, Definite

(* The commit: record, order and number appear together.                    *)
LEMMA CommitInv ==
  ASSUME IInv, NEW p \in Procs, Commit(p)
  PROVE  IInv'
<1> DEFINE t == tx[p]
           k == tx[p].key
           r == tx[p].ref
           rec == [ref |-> r, code |-> t.code, num |-> t.pick]
           Published ==
             /\ orders' \in [Refs -> [key : Keys \cup {None}, num : Numbers \cup {None}]]
             /\ numbers' \in [Numbers -> Refs \cup {Unsold}]
             /\ RecordIsEffect'
             /\ \A q \in Procs \ {p} : TxSound(tx[q], numbers', orders')
<1>1. /\ t \in Tx /\ TxSound(t, numbers, orders) /\ k \in Keys /\ r \in Refs
      /\ t.code \in {"order", "OUT_OF_STOCK"} \cup EarlyRefusal /\ t.pick \in Numbers \cup {None}
      /\ records[k] = NoRecord
  BY Typed DEF IInv, TxSound, Commit, Tx, Stored, Definite
<1>2. /\ records' = [records EXCEPT ![k] = rec]
      /\ Tell(p, t.code, t.pick)
      /\ UNCHANGED eligible
  BY DEF Commit
<1>3. records' \in [Keys -> [ref : Refs \cup {None}, code : Stored, num : Numbers \cup {None}]]
  BY <1>1, <1>2 DEF IInv, TypeOK, Stored, Definite
<1>4. \A j \in Keys : records'[j] = IF j = k THEN rec ELSE records[j]
  BY <1>1, <1>2 DEF IInv, TypeOK
<1>5. tx' \in [Procs -> Tx] /\ \A q \in Procs : tx'[q] = IF q = p THEN Idle ELSE tx[q]
  BY <1>2, Typed, IdleSound DEF Tell
<1>6. ASSUME t.code = "order" PROVE Published
  <2>1. /\ orders' = [orders EXCEPT ![r] = [key |-> k, num |-> t.pick]]
        /\ numbers' = [numbers EXCEPT ![t.pick] = r]
    BY <1>6 DEF Commit
  <2>2. t.pick \in t.locks /\ t.pick \in Numbers /\ orders[r] = NoOrder
    BY <1>1, <1>6 DEF TxSound, Tx
  <2>3. /\ orders' \in [Refs -> [key : Keys \cup {None}, num : Numbers \cup {None}]]
        /\ numbers' \in [Numbers -> Refs \cup {Unsold}]
    BY <1>1, <2>1, <2>2 DEF IInv, TypeOK
  <2>4. /\ \A s \in Refs : orders'[s] = IF s = r THEN [key |-> k, num |-> t.pick] ELSE orders[s]
        /\ \A n \in Numbers : numbers'[n] = IF n = t.pick THEN r ELSE numbers[n]
    BY <1>1, <2>1, <2>2 DEF IInv, TypeOK
  <2>5. \A q \in Procs \ {p} : TxSound(tx[q], numbers', orders')
    <3> SUFFICES ASSUME NEW q \in Procs \ {p} PROVE TxSound(tx[q], numbers', orders')
      OBVIOUS
    <3>1. tx[q] \in Tx /\ TxSound(tx[q], numbers, orders) /\ Apart(tx[p], tx[q])
      BY Typed DEF IInv
    <3>2. t.pick \notin tx[q].locks
      BY <2>2, <3>1 DEF Apart
    <3>3. tx[q].code = "order" => tx[q].ref \in Refs /\ tx[q].ref # r
      BY <1>6, <3>1 DEF Apart, TxSound
    <3> QED BY <2>4, <3>1, <3>2, <3>3 DEF TxSound, Tx
  <2>6. RecordIsEffect'
    <3> SUFFICES ASSUME NEW j \in Keys, NEW s \in Refs, NEW n \in Numbers
                 PROVE  orders'[s] = [key |-> j, num |-> n]
                          <=> records'[j] = [ref |-> s, code |-> "order", num |-> n]
      BY DEF RecordIsEffect
    <3>0. orders[s] = [key |-> j, num |-> n]
            <=> records[j] = [ref |-> s, code |-> "order", num |-> n]
      BY DEF IInv, RecordIsEffect
    <3>1. CASE j = k /\ s = r
      BY <3>1, <1>4, <1>6, <2>4
    <3>2. CASE j = k /\ s # r
      BY <3>0, <3>2, <1>1, <1>4, <2>4 DEF NoRecord
    <3>3. CASE j # k /\ s = r
      BY <3>0, <3>3, <1>4, <2>2, <2>4, ReservationAssumption DEF NoOrder
    <3>4. CASE j # k /\ s # r
      BY <3>0, <3>4, <1>4, <2>4
    <3> QED BY <3>1, <3>2, <3>3, <3>4
  <2> QED BY <2>3, <2>5, <2>6
<1>7. ASSUME t.code # "order" PROVE Published
  <2>1. UNCHANGED <<orders, numbers>>
    BY <1>7 DEF Commit
  <2>2. RecordIsEffect'
    <3> SUFFICES ASSUME NEW j \in Keys, NEW s \in Refs, NEW n \in Numbers
                 PROVE  orders'[s] = [key |-> j, num |-> n]
                          <=> records'[j] = [ref |-> s, code |-> "order", num |-> n]
      BY DEF RecordIsEffect
    <3>0. orders[s] = [key |-> j, num |-> n]
            <=> records[j] = [ref |-> s, code |-> "order", num |-> n]
      BY DEF IInv, RecordIsEffect
    <3>1. CASE j = k
      BY <3>0, <3>1, <1>1, <1>4, <1>7, <2>1 DEF NoRecord
    <3>2. CASE j # k
      BY <3>0, <3>2, <1>4, <2>1
    <3> QED BY <3>1, <3>2
  <2>3. \A q \in Procs \ {p} : TxSound(tx[q], numbers', orders')
    BY <2>1 DEF IInv
  <2>4. /\ orders' \in [Refs -> [key : Keys \cup {None}, num : Numbers \cup {None}]]
        /\ numbers' \in [Numbers -> Refs \cup {Unsold}]
    BY <2>1 DEF IInv, TypeOK
  <2> QED BY <2>2, <2>3, <2>4
<1>8. Published
  BY <1>6, <1>7
<1>9. answers' = [answers EXCEPT ![k][r] = @ \cup {[code |-> t.code, num |-> t.pick]}]
  BY <1>2 DEF Tell
<1>10. [code |-> t.code, num |-> t.pick] \in Reply
  BY <1>1 DEF Reply, Answer, Definite
<1>11. answers' \in [Keys -> [Refs -> SUBSET Reply]]
  BY <1>1, <1>9, <1>10 DEF IInv, TypeOK
<1>12. \A j \in Keys, s \in Refs :
         answers'[j][s] = IF j = k /\ s = r
                          THEN answers[j][s] \cup {[code |-> t.code, num |-> t.pick]}
                          ELSE answers[j][s]
  BY <1>1, <1>9 DEF IInv, TypeOK
<1>13. OneAnswerPerKey'
  <2> SUFFICES ASSUME NEW j \in Keys, NEW s \in Refs, NEW b \in answers'[j][s],
                      b.code \notin {"IDEMPOTENCY_CONFLICT", "DEPENDENCY_UNAVAILABLE"}
               PROVE  records'[j] = [ref |-> s, code |-> b.code, num |-> b.num]
    BY DEF OneAnswerPerKey, Definitive
  <2>1. CASE b \in answers[j][s]
    <3>1. records[j] = [ref |-> s, code |-> b.code, num |-> b.num]
      BY <2>1 DEF IInv, OneAnswerPerKey, Definitive
    <3>2. j # k
      <4>1. b.code \in Answer
        BY <2>1 DEF IInv, TypeOK, Reply
      <4>2. records[j].code # "none"
        BY <3>1, <4>1, ReservationAssumption DEF Answer, Definite
      <4> QED BY <4>2, <1>1 DEF NoRecord
    <3> QED BY <3>1, <3>2, <1>4
  <2>2. CASE b \notin answers[j][s]
    <3>1. j = k /\ s = r
      BY <2>2, <1>12
    <3>2. b \in answers[k][r] \cup {[code |-> t.code, num |-> t.pick]}
      BY <3>1, <1>1, <1>12
    <3>3. b = [code |-> t.code, num |-> t.pick]
      BY <3>1, <3>2, <2>2
    <3> QED BY <3>1, <3>3, <1>4
  <2> QED BY <2>1, <2>2
<1>14. \A j \in Keys : RecordOK(records'[j])
  <2>1. RecordOK(rec)
    BY <1>1 DEF RecordOK, TxSound
  <2> QED BY <2>1, <1>4 DEF IInv
<1>15. \A q \in Procs : TxSound(tx'[q], numbers', orders')
  BY <1>5, <1>8, IdleSound
<1>16. \A q, s \in Procs : q # s => Apart(tx'[q], tx'[s])
  BY <1>5, IdleSound DEF IInv, Apart
<1>17. TypeOK'
  BY <1>2, <1>3, <1>5, <1>8, <1>11 DEF IInv, TypeOK
<1> QED BY <1>8, <1>13, <1>14, <1>15, <1>16, <1>17 DEF IInv

(* A number is freed when an order has it, so no transaction has its row.   *)
LEMMA FreedInv ==
  ASSUME IInv, NEW n \in Numbers, NumberFreed(n)
  PROVE  IInv'
<1>1. /\ numbers[n] # Unsold /\ numbers' = [numbers EXCEPT ![n] = Unsold]
      /\ UNCHANGED <<orders, eligible, records, answers, tx>>
  BY DEF NumberFreed
<1>2. numbers' \in [Numbers -> Refs \cup {Unsold}]
  BY <1>1 DEF IInv, TypeOK
<1>3. \A m \in Numbers : numbers'[m] = IF m = n THEN Unsold ELSE numbers[m]
  BY <1>1 DEF IInv, TypeOK
<1>4. \A q \in Procs : TxSound(tx'[q], numbers', orders')
  <2> SUFFICES ASSUME NEW q \in Procs PROVE TxSound(tx[q], numbers', orders)
    BY <1>1
  <2>1. tx[q] \in Tx /\ TxSound(tx[q], numbers, orders)
    BY Typed DEF IInv
  <2> QED BY <2>1, <1>3 DEF TxSound, Tx
<1>5. TypeOK' /\ RecordIsEffect' /\ OneAnswerPerKey'
  BY <1>1, <1>2 DEF IInv, TypeOK, RecordIsEffect, OneAnswerPerKey, Definitive
<1> QED BY <1>1, <1>4, <1>5 DEF IInv

(* The invariant does not read what the eligibility filter says. *)
LEMMA EligInv ==
  ASSUME IInv, NEW n \in Numbers, EligibilityChanges(n)
  PROVE  IInv'
<1>1. eligible' \in [Numbers -> BOOLEAN] /\ UNCHANGED <<orders, numbers, records, answers, tx>>
  BY DEF EligibilityChanges, IInv, TypeOK
<1> QED BY <1>1 DEF IInv, TypeOK, RecordIsEffect, OneAnswerPerKey, Definitive

(* At the start nothing is sold, recorded or told.                          *)
LEMMA InitInv == Init => IInv
<1> SUFFICES ASSUME Init PROVE IInv
  OBVIOUS
<1>1. TypeOK
  BY IdleSound DEF Init, TypeOK, NoOrder, NoRecord, Stored, Definite
<1>2. RecordIsEffect
  BY ReservationAssumption DEF Init, RecordIsEffect, NoOrder, NoRecord
<1>3. OneAnswerPerKey
  BY DEF Init, OneAnswerPerKey, Definitive
<1>4. \A k \in Keys : RecordOK(records[k])
  BY DEF Init, RecordOK
<1>5. \A p \in Procs : TxSound(tx[p], numbers, orders)
  BY IdleSound DEF Init
<1>6. \A p, q \in Procs : p # q => Apart(tx[p], tx[q])
  BY IdleSound DEF Init, Apart
<1> QED BY <1>1, <1>2, <1>3, <1>4, <1>5, <1>6 DEF IInv

(* Every step keeps the invariant.                                          *)
LEMMA NextInv == IInv /\ [Next]_vars => IInv'
<1> SUFFICES ASSUME IInv, [Next]_vars PROVE IInv'
  OBVIOUS
<1>1. CASE UNCHANGED vars
  BY <1>1 DEF vars, IInv, TypeOK, RecordIsEffect, OneAnswerPerKey, Definitive
<1>2. ASSUME NEW p \in Procs, NEW k \in Keys, NEW r \in Refs, Submit(p, k, r) PROVE IInv'
  BY <1>2, SubmitInv
<1>3. ASSUME NEW p \in Procs, Work(p) PROVE IInv'
  BY <1>3, ReplayInv, FindNothingInv, RefuseEarlyInv, LockBatchInv, CheckPresentInv, SelectInv,
     CreateOrderInv, CommitInv, LoseKeyInv, InsertRefusedInv DEF Work
<1>4. ASSUME NEW p \in Procs, Crash(p) PROVE IInv'
  BY <1>4, CrashInv
<1>5. ASSUME NEW n \in Numbers, NumberFreed(n) \/ EligibilityChanges(n) PROVE IInv'
  BY <1>5, FreedInv, EligInv
<1> QED BY <1>1, <1>2, <1>3, <1>4, <1>5 DEF Next

(* The inductive invariant holds throughout: transactions hold distinct     *)
(* unsold rows and orders under distinct unused references, so a commit     *)
(* never meets another's effect.                                            *)
THEOREM Invariance == Spec => []IInv
<1>1. Init => IInv
  BY InitInv
<1>2. IInv /\ [Next]_vars => IInv'
  BY NextInv
<1> QED BY <1>1, <1>2, PTL DEF Spec

(* The reserve operation's state keeps its types, so no retryable answer is *)
(* ever put on record.                                                      *)
THEOREM TypeCorrect == Spec => []TypeOK
<1>1. IInv => TypeOK
  BY DEF IInv
<1> QED BY <1>1, Invariance, PTL

(* executeIdempotent commits an effect and its record as one.               *)
THEOREM EffectRecorded == Spec => []RecordIsEffect
<1>1. IInv => RecordIsEffect
  BY DEF IInv
<1> QED BY <1>1, Invariance, PTL

(* However a key is retried, Main hears one definitive answer for it.       *)
THEOREM AnsweredOnce == Spec => []OneAnswerPerKey
<1>1. IInv => OneAnswerPerKey
  BY DEF IInv
<1> QED BY <1>1, Invariance, PTL

(* A step sells only an unsold number and frees only a sold one.            *)
LEMMA NumberStep ==
  ASSUME IInv, [Next]_vars, NEW n \in Numbers, numbers'[n] # numbers[n]
  PROVE  Unsold \in {numbers[n], numbers'[n]}
<1>1. CASE \E p \in Procs : Commit(p)
  <2>1. PICK p \in Procs : Commit(p)
    BY <1>1
  <2>2. tx[p].code = "order"
    BY <2>1 DEF Commit
  <2>3. numbers' = [numbers EXCEPT ![tx[p].pick] = tx[p].ref]
    BY <2>1, <2>2 DEF Commit
  <2>4. tx[p] \in Tx /\ TxSound(tx[p], numbers, orders)
    BY Typed DEF IInv
  <2>5. tx[p].pick \in tx[p].locks /\ tx[p].step = "insert"
    BY <2>1, <2>2, <2>4 DEF TxSound, Tx, Commit
  <2>6. numbers[tx[p].pick] = Unsold
    BY <2>4, <2>5 DEF TxSound, Tx
  <2>7. n = tx[p].pick
    BY <2>3 DEF IInv, TypeOK
  <2> QED BY <2>6, <2>7
<1>2. CASE \E m \in Numbers : NumberFreed(m)
  <2>1. PICK m \in Numbers : numbers' = [numbers EXCEPT ![m] = Unsold]
    BY <1>2 DEF NumberFreed
  <2> QED BY <2>1 DEF IInv, TypeOK
<1>3. CASE UNCHANGED numbers
  BY <1>3
<1> QED BY <1>1, <1>2, <1>3
        DEF Next, vars, Work, Submit, Replay, FindNothing, RefuseEarly, LockBatch, CheckPresent, Select,
            CreateOrder, LoseKey, InsertRefused, Crash, EligibilityChanges

(* lockSelectableNumbers and the commit: no number goes to two references.  *)
THEOREM NeverSoldTwice == Spec => SoldToOne
<1>1. IInv /\ [Next]_vars =>
        \A n \in Numbers : numbers'[n] # numbers[n] => Unsold \in {numbers[n], numbers'[n]}
  BY NumberStep
<1>2. IInv' => \A p, q \in Procs : p # q => tx'[p].locks \cap tx'[q].locks = {}
  BY DEF IInv, Apart
<1> QED BY <1>1, <1>2, Invariance, PTL DEF Spec, SoldToOne
===============================================================================
