------------------------------ MODULE Reservation ------------------------------
(***************************************************************************)
(* The reserve operation of the Internal API under retries: Main sends a    *)
(* request under an Idempotency-Key, repeats it when it hears nothing, and  *)
(* several workers run the repeats at once.  The engine wraps the effect:   *)
(* find the key's record, run the effect, insert the record, all in one     *)
(* transaction; a lost race on the key is answered from the winner's record.*)
(*                                                                         *)
(* The effect locks a batch of available numbers (FOR UPDATE SKIP LOCKED,   *)
(* by id, at most LockLimit), filters it by the eligibility rule, creates   *)
(* the order (whose buyer reference is unique) and binds the number.  What  *)
(* a transaction wrote is seen by others when it commits; a unique key it   *)
(* wrote makes others that need it wait until it ends; a violated one       *)
(* aborts the transaction, so every later statement of it fails.            *)
(*                                                                         *)
(* Abstractions.  One catalog dimension and quote version, either of which  *)
(* may be found withdrawn at any time, as may the configuration; the        *)
(* payload is the buyer reference; eligible[n] stands for what the filter reads of     *)
(* device, partner and offer; "created" and "reserved" never commit.        *)
(***************************************************************************)
EXTENDS Naturals, FiniteSets

CONSTANTS
  Keys,       \* Idempotency-Keys
  Refs,       \* buyer order references
  Numbers,    \* number ids, ordered
  Procs,      \* workers
  None,
  LockLimit,  \* RESERVE_LOCK_LIMIT
  EarlyRefusal \* answers before any lock: CATALOG_UNAVAILABLE, QUOTE_EXPIRED

ASSUME ReservationAssumption ==
  /\ Numbers \subseteq Nat /\ LockLimit \in Nat \ {0}
  /\ None \notin Keys \cup Refs \cup Numbers
  /\ EarlyRefusal \cap {"none", "order", "OUT_OF_STOCK", "BUYER_ORDER_REF_CONFLICT",
                       "IDEMPOTENCY_CONFLICT", "DEPENDENCY_UNAVAILABLE"} = {}

VARIABLES
  orders,    \* partner_orders by reference: the key it was made under, its number
  numbers,   \* partner_numbers: available, or the reference of the order it serves
  eligible,  \* what the eligibility filter says of a number
  records,   \* idempotency_records by key
  answers,   \* what Main has been told, per key and reference
  tx         \* the transaction each worker is running

vars == <<orders, numbers, eligible, records, answers, tx>>

Unsold == "available"
Definite == {"order", "OUT_OF_STOCK", "BUYER_ORDER_REF_CONFLICT"} \cup EarlyRefusal
Stored == Definite \cup {"none"}
Answer == Definite \cup {"IDEMPOTENCY_CONFLICT", "DEPENDENCY_UNAVAILABLE"}
Reply == [code : Answer, num : Numbers \cup {None}]

(* A transaction: its key and reference, the rows it locks, the number it   *)
(* picked, what it decided to answer and whether the database aborted it.   *)
Tx == [step : {"idle", "find", "lock", "present", "select", "create", "insert", "replay"},
       key : Keys \cup {None}, ref : Refs \cup {None},
       locks : SUBSET Numbers, pick : Numbers \cup {None},
       code : Stored, aborted : BOOLEAN]

Idle == [step |-> "idle", key |-> None, ref |-> None, locks |-> {}, pick |-> None,
         code |-> "none", aborted |-> FALSE]

NoOrder == [key |-> None, num |-> None]
NoRecord == [ref |-> None, code |-> "none", num |-> None]

Init ==
  /\ orders = [r \in Refs |-> NoOrder]
  /\ numbers = [n \in Numbers |-> Unsold]
  /\ eligible \in [Numbers -> BOOLEAN]
  /\ records = [k \in Keys |-> NoRecord]
  /\ answers = [k \in Keys |-> [r \in Refs |-> {}]]
  /\ tx = [p \in Procs |-> Idle]

-------------------------------------------------------------------------------
Locked(n) == \E q \in Procs : n \in tx[q].locks

Goto(p, step) == tx' = [tx EXCEPT ![p].step = step]

(* The worker answers and its transaction is over. *)
Tell(p, code, num) ==
  /\ answers' = [answers EXCEPT ![tx[p].key][tx[p].ref] =
                   @ \cup {[code |-> code, num |-> num]}]
  /\ tx' = [tx EXCEPT ![p] = Idle]

(* Main sends a request, or sends it again. *)
Submit(p, k, r) ==
  /\ tx[p].step = "idle"
  /\ tx' = [tx EXCEPT ![p] = [Idle EXCEPT !.step = "find", !.key = k, !.ref = r]]
  /\ UNCHANGED <<orders, numbers, eligible, records, answers>>

(* decideIdempotency: the stored request hash is this request's. *)
SamePayload(p) == records[tx[p].key].ref = tx[p].ref

(* The key's record decides: replay it, or refuse another payload. *)
Replay(p) ==
  LET rec == records[tx[p].key] IN
  /\ tx[p].step \in {"find", "replay"}
  /\ rec # NoRecord
  /\ IF SamePayload(p) THEN Tell(p, rec.code, rec.num)
                       ELSE Tell(p, "IDEMPOTENCY_CONFLICT", None)
  /\ UNCHANGED <<orders, numbers, eligible, records>>

FindNothing(p) ==
  /\ tx[p].step = "find"
  /\ records[tx[p].key] = NoRecord
  /\ Goto(p, "lock")
  /\ UNCHANGED <<orders, numbers, eligible, records, answers>>

(* What is read before any lock refuses: a dimension no longer served or a  *)
(* quote version superseded (a definitive answer, put on record), or no     *)
(* configuration at all (nothing is recorded).                              *)
RefuseEarly(p) ==
  /\ tx[p].step = "lock"
  /\ \/ \E c \in EarlyRefusal :
          /\ tx' = [tx EXCEPT ![p] = [@ EXCEPT !.step = "insert", !.code = c]]
          /\ UNCHANGED answers
     \/ Tell(p, "DEPENDENCY_UNAVAILABLE", None)
  /\ UNCHANGED <<orders, numbers, eligible, records>>

(* Mutant: rows locked by another transaction are taken all the same. *)
FreeIgnoringLocks == {n \in Numbers : numbers[n] = Unsold}

Free == {n \in Numbers : numbers[n] = Unsold /\ ~Locked(n)}

(* The free numbers the LIMIT leaves in, by id. *)
Batch == {n \in Free : Cardinality({m \in Free : m < n}) < LockLimit}

LockBatch(p) ==
  /\ tx[p].step = "lock"
  /\ tx' = [tx EXCEPT ![p] = [@ EXCEPT !.step = IF Batch = {} THEN "present" ELSE "select",
                                       !.locks = Batch]]
  /\ UNCHANGED <<orders, numbers, eligible, records, answers>>

(* Nothing could be locked: an unlocked read tells contention (roll back,   *)
(* retryable) from a dimension with nothing available (a definitive answer).*)
CheckPresent(p) ==
  /\ tx[p].step = "present"
  /\ IF \E n \in Numbers : numbers[n] = Unsold
     THEN Tell(p, "DEPENDENCY_UNAVAILABLE", None)
     ELSE /\ tx' = [tx EXCEPT ![p] = [@ EXCEPT !.step = "insert", !.code = "OUT_OF_STOCK"]]
          /\ UNCHANGED answers
  /\ UNCHANGED <<orders, numbers, eligible, records>>

IsLowest(n, S) == n \in S /\ \A m \in S : n <= m

(* The eligible number with the lowest id, or a stockout. *)
Select(p) ==
  LET E == {n \in tx[p].locks : eligible[n]} IN
  /\ tx[p].step = "select"
  /\ \/ /\ E = {}
        /\ tx' = [tx EXCEPT ![p] = [@ EXCEPT !.step = "insert", !.code = "OUT_OF_STOCK"]]
     \/ \E n \in Numbers :
          /\ IsLowest(n, E)
          /\ tx' = [tx EXCEPT ![p] = [@ EXCEPT !.step = "create", !.pick = n]]
  /\ UNCHANGED <<orders, numbers, eligible, records, answers>>

(* Mutant: an order that is not committed yet does not hold its reference. *)
RefPendingNever(p) == FALSE

(* Another transaction has created an order with this reference. *)
RefPending(p) ==
  \E q \in Procs \ {p} : tx[q].code = "order" /\ tx[q].ref = tx[p].ref

(* The order row: a used reference violates its unique index, and the       *)
(* service answers a conflict in a transaction that can write no more.      *)
CreateOrder(p) ==
  /\ tx[p].step = "create"
  /\ ~RefPending(p)
  /\ tx' = [tx EXCEPT ![p] =
              IF orders[tx[p].ref] = NoOrder
              THEN [@ EXCEPT !.step = "insert", !.code = "order"]
              ELSE [@ EXCEPT !.step = "insert", !.code = "BUYER_ORDER_REF_CONFLICT",
                             !.aborted = TRUE]]
  /\ UNCHANGED <<orders, numbers, eligible, records, answers>>

(* The record is inserted last, and the commit publishes effect and record. *)
Commit(p) ==
  LET t == tx[p] IN
  /\ t.step = "insert" /\ ~t.aborted
  /\ records[t.key] = NoRecord
  /\ records' = [records EXCEPT ![t.key] = [ref |-> t.ref, code |-> t.code, num |-> t.pick]]
  /\ IF t.code = "order"
     THEN /\ orders' = [orders EXCEPT ![t.ref] = [key |-> t.key, num |-> t.pick]]
          /\ numbers' = [numbers EXCEPT ![t.pick] = t.ref]
     ELSE UNCHANGED <<orders, numbers>>
  /\ Tell(p, t.code, t.pick)
  /\ UNCHANGED eligible

(* Mutant: the loser of the race on the key answers with its own result. *)
LoseKeyAnswering(p) ==
  LET t == tx[p] IN
  /\ t.step = "insert" /\ ~t.aborted
  /\ records[t.key] # NoRecord
  /\ Tell(p, t.code, t.pick)
  /\ UNCHANGED <<orders, numbers, eligible, records>>

(* Another transaction committed the key first: everything is rolled back   *)
(* and its record is read in a transaction of its own.                      *)
LoseKey(p) ==
  LET t == tx[p] IN
  /\ t.step = "insert" /\ ~t.aborted
  /\ records[t.key] # NoRecord
  /\ tx' = [tx EXCEPT ![p] = [Idle EXCEPT !.step = "replay", !.key = t.key, !.ref = t.ref]]
  /\ UNCHANGED <<orders, numbers, eligible, records, answers>>

(* The insert fails because the transaction is aborted. *)
InsertRefused(p) ==
  /\ tx[p].step = "insert" /\ tx[p].aborted
  /\ Tell(p, "DEPENDENCY_UNAVAILABLE", None)
  /\ UNCHANGED <<orders, numbers, eligible, records>>

(* The worker dies or the transaction times out: Main hears nothing, or a   *)
(* retryable error, and nothing was written.                                *)
Crash(p) ==
  /\ tx[p].step # "idle"
  /\ tx' = [tx EXCEPT ![p] = Idle]
  /\ UNCHANGED <<orders, numbers, eligible, records, answers>>

-------------------------------------------------------------------------------
(* The rest of the system: orders end and give their number back, devices   *)
(* come and go, partners and offers change.                                 *)
NumberFreed(n) ==
  /\ numbers[n] # Unsold
  /\ numbers' = [numbers EXCEPT ![n] = Unsold]
  /\ UNCHANGED <<orders, eligible, records, answers, tx>>

EligibilityChanges(n) ==
  /\ eligible' = [eligible EXCEPT ![n] = ~@]
  /\ UNCHANGED <<orders, numbers, records, answers, tx>>

Work(p) ==
  \/ Replay(p) \/ FindNothing(p) \/ RefuseEarly(p)
  \/ LockBatch(p) \/ CheckPresent(p) \/ Select(p)
  \/ CreateOrder(p) \/ Commit(p) \/ LoseKey(p) \/ InsertRefused(p)

Next ==
  \/ \E p \in Procs, k \in Keys, r \in Refs : Submit(p, k, r)
  \/ \E p \in Procs : Work(p) \/ Crash(p)
  \/ \E n \in Numbers : NumberFreed(n) \/ EligibilityChanges(n)

Spec == Init /\ [][Next]_vars

-------------------------------------------------------------------------------
(* Properties.                                                              *)

(* The types: in particular only definitive answers are decided inside a    *)
(* transaction and put on record, never the retryable one.                  *)
TypeOK ==
  /\ orders \in [Refs -> [key : Keys \cup {None}, num : Numbers \cup {None}]]
  /\ numbers \in [Numbers -> Refs \cup {Unsold}]
  /\ eligible \in [Numbers -> BOOLEAN]
  /\ records \in [Keys -> [ref : Refs \cup {None}, code : Stored, num : Numbers \cup {None}]]
  /\ answers \in [Keys -> [Refs -> SUBSET Reply]]
  /\ tx \in [Procs -> Tx]

(* Effect and record are one: an order exists exactly when its key's record *)
(* says so, with that reference and number, so no crash or race leaves an   *)
(* order that a retry would repeat or a record of an order that is not.     *)
RecordIsEffect ==
  \A k \in Keys, r \in Refs, n \in Numbers :
    orders[r] = [key |-> k, num |-> n] <=> records[k] = [ref |-> r, code |-> "order", num |-> n]

(* However often and concurrently a request is repeated, Main is given one  *)
(* definitive answer for a key, and it is the one on record; other payloads *)
(* under that key are only ever refused.                                    *)
Definitive(k, r) ==
  {a \in answers[k][r] : a.code \notin {"IDEMPOTENCY_CONFLICT", "DEPENDENCY_UNAVAILABLE"}}

OneAnswerPerKey ==
  \A k \in Keys, r \in Refs :
    \A a \in Definitive(k, r) : records[k] = [ref |-> r, code |-> a.code, num |-> a.num]

(* No number is handed to two references at a time: a commit only takes a   *)
(* number that is free, and a row is locked by one transaction.             *)
SoldToOne ==
  /\ [][\A n \in Numbers : numbers'[n] # numbers[n] => Unsold \in {numbers[n], numbers'[n]}]_vars
  /\ [][\A p, q \in Procs : p # q => tx'[p].locks \cap tx'[q].locks = {}]_vars

(* What reservation-gateway.ts says: "Only a genuinely empty dimension is a *)
(* real stockout", a number locked by a peer being contention and a stale   *)
(* one being skipped for an eligible one behind it.                         *)
StockoutIsReal ==
  [][\A p \in Procs :
       tx[p].code # "OUT_OF_STOCK" /\ tx'[p].code = "OUT_OF_STOCK" =>
         ~ \E n \in Numbers : numbers[n] = Unsold /\ eligible[n]]_vars

(* What reservation-gateway.ts says: "A duplicate buyer order reference is  *)
(* a deterministic client conflict, not an internal error."                 *)
DuplicateRefIsConflict ==
  [][\A p \in Procs :
       tx[p].code = "BUYER_ORDER_REF_CONFLICT" /\ answers' # answers /\ tx'[p] = Idle =>
         [code |-> "DEPENDENCY_UNAVAILABLE", num |-> None] \notin
           answers'[tx[p].key][tx[p].ref] \ answers[tx[p].key][tx[p].ref]]_vars

-------------------------------------------------------------------------------
(* The inductive invariant.                                                 *)

(* What a transaction t relies on, with the numbers and orders as committed:*)
(* the rows it locked are still unsold, its pick is one of them, the order  *)
(* it has created is the first of its reference, and only an aborted one    *)
(* has met a used reference.                                                *)
TxSound(t, nums, ords) ==
  /\ t.step # "idle" => t.key \in Keys /\ t.ref \in Refs
  /\ \A n \in t.locks : nums[n] = Unsold
  /\ t.step = "create" \/ t.code = "order" => t.pick \in t.locks
  /\ t.code # "none" <=> t.step = "insert"
  /\ t.code = "order" => ords[t.ref] = NoOrder
  /\ t.code = "BUYER_ORDER_REF_CONFLICT" <=> t.aborted

(* Two transactions lock different rows and create orders of different      *)
(* references.                                                              *)
Apart(t, u) ==
  /\ t.locks \cap u.locks = {}
  /\ t.code = "order" /\ u.code = "order" => t.ref # u.ref

(* Only what a request decided in a transaction that lived is on record.    *)
RecordOK(rec) ==
  \/ rec = NoRecord
  \/ rec.ref \in Refs /\ rec.code \in {"order", "OUT_OF_STOCK"} \cup EarlyRefusal

IInv ==
  /\ TypeOK
  /\ RecordIsEffect
  /\ OneAnswerPerKey
  /\ \A k \in Keys : RecordOK(records[k])
  /\ \A p \in Procs : TxSound(tx[p], numbers, orders)
  /\ \A p, q \in Procs : p # q => Apart(tx[p], tx[q])

===============================================================================
