------------------------------- MODULE Reconcile -------------------------------
(***************************************************************************)
(* The reconciler: a job that reads one partner's rows in one REPEATABLE    *)
(* READ snapshot, compares what is written twice, and records every finding *)
(* as an open issue that nothing ever closes.  A finding about a state the  *)
(* commands may legally leave behind is a false alarm for good.             *)
(*                                                                         *)
(* A snapshot is a committed state, so the findings are operators of one:   *)
(* ReconcileOrders and ReconcileMoney apply them to the states of their     *)
(* models.  Ledger entries that do not sum to zero, an earning that differs *)
(* from its order's snapshot and a payout that differs from its allocations *)
(* cannot be told in models that move whole earnings, and are left out; a   *)
(* silent device is the matter of Fleet.                                    *)
(***************************************************************************)
EXTENDS Integers, FiniteSets, TLC

HeldNumberStatus == {"reserved", "busy"}

(* The type a detector's findings are stored under. *)
PersistedType ==
  [d \in {"duplicate_allocation_for_earning", "payout_allocation_mismatch"} |->
     "payout_allocation_mismatch"]
  @@ [d \in {"earning_snapshot_mismatch", "duplicate_earning_for_order"} |->
        "earning_snapshot_mismatch"]
  @@ [d \in {"order_number_pairing_mismatch", "number_missing_active_order",
             "number_multiple_active_orders", "number_active_order_not_held"} |->
        "order_number_mismatch"]
  @@ [d \in {"ledger_transaction_not_zero_sum", "ledger_global_imbalance"} |->
        "ledger_imbalance"]
  @@ [d \in {"projection_ledger_mismatch"} |-> "projection_ledger_mismatch"]
  @@ [d \in {"stale_online_device"} |-> "stale_financial_state"]

Finding(detector, reference) ==
  [type |-> PersistedType[detector], detector |-> detector, reference |-> reference]

(* The number status each order status calls for. *)
ConsistentPair(orderStatus, numberStatus) ==
  /\ orderStatus = "reserved" => numberStatus = "reserved"
  /\ orderStatus \in {"waiting_sms", "success"} => numberStatus = "busy"
  /\ orderStatus \in {"cancelled", "timeout", "failed"} =>
       numberStatus \notin HeldNumberStatus

(* pairs: the active orders, each with its number's status. *)
PairFindings(pairs) ==
  {Finding("order_number_pairing_mismatch", p.order) :
     p \in {q \in pairs : ~ConsistentPair(q.orderStatus, q.numberStatus)}}

(* held: the numbers in a held status; active[n]: the active orders of n. *)
NumberFindings(held, active) ==
  LET Many == {n \in DOMAIN active : Cardinality(active[n]) > 1}
      Vacant == {n \in held : active[n] = {}}
      NotHeld == {n \in DOMAIN active \ held : Cardinality(active[n]) = 1}
  IN {Finding("number_multiple_active_orders", n) : n \in Many}
       \cup {Finding("number_missing_active_order", n) : n \in Vacant}
       \cup {Finding("number_active_order_not_held", n) : n \in NotHeld}

(* rows[o]: how many earnings order o has. *)
DuplicateEarnings(rows) ==
  {Finding("duplicate_earning_for_order", o) : o \in {x \in DOMAIN rows : rows[x] > 1}}

(* claims[e]: the payouts with an allocation of e that counts. *)
DuplicateAllocations(claims) ==
  {Finding("duplicate_allocation_for_earning", e) :
     e \in {x \in DOMAIN claims : Cardinality(claims[x]) > 1}}

(* Balances by bucket: what the earnings' statuses say, what the ledger says. *)
ProjectionFindings(projected, derived) ==
  {Finding("projection_ledger_mismatch", b) :
     b \in {c \in DOMAIN projected : projected[c] # derived[c]}}

===============================================================================
