---------------------------- MODULE ReconcileOrders ----------------------------
(* The reconciler over the order lifecycle: the snapshot its gateway loads   *)
(* of orders, numbers and earnings, and what the detectors find in it.       *)
EXTENDS OrderLifecycle, Reconcile

(* Mutant: a listening order stops counting at its deadline. *)
ActiveUntilDeadline(o) ==
  orders[o].status = "waiting_sms" \/ IsListening(orders[o], now)

(* The orders the gateway loads: waiting, or settled and not yet completed, *)
(* whatever their deadline.                                                 *)
ActiveOrder(o) ==
  \/ orders[o].status = "waiting_sms"
  \/ orders[o].status = "success" /\ ~orders[o].done

ActiveOrdersOf == [n \in Numbers |-> {o \in Orders : ActiveOrder(o) /\ orders[o].num = n}]
HeldNumbers == {n \in Numbers : numbers[n].status \in HeldNumberStatus}
Pairs == {[order |-> o, orderStatus |-> orders[o].status,
           numberStatus |-> numbers[orders[o].num].status] :
            o \in {x \in Orders : ActiveOrder(x)}}

OrderFindings ==
  PairFindings(Pairs) \cup NumberFindings(HeldNumbers, ActiveOrdersOf)
    \cup DuplicateEarnings(earned)

(* The reconciler raises no false alarm about orders: no commit, between    *)
(* any two statements of a request, an SMS or a job, leaves an order, its   *)
(* number and its earnings in a state a detector reports, not even after    *)
(* the listening window and before the sweep that closes it.                *)
NoOrderAlarm == OrderFindings = {}

===============================================================================
