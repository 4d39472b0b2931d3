---------------------------- MODULE ReconcileMoney -----------------------------
(* The reconciler over the partner's money: the balances it derives from the *)
(* ledger, those the earnings' statuses project, and the payouts'            *)
(* allocations.                                                             *)
EXTENDS EarningPayout, Reconcile
LOCAL INSTANCE Functions

CONSTANT Amount  \* amountIdr of each earning

ASSUME AmountAssumption == Amount \in [Earnings -> Nat \ {0}]

(* The partner's buckets; the platform's payable has no projection. *)
ProjectedBuckets == {"pending", "available", "locked", "paid", "reversed"}

(* The gateway sums the earnings of each status, the detector the entries. *)
ProjectionBalances ==
  [b \in ProjectedBuckets |->
     SumFunction([e \in Earnings |->
       IF earning[e] # "absent" /\ BucketOf[earning[e]] = b THEN Amount[e] ELSE 0])]
LedgerBalances ==
  [b \in ProjectedBuckets |-> SumFunction([e \in Earnings |-> Amount[e] * share[e][b]])]

(* Mutant: an allocation given back still counts. *)
EveryClaim(e) == {p \in Payouts : e \in payouts[p].alloc}

(* The allocations of an earning that count: those not given back. *)
CountedClaims(e) == {p \in Payouts : e \in payouts[p].alloc /\ ~payouts[p].released}

MoneyFindings ==
  ProjectionFindings(ProjectionBalances, LedgerBalances)
    \cup DuplicateAllocations([e \in Earnings |-> CountedClaims(e)])

(* The reconciler raises no false alarm about money: whatever the commands  *)
(* on earnings and payouts interleave, crash or repeat, an earning that     *)
(* moved from a rejected payout to the next one is not reported as claimed  *)
(* twice, and the balances of ledger and projection agree in every bucket.  *)
NoMoneyAlarm == MoneyFindings = {}

===============================================================================
