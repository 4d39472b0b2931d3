--------------------------- MODULE MCEarningPayout ---------------------------
(* An instance for TLC: amounts that tell the earnings apart, so that the    *)
(* reconciler's totals agree only if each earning is where it belongs.       *)
EXTENDS ReconcileMoney

FirstEarning == CHOOSE e \in Earnings : TRUE
Amounts == [e \in Earnings |-> IF e = FirstEarning THEN 1 ELSE 2]

===============================================================================
