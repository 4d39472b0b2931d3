\* Liveness: no symmetry.
SPECIFICATION FairSpec
CONSTANTS
  Orders = {o1}
  Numbers = {n1}
  Messages = {m1}
  ApiProcs = {a1}
  CronProcs = {c1}
  None = none
  OrderTimeout = 1
  CancelMinimum = 1
  MaxTime = 3
PROPERTY HoldsEnd
\* The clock stops at MaxTime and orders are spent: the model may stop.
CHECK_DEADLOCK FALSE
