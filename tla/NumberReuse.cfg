\* Two orders get the same number one after the other while an SMS and the
\* jobs of the first are still in flight.
SPECIFICATION Spec
CONSTANTS
  Orders = {o1, o2}
  Numbers = {n1}
  Messages = {m1}
  ApiProcs = {a1}
  CronProcs = {c1}
  None = none
  OrderTimeout = 1
  CancelMinimum = 1
  MaxTime = 3
SYMMETRY OrderSymmetry
INVARIANTS IInv UsedKeyIsFinal NoOrderAlarm
PROPERTIES DeliveredToHolder LeaseSpec
\* The clock stops at MaxTime and orders are spent: the model may stop.
CHECK_DEADLOCK FALSE
