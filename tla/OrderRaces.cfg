\* Two requests, a job and two SMS race on one order, at every pair of their
\* steps.
SPECIFICATION Spec
CONSTANTS
  Orders = {o1}
  Numbers = {n1}
  Messages = {m1, m2}
  ApiProcs = {a1, a2}
  CronProcs = {c1}
  None = none
  OrderTimeout = 1
  CancelMinimum = 1
  MaxTime = 2
SYMMETRY RepeatSymmetry
INVARIANTS HeldByItsOrder PaidOncePerSuccess
PROPERTY SettledForGood
\* The clock stops at MaxTime and orders are spent: the model may stop.
CHECK_DEADLOCK FALSE
