\* An admin's disabling races a reservation.
SPECIFICATION AdminSpec
CONSTANTS
  Orders = {o1}
  Numbers = {n1}
  Messages = {m1}
  ApiProcs = {a1}
  CronProcs = {c1}
  None = none
  OrderTimeout = 1
  CancelMinimum = 1
  MaxTime = 2
PROPERTY HeldIsNotDisabled
CHECK_DEADLOCK FALSE
