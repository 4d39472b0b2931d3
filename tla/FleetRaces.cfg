SPECIFICATION Spec
CONSTANTS
  Devices = {d1, d2}
  Numbers = {n1}
  Canonicals = {c1}
  ApiProcs = {a1, a2}
  CronProcs = {k1}
  None = None
  HeartbeatTimeout = 1
  MaxTime = 1
  MaxOrders = 2
SYMMETRY Symmetry
PROPERTIES DisabledStaysDisabled BusyIsUntouched
