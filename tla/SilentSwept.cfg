\* Two rows of one phone number on a device that may fall silent.
SPECIFICATION FairSpec
CONSTANTS
  Devices = {d1}
  Numbers = {n1, n2}
  Canonicals = {c1}
  ApiProcs = {a1}
  CronProcs = {k1}
  None = None
  HeartbeatTimeout = 1
  MaxTime = 2
  MaxOrders = 1
INVARIANT OneActiveNumber
PROPERTY SilentIsSwept
