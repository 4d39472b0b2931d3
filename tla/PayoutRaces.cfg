\* Liveness among the properties: no symmetry.
\* Two earnings, two payouts, two admins or members racing each other and the job.
SPECIFICATION FairSpec
CONSTANTS
  Earnings = {e1, e2}
  Payouts = {p1, p2}
  Refs = {r1}
  ApiProcs = {a1, a2}
  CronProcs = {c1}
  None = None
  Amount <- Amounts
\* Earnings and payouts are spent: the model may stop.
CHECK_DEADLOCK FALSE
INVARIANTS
  LedgerAgrees
  ClaimedByOnePayout
  NoMoneyAlarm
PROPERTIES
  SettledIsFinal
  HoldIsReleased
  BookSpec
