SPECIFICATION PeopleSpec
CONSTANTS
  SessionIds = {s1, s2}
  Reqs = {q1, q2}
  None = none
  Statuses = {"active", "disabled"}
  LoginStatuses = {"active"}
  IdleTtl = 2
  AbsoluteTtl = 3
  MaxResets = 1
  MaxTime = 3
  Emails = {e1, e2}
  Partners = {p1, p2}
  TokenIds = {t1, t2}
  Workers = {w1, w2}
  Nobody = nobody
  GivenRoles = {"owner"}
  GivenStatuses = {"active", "disabled"}
  Ttl <- TtlInTicks
  MaxVersion = 2
  LastTick = 1
  Admins = {a1, a2}
  MaxMoves = 4
  Callers = {c1, c2}
  Limit = 2
  Window = 2
  Cooldown = 3
  MaxCount = 4
  Horizon = 5
  AdminSessionIds = {x1}
  AdminWorkers = {y1}
  Desks = {d1, d2}
  SmsIds = {m1}
  OrderIds = {o1}
  Nothing = nothing
  AdminIdleTtl = 1
  AdminAbsoluteTtl = 1
  ReauthWindow = 0
  RecoveryOperations = {"fail", "cancel"}
  MaxReveals = 2
  AdminHorizon = 1
SYMMETRY Symmetry
INVARIANTS
  PeopleTypeOK
  ResetEndsSessions
  TokenSpentOnce
  TrailIsConnected
  NoEventLost
  TrailIsTrue
PROPERTIES
  DisabledStaysOut
  BlockHolds
CHECK_DEADLOCK FALSE
