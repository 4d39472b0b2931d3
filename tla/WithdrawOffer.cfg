SPECIFICATION PlatformSpec
CONSTANTS
  Tokens = {t1, t2}
  Keys = {k1}
  Nonces = {n1, n2}
  IdemKeys = {i1}
  Nil = nil
  Gates = {g1, g2}
  Managers = {m1, m2}
  MaxSkew = 1
  NonceTtl = 2
  LastSecond = 2
  OfferIds = {f1, f2}
  Sellers = {p1}
  Dimensions = {d1}
  ConfigDimension = d1
  Sites = {c1, c2}
  Publishers = {a1, a2}
  NoOffer = nooffer
  NoDim = nodim
  Inherit = inherit
  BasePrices <- Prices
  Configs <- ConfigRows
  Overrides <- OverrideRows
  MaxConfigs = 2
  Registered = {wa, tg}
  ThirdParties = {bank}
  Unregistered = {xx}
  CodeLength <- LengthOf
  Grouped = {wa}
  MaxLength = 7
  MaxWords = 2
  CronJobs = {j1, j2}
  CadenceSeconds <- CadenceOf
  StalenessMultiplier = 1
  Never = never
  MaxMoment = 3
  MaxDeployments = 1
SYMMETRY Symmetry
PROPERTIES
  WithdrawalIsPossible
CHECK_DEADLOCK FALSE
