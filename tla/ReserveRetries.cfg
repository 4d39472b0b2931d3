SPECIFICATION Spec
CONSTANTS
  Keys = {k1, k2}
  Refs = {r1, r2}
  Numbers = {1, 2}
  Procs = {p1, p2}
  None = None
  LockLimit = 1
  EarlyRefusal = {CATALOG_UNAVAILABLE, QUOTE_EXPIRED}
SYMMETRY Symmetry
INVARIANTS RecordIsEffect OneAnswerPerKey
PROPERTY SoldToOne
