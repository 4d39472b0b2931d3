\* Two runs of a job at a time, one of which may have lost its lease; liveness: no symmetry.
SPECIFICATION FairSpec
CONSTANTS
  Runs = {r1, r2}
  None = None
  NumPasses = 2
  NumIds = 2
  Rows <- ThreeRows
  BatchSize = 1
  MaxBatches = 2
  Duration = 2
  Cadence = 1
  Multiplier = 3
  MaxLag = 1
INVARIANT HealthyWhileDispatched
PROPERTIES CursorContinues DueIsDone
