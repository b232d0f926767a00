SPECIFICATION Spec
CONSTANTS
  Procs = {1, 2}
  HasRng = TRUE
  NumSources = 1
  Interval = 2
  MaxChunks = 2
  MaxSeeds = 2
  MaxSteps = 3
INVARIANTS NoSharedOutput OutputIsFromOwnSeed IntervalRespected
CHECK_DEADLOCK FALSE
