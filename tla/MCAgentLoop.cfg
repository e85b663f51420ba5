SPECIFICATION Spec
CONSTANTS
  MaxSteps = 2
  MaxBlocks = 2
  MaxEmpty = 2
  MaxRecoveries = 1
  Threshold = 2
  MaxCalls = 2
  MaxRounds = 1
  MaxRuns = 2
  MaxSteers = 1
CHECK_DEADLOCK FALSE
INVARIANTS LoopIsSound  SeenSteersAreAnswered
PROPERTIES RunEnds
