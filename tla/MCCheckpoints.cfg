SPECIFICATION Spec
CONSTANTS
  Paths = {p, q}
  MaxTurns = 3
  MaxMessages = 2
  MaxEdits = 2
  MaxRewinds = 2
  MaxFolds = 1
  MaxSummaries = 1
  MaxForks = 1
  MaxFaults = 1
  MaxRestarts = 1
  MaxUpsets = 2
SYMMETRY Symmetry
CHECK_DEADLOCK FALSE
INVARIANTS StoreIsSound  CodeComesBack IdleIsSaved
