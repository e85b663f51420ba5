SPECIFICATION SaveSpec
CONSTANTS
  Runtimes = {r1, r2}
  Saves = {c1, c2, c3}
  Idle = Idle
  MaxMessages = 2
  MaxFaults = 1
  MaxDepth = 1
SYMMETRY Symmetry
CHECK_DEADLOCK FALSE
INVARIANTS NobodyFightsItself CutStaysCut NothingSavedIsLost
PROPERTIES SuccessIsOnDisk
