SPECIFICATION Spec
CONSTANTS
  Goals = {a}
  NoGoal = NoGoal
  Fronts = {f}
  Loop = Loop
  Reasons = {x}
  NoReason = NoReason
  MaxTurns = 3
  MaxIdle = 2
  MaxBlocks = 2
  MaxCalls = 3
  MaxFaults = 1
CHECK_DEADLOCK FALSE
 
PROPERTIES  LoopEnds CancelStopsTheGoal
