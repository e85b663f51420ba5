SPECIFICATION BotSpec
CONSTANTS
  Messages = 2
  MediaOnly = {}
  Cap = 2
  MaxForced = 0
  MaxFails = 0
CHECK_DEADLOCK FALSE
INVARIANT KeyHasARunner
