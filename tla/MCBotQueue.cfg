SPECIFICATION BotSpec
CONSTANTS
  Messages = 4
  MediaOnly = {3}
  Cap = 2
  MaxForced = 1
  MaxFails = 1
CHECK_DEADLOCK FALSE
INVARIANTS   SessionsDoNotLeak
 
