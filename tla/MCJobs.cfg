SPECIFICATION FairSpec
CONSTANTS
    j1 = j1 j2 = j2 s1 = s1
    Jobs = {j1, j2}
    Sessions = {s1}
    Unscoped = Unscoped
    Origins <- MCOrigins
    Idle = {j2}
CHECK_DEADLOCK FALSE
INVARIANTS DestructionIsClean CompletionIsNoted
PROPERTIES TerminalIsFinal TeardownEnds
