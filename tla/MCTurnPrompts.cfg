SPECIFICATION FairSystemSpec
CONSTANTS
    turn1 = turn1 turn2 = turn2
    write1 = write1 ask1 = ask1 plan1 = plan1 write2 = write2 plan2 = plan2
    Sends = {turn1}
    Calls = {turn2}
    Steers = {}
    Rotations = {}
    Cancels = {k1}
    NoTurn = NoTurn
    Requests = {write1, plan1, plan2}
    Kind <- MCKind
    Scope <- MCScope
    Answers = {a1}
    Switches = {}
    Free = Free
    TurnOf <- MCTurnOf
CHECK_DEADLOCK FALSE
INVARIANTS PlansStayInTheirTurns
PROPERTIES CancelUnwinds
