SPECIFICATION FairSpec
CONSTANTS
    Sends = {s1}
    Calls = {c1}
    Steers = {m1}
    Rotations = {r1, r2}
    Cancels = {k1}
    NoTurn = NoTurn
CHECK_DEADLOCK FALSE
INVARIANTS  OneTurn
PROPERTIES CancelEndsTurn
