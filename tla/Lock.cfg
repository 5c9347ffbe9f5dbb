SPECIFICATION Spec
CONSTANTS
    Proc = {p1, p2, p3}
    Modes = {"r", "w", "try"}
    Tries = 6
    MaxHold = 2
    MaxAsks = 1
    MaxCrash = 1
INVARIANTS ExclusiveAlive Accounted
PROPERTY Recovers
CHECK_DEADLOCK FALSE
