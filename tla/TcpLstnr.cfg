SPECIFICATION LSpec
CONSTANTS
    Worker = {w1, w2}
    First = {w1}
    MaxThreads = 2
    Crowd = 0
    Loop = Loop
    Stopper = Stopper
    None = None
    MaxConns = 2
    Plans <- MCPlans
INVARIANTS
    OneOwner
PROPERTIES
    DataHandled
    StopEnds
CHECK_DEADLOCK FALSE
