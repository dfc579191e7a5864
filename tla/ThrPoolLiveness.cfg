SPECIFICATION Spec
CONSTANTS
    w1 = w1
    w2 = w2
    Worker = {w1, w2}
    Attempts = 1
    MaxExits = 1
    Plans <- LivenessPlans
PROPERTIES
    StopEnds
    FlaggedLeave
    BacklogShrinks
CHECK_DEADLOCK FALSE
