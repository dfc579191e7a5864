SPECIFICATION Spec
CONSTANTS
    w1 = w1
    w2 = w2
    w3 = w3
    w4 = w4
    w5 = w5
    Worker = {w1, w2, w3, w4, w5}
    Attempts = 1
    MaxExits = 2
    Plans <- SafetyPlans
SYMMETRY Symmetry
INVARIANTS
    CountTracksWorkers
    OvershootBounded
    StoppedIsQuiet
CHECK_DEADLOCK FALSE
