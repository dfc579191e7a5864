SPECIFICATION Spec
CONSTANTS
    Worker = {w1, w2}
    Attempts = 1
    MaxExits = 2
    Plans <- ShrinkPlans
INVARIANTS
    KeepsMinimum
CHECK_DEADLOCK FALSE
