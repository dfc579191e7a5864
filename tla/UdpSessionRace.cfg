SPECIFICATION Spec
CONSTANTS
    Client = {c1}
    Worker = {w1, w2}
    MaxFresh = 4
    Plans <- FinePlans
PROPERTIES
    Served
CHECK_DEADLOCK FALSE
