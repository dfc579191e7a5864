SPECIFICATION Spec
CONSTANTS
    Client = {c1}
    Worker = {w1, w2}
    MaxFresh = 4
    Plans <- MCPlans
INVARIANTS
    NoPacketOvertakes
    SerialAtMostOnce
    InStep
PROPERTIES
    SerialServed
CHECK_DEADLOCK FALSE
