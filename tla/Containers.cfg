SPECIFICATION MCSpec
CONSTANTS
    Width = 1
    MaxPos = 5
    Val = {v}
    Item = {a, b}
    Handler = {h1, h2}
    None = None
    MaxSlot = 3
    Prealloc = 3
    MaxSize = 10
    Junk = junk
    MaxByte = 12
    Sizes = {1, 4, 11}
INVARIANTS
    IncVisitsAll
    QueueSlots
    StreamIntact
PROPERTY ImplementsHandedQueue
CHECK_DEADLOCK FALSE
