CONSTANTS
  MaxItems = 2
  MaxMessages = 4
  MaxSlots = 4
  Worker = {w1, w2}
  Nobody = Nobody
  MaxInbox = 1
SPECIFICATION MCSpec
INVARIANTS SlotsKept NoTornMessage NoneStranded
PROPERTIES ImplementsLossyQueue StoredIsConsumed
CHECK_DEADLOCK FALSE
