CONSTANTS
  Thread = {t1, t2, t3}
  Cancellable = {t3}
  NoThread = NoThread
  MaxDepth = 2
SPECIFICATION Spec
INVARIANTS OwnerHolds NoLostWakeup
PROPERTIES TimedLockEnds Handover
CHECK_DEADLOCK FALSE
