CONSTANTS
  Thread = {t1, t2, t3}
  Cancellable = {t3}
  MaxAvailable = 4
SPECIFICATION Spec
INVARIANTS TypeOK NoLostWakeup WaitingBounds
PROPERTIES ImplementsSemaphore TimedWaitEnds
CHECK_DEADLOCK FALSE
