SPECIFICATION MCSpec
CONSTANTS
    Thread = {t1, t2, t3}
    Cancellable = {t3}
    MaxAvailable = 2
    Run = {r1, r2}
    Client = {c1, c2}
    NoRun = NoRun
INVARIANTS
    NoLostWakeup
    OnlyRobbedStay
    ExitMeansDone
    NoRunAfterDelete
PROPERTIES
    StopWorks
    DestructorEnds
CHECK_DEADLOCK FALSE
