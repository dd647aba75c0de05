CONSTANTS
    TaskIds = {t1, t2}
    Keys = {k1, k2}
    Slots = {w1}
    Nil = Nil
    Capacity = 2
    MaxAttempts = 2
    MaxCrashes = 1
SPECIFICATION FairSpec
CHECK_DEADLOCK FALSE
PROPERTY EveryTaskEnds
