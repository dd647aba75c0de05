CONSTANTS
    TaskIds = {t1, t2}
    Keys = {k1, k2}
    Slots = {w1, w2}
    Nil = Nil
    Capacity = 2
    MaxAttempts = 2
    MaxCrashes = 2
SPECIFICATION Spec
SYMMETRY MCSymmetry
CHECK_DEADLOCK FALSE
INVARIANTS
    RunningIsHeld
    CancelReachesHandler
    OneLiveHandlerPerKey
PROPERTY VerdictIsFinal
