\* Three messages, three attempts, delays 2 and 3 (4, capped), one crash at any point.
CONSTANTS
    m1 = m1
    m2 = m2
    m3 = m3
    Msgs <- MCMsgs
    Timeouts <- MCTimeouts
    MaxAttempts = 3
    BaseDelay = 2
    MaxDelay = 3
    MaxNow = 3
    MaxCrashes = 1
SPECIFICATION Spec
SYMMETRY MsgSymmetry
INVARIANTS HandedOverOnce Accounted
CHECK_DEADLOCK FALSE
