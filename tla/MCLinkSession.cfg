SPECIFICATION Spec
CONSTANTS
    c1 = c1
    c2 = c2
    k1 = k1
    k2 = k2
    Caller <- Callers
    Key <- Keys
    RepeatAfter = 0
    CleanupAfter = 0
    RestartAfter = 1
    Capacity = 2
INVARIANTS LinkInv
PROPERTIES SessionKept LinkComesUp AcceptedReclaimed
