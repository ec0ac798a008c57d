CONSTANTS
    a = a
    b = b
    x = x
    y = y
    Node <- TwoNodes
    Ids <- OneId
    Peering <- Mesh
    BadStamp <- NoneBad
    Validate = FALSE
    TargetCost = 18
    KeyCostCap = 15
    Timeout = 1
    BackoffStep = 1
    BackoffMax = 2
    ThrottleTime = 1
    PnInterval = 1
    MaxNow = 2
    MaxRestarts = 0
    MaxPackets = 30
SPECIFICATION ReliableSpec
INVARIANT Conserved
CHECK_DEADLOCK FALSE
