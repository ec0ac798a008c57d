CONSTANTS
    a = a
    b = b
    x = x
    y = y
    Node <- TwoNodes
    Ids <- OneId
    Peering <- AtoB
    BadStamp <- NoneBad
    Validate = FALSE
    TargetCost = 18
    KeyCostCap = 15
    Timeout = 1
    BackoffStep = 1
    BackoffMax = 2
    ThrottleTime = 1
    PnInterval = 1
    MaxNow = 1
    MaxRestarts = 1
    MaxPackets = 6
SPECIFICATION Spec
 
PROPERTY GivenUpOnlyIfTaken
CHECK_DEADLOCK FALSE
