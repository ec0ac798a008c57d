CONSTANTS
    a = a
    b = b
    x = x
    y = y
    Node <- TwoNodes
    Ids <- TwoIds
    Peering <- AtoB
    BadStamp <- BadAtB
    Validate = FALSE
    TargetCost = 18
    KeyCostCap = 15
    Timeout = 1
    BackoffStep = 1
    BackoffMax = 2
    ThrottleTime = 1
    PnInterval = 1
    MaxNow = 2
    MaxRestarts = 0
    MaxPackets = 6
SPECIFICATION LoopSpec
INVARIANTS PeerSyncInv WaitBounded
CHECK_DEADLOCK FALSE
