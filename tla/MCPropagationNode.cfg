CONSTANTS
    i1 = i1
    i2 = i2
    i3 = i3
    p1 = p1
    p2 = p2
    p3 = p3
    Id <- Ids
    Peer <- Peers
    NoPeer = NoPeer
    Size <- Sizes
    Prioritised = {i1}
    Stamped = {i1, i2}
    Limit = 2
    Expiry = 1
    CacheExpiry = 1
    AgeUnit = 1
    Start = 2
    MaxNow = 4
    Static <- OneStatic
    MaxPeers = 3
    Unreachable = 1
    MaxMessages = 2
    StoreEvery = 2
    PeerSyncEvery = 1
    RotateEvery = 2
    Cycle = 2
    AuthRequired = FALSE
    Allowed <- Nobody
    Budgets <- Bounds
SPECIFICATION Spec
INVARIANTS DiskFaithful NodeInv
PROPERTIES AcceptedOnce HandledFinal RotationSafe NoneSkipped StoreReclaimed QueuesDrain

