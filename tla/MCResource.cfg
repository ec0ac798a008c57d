SPECIFICATION Spec
CONSTANTS
    m1 = m1
    m2 = m2
    q1 = q1
    q2 = q2
    Message <- Messages
    Request <- Requests
    Small <- OnePacket
    Parts <- PartCount
    CacheSize = 1
    MaxRetries = 1
    ProofTimeout = 1
    RecvTimeout = 2
    RequestTimeout = 3
    Workloads <- EachAlone
    MaxCancels = 1
INVARIANTS CompletedIsReceived ReceivedOnce ResourceInv
PROPERTIES ReceiptFinal HandedOverWhole Drains
