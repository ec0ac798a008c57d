SPECIFICATION DaemonSpec
CONSTANTS
    m1 = m1  m2 = m2  m3 = m3
    Msgs <- ThreeMsgs
    Batch = 2
INVARIANTS
    StampsInv
    OnceInOrder
PROPERTY
    SharedIsEnqueued
