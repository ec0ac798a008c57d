SPECIFICATION LoopSpec
CONSTANTS
    n1 = n1  i1 = i1  l1 = l1  None = None
    Nodes <- OneNode
    Identities <- OneIdentity
    Limits = {0}
    Links <- OneLink
    PathTimeout = 1
    LinkIdle = 1
    PLinkIdle = 0
    MaxRequests = 2
INVARIANTS
    
    QuietWhenOver
    OneRequestEach
PROPERTIES
    LinkLossReported
    
