SPECIFICATION Spec
CONSTANTS
    a = a
    b = b
    a1 = a1
    a2 = a2
    b1 = b1
    t1 = t1
    t2 = t2
    Node <- Nodes
    Message <- Messages
    From <- Author
    Dest <- Reader
    Includes = {a1, a2}
    Ticket <- Tickets2
    Enforcing = {a, b}
    MaxCost = 1
    TicketExpiry = 2
    TicketRenew = 1
    TicketGrace = 1
    TicketInterval = 1
    CostExpiry = 1
    CacheExpiry = 1
    CacheSize = 1
    MaxInbox = 1
    Budgets <- Kinds
    Start = 1
    MaxNow = 3
SYMMETRY Sym
INVARIANTS TicketsBacked TicketsSpaced
PROPERTIES TicketAccepted DeliveredOnce
CHECK_DEADLOCK FALSE
