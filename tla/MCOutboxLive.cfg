\* Two messages, two attempts, two crashes, under the job loop's fairness.
CONSTANTS
    m1 = m1
    m2 = m2
    m3 = m3
    Msgs <- MCTwoMsgs
    Timeouts <- MCTimeouts
    MaxAttempts = 2
    BaseDelay = 1
    MaxDelay = 2
    MaxNow = 2
    MaxCrashes = 2
SPECIFICATION RuntimeSpec
INVARIANT OutboxInv
PROPERTIES ImplementsDelivery EventuallyResolved
CHECK_DEADLOCK FALSE
