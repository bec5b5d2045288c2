SPECIFICATION Spec
CONSTANTS
    n1 = n1
    n2 = n2
    NoNet = NoNet
    Net = {n1, n2}
    MaxAddr = 1
    Grants <- MCSomeRouters
    Ratings = {1, 2}
    V6 = {FALSE}
    Replies <- MCReplies
    Infinite = 100
    Wireless = TRUE
    Isolated = FALSE
    MacOS = TRUE
    MaxRating = 2
    RetrySecs = 1
    GatherSecs = 1
    MaxRetries = 1
    RebootRetries = 1
    SelectRetries = 1
    RouterArpAt = 1
    MinWait = 1
    RouterRetry = 1
    InitRetry = 1
    ArpSecs = 1
    ResolveSecs = 1
    WakeSkew = 1
    StartThreshold = 10
    WriteThreshold = 1
    MaxTime = 4
    MaxEvents = 3
SYMMETRY MCSymmetry
INVARIANTS
    AddressAcknowledged
    BoundToThisNetwork
    OneLeasePerRouter
CHECK_DEADLOCK FALSE
