SPECIFICATION Spec
CONSTANTS
    n1 = n1
    n2 = n2
    NoNet = NoNet
    Net = {n1, n2}
    MaxAddr = 1
    Grants <- MCForever
    Ratings = {1, 2}
    V6 = {FALSE}
    Replies <- MCRoamReplies
    Infinite = 100
    Wireless = TRUE
    Isolated = FALSE
    MacOS = TRUE
    MaxRating = 2
    RetrySecs = 2
    GatherSecs = 1
    MaxRetries = 0
    RebootRetries = 0
    SelectRetries = 0
    RouterArpAt = 1
    MinWait = 1
    RouterRetry = 2
    InitRetry = 2
    ArpSecs = 1
    ResolveSecs = 2
    WakeSkew = 1
    StartThreshold = 10
    WriteThreshold = 1
    MaxTime = 3
    MaxEvents = 6
SYMMETRY MCSymmetry
INVARIANTS
    AddressOfThisNetwork
CHECK_DEADLOCK FALSE
