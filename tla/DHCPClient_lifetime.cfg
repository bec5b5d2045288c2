SPECIFICATION Spec
CONSTANTS
    n1 = n1
    n2 = n2
    NoNet = NoNet
    Net = {n1}
    MaxAddr = 2
    Grants <- MCTwoServers
    Ratings = {2}
    V6 = {TRUE, FALSE}
    Replies <- MCReplies
    Infinite = 100
    Wireless = FALSE
    Isolated = FALSE
    MacOS = TRUE
    MaxRating = 2
    RetrySecs = 1
    GatherSecs = 1
    MaxRetries = 1
    RebootRetries = 1
    SelectRetries = 1
    RouterArpAt = 1
    MinWait = 1
    RouterRetry = 1
    InitRetry = 1
    ArpSecs = 1
    ResolveSecs = 1
    WakeSkew = 1
    StartThreshold = 10
    WriteThreshold = 1
    MaxTime = 7
    MaxEvents = 2
INVARIANTS
    PublishedIsBacked
    NeverStalls
PROPERTIES
    RenewsOnceRouterKnown
    StopsAtExpiry
CHECK_DEADLOCK FALSE
