SPECIFICATION Spec
CONSTANTS
    c1 = c1
    c2 = c2
    n1 = n1
    n2 = n2
    Client = {c1}
    NoClient = NoClient
    Net = {n1}
    MaxAddr = 1
    NetOf <- MCNetOf
    NumSubnets = 1
    First <- MCFirst
    Last <- MCLast
    LeaseMin = 1
    LeaseMax = 2
    Infinite = 100
    PendingSecs = 1
    DeclineWait = 2
    Suggested <- MCSuggested
    Inputs <- MCAll
    Configs <- MCConfigs1
    StaticTables <- MCNoStatic
    DetectOther = TRUE
    DiskMayFail = TRUE
    MaxTime = 2
PROPERTIES
    AckAfterCommit
CHECK_DEADLOCK FALSE
