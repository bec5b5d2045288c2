SPECIFICATION MCSpec
CONSTANTS
    c1 = c1
    c2 = c2
    n1 = n1
    n2 = n2
    Client = {c1, c2}
    NoClient = NoClient
    Net = {n1, n2}
    MaxAddr = 3
    NetOf <- MCNetOf2
    NumSubnets = 3
    First <- MCFirst2
    Last <- MCLast2
    LeaseMin = 1
    LeaseMax = 1
    Infinite = 1
    PendingSecs = 1
    DeclineWait = 2
    Suggested <- MCNoOption
    Inputs <- MCRoam
    Configs <- MCRoaming
    StaticTables <- MCStatic2
    DetectOther = FALSE
    DiskMayFail = FALSE
    MaxTime = 2
INVARIANTS
    FileIsCurrent
    OneOwnerUntilReclaimed
    OneLeasePerNet
PROPERTIES
    LiveOfferKept
    LiveLeaseKept
CHECK_DEADLOCK FALSE
