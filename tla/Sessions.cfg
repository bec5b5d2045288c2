SPECIFICATION SessionsSpec
CONSTANTS
    MaxClients = 2
    Collisions = {2}
    Addr = {1}
    NoAddr = 0
    Packets <- MCPackets
    Lists <- MCLists
    ProbeCount = 1
    GratuitousCount = 1
    ResolveSecs = 1
    DetectCount = 2
    ConflictRetries = 1
    MaxAsks = 3
    IAAddr = {a1, a2}
    NoIA = NoIA
    Net = {"home", "work"}
    Wireless = TRUE
    HostName = TRUE
    T1 = 1
    T2 = 2
    Valid = 3
    ReqMaxRC = 2
    DecMaxRC = 1
    ConfirmTicks = 2
    WakeSkew = 1
    Answers <- MCAnswers
    MaxEvents = 2
    User = {c1, c2, c3}
    Fd = {f1, f2, f3}
    NoFd = NoFd
INVARIANTS
    AnswerPending
    FdCounted
    StatefulNeverStalls
    GrantedByReply
    DuplicateDeclined
    NeverSilent
    Counted
PROPERTIES
    ImplementsRequests
    ExchangesEnd
    ServesRouterAdvertisement
    ListensAgain
CHECK_DEADLOCK FALSE
