SPECIFICATION DaemonsSpec
CONSTANTS
    DNSName <- MCDNSName
    DNSByte = {0, 1, 2, 64, 192}
    DNSBufSize = {0, 9}
    DNSLabelMax = 63
    MaxDNSNames = 4
    MaxDNSBytes = 6
    MaxDNSSteps = 24
    OptionTag = {52, 128}
    OptionVal <- MCOptionVal
    StrList <- MCStrList
    TypeOf <- MCTypeOf
    AreaSize = {12, 17}
    VendorSize = 6
    OptionSizeMax = 255
    MaxOptions = 3
    MaxText = 1
    Lease <- MCLease
    Reply6 <- MCReply6
    Advert <- MCAdvert
    OK4 <- MCOK4
    OK6 <- MCOK6
    MaxNow = 3
    Client <- MCClient
    User = {"u1"}
    Volumes <- MCVolumes
    Mounts <- MCMounts
    AgeTime = 2
    MaxNumber = 2
    Interface = {"en0", "en1"}
    NetOf <- MCNetOf
    Broadcast <- MCBroadcast
    Plist <- MCPlist
    Tab <- MCTab
    Directory <- MCDirectory
    Resolver <- MCResolver
    Route <- MCRoute
    Packet <- MCPacket
    MaxHops = 2
    BootfileMustExist = TRUE
    MaxTime = 1
    Config <- MCConfig
    Pfx = {"p1"}
    Own = {"p1"}
    MIN_DELAY_BETWEEN_RAS = 2
    MAX_RA_DELAY_TIME = 2
    MAX_INITIAL_RTR_ADVERT_INTERVAL = 3
    PrefixTimo = 2
    MaxMsgs = 2
    MaxWaiting = 1
    OtherRA <- MCOtherRA
    MaxPast = 2
    Machine <- MCMachine
    Asked <- MCAsked
    BSDPServer = {"s1"}
    Listing <- MCListing
    MaxXid = 2
    MaxAir = 3
    LIST_MAX_TRIES = 3
    SELECT_MAX_TRIES = 2
    MAX_WAIT_SECS = 4
    INITIAL_TIMEOUT_SECS = 2
    MAX_ATTRS = 10
    IfName = {"en0", "en1"}
    MaxIfIndex = 2
    Plists <- MCPlists
    Request6 <- MCRequest6
    ReplySize = 60
    MaxBoots = 2
INVARIANTS
    NamesSurvive
    OptionsSurvive
    PublishesWhatLives
    BootsHold
    YieldsToOthers
    AdvertisesInTime
    RequestsAreAnswered
    ServesWhereItListens
CHECK_DEADLOCK FALSE
