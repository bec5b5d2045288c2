SPECIFICATION AgentSpec
CONSTANTS
    AccessPoints <- MCAccessPoints
    MaxCollisions = 1
    Interfaces <- MCInterfaces
    ServiceIDs = {"A", "B", "dynamic"}
    Setups <- MCSetups
    LinkLocalID <- MCLinkLocalID
    Wireless = {"en1"}
    LinkLocals = {"L1"}
    MaxChanges = 2
    Obj = {o1, o2}
    Allowed = {o1, o2}
    Samples <- MCSamples
    Requests <- MCRequests
    IPv4 = {"a", "0"}
    IPv6 = {"b", "l"}
    LinkLocal = {"l"}
    Configured <- MCConfigured
    MaxRestarts = 1
    Routers = {"r1", "r2"}
    Domains = {"p"}
    Adverts <- MCAdverts
    ClatCount = 2
    MaxRS = 2
    Cellular = FALSE
    MaxEvents = 5
INVARIANTS
    AtMostOneWake
    ServicesKnowNetwork
    PublishedIsConfigured
    NeverLeftDown
    ServicesFollowObjects
    ToldGoneIsGone
    InactiveIsClean
    ListensToRouters
CHECK_DEADLOCK FALSE
