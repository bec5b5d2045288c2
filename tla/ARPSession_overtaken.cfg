SPECIFICATION Spec
CONSTANTS
    MaxClients = 1
    Collisions = {}
    Addr = {1}
    NoAddr = 0
    Packets <- MCPackets
    Lists <- MCLists
    ProbeCount = 1
    GratuitousCount = 1
    ResolveSecs = 1
    DetectCount = 2
    ConflictRetries = 1
    MaxAsks = 1
INVARIANTS
    InUseReported
CHECK_DEADLOCK FALSE
