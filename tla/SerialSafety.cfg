CONSTANTS
    d1 = d1
    d2 = d2
    k1 = k1
    k2 = k2
    Links = {k1}
    Devices = {d1}
    Registers <- WithGap
    Messages <- BatchSingleWrite
    Polled = {}
    NoMsg = NoMsg
    Mute = {}
    Punctual = TRUE
    Expiring <- BatchSingleWrite
    MaxQueue = 2
    MaxFlight = 2
    SmallCount = 0
    MainCount = 0
SPECIFICATION Spec
INVARIANTS
    TypeOK
    WaitsOnce
    OneReadExecuting
    Attribution
PROPERTIES
    ReadsInTurn
