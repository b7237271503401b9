CONSTANTS
    d1 = d1
    d2 = d2
    k1 = k1
    k2 = k2
    Links = {k1, k2}
    Devices = {d1}
    Registers <- OneEach
    Messages <- OnTwoLinks
    Polled = {}
    NoMsg = NoMsg
    Mute = {}
    Punctual = FALSE
    Expiring <- OnTwoLinks
    MaxQueue = 2
    MaxFlight = 2
    SmallCount = 0
    MainCount = 0
SPECIFICATION FairSpec
PROPERTIES
    QueueMoves
