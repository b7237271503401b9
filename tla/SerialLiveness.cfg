CONSTANTS
    d1 = d1
    d2 = d2
    k1 = k1
    k2 = k2
    Links = {k1}
    Devices = {d1, d2}
    Registers <- TwoDevices
    Messages <- ReadsOfTwo
    Polled <- MuteReads
    NoMsg = NoMsg
    Mute = {d1}
    Punctual = TRUE
    Expiring <- OtherRead
    MaxQueue = 2
    MaxFlight = 2
    SmallCount = 0
    MainCount = 1
SPECIFICATION FairSpec
PROPERTIES
    QueueMoves
    SilenceNoticed
