CONSTANTS
    d1 = d1
    d2 = d2
    k1 = k1
    k2 = k2
    Links = {k1}
    Devices = {d1, d2}
    Registers <- TwoDevices
    Messages <- ReadsOfTwo
    Polled = {}
    NoMsg = NoMsg
    Mute = {}
    Punctual = FALSE
    Expiring <- ReadsOfTwo
    MaxQueue = 2
    MaxFlight = 2
    SmallCount = 0
    MainCount = 0
SPECIFICATION Spec
INVARIANTS
    OneReadExecuting
