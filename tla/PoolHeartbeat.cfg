CONSTANTS
    a1 = a1
    a2 = a2
    w1 = w1
    w2 = w2
    Links = {1, 2}
    Addrs = {a1, a2}
    NoAddr = NoAddr
    Stored <- TwoStored
    Heartbeated = {1, 2}
    Workers = {w1, w2}
    Connectors = {w1, w2}
    Watchers = {}
    NoOwner = NoOwner
    MaxEdits = 0
SPECIFICATION FairSpec
PROPERTIES
    DeadLinkClosed
    Served
