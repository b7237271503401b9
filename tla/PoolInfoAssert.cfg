CONSTANTS
    a1 = a1
    a2 = a2
    w1 = w1
    w2 = w2
    Links = {1, 2}
    Addrs = {a1, a2}
    NoAddr = NoAddr
    Stored <- TwoStored
    Heartbeated = {}
    Workers = {w1, w2}
    Connectors = {w1}
    Watchers = {xmpp, data}
    NoOwner = NoOwner
    MaxEdits = 0
SPECIFICATION Spec
INVARIANT
    InfoReleaseAssert
