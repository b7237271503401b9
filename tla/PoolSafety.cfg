CONSTANTS
    a1 = a1
    a2 = a2
    w1 = w1
    w2 = w2
    Links = {1, 2}
    Addrs = {a1, a2}
    NoAddr = NoAddr
    Stored <- OneStored
    Heartbeated = {1}
    Workers = {w1, w2}
    Connectors = {w1}
    Watchers = {xmpp}
    NoOwner = NoOwner
    MaxEdits = 2
SPECIFICATION Spec
INVARIANTS
    TypeOK
    ExclusiveWork
    NoUseAfterDelete
    NoDoubleDelete
    ConnMatchesCfg
    AddressTable
PROPERTY
    ImplementsOwnership
