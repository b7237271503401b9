CONSTANTS
    p1 = p1
    Points = {p1}
    Allowed <- MCAllowed
    Requests <- MCRequests
    Switches = {p1}
    AutoBack = {p1}
    Limit = 2
    Room = 1
    MaxAsked <- Twice
    MaxOnWay = 1
SPECIFICATION FairSpec
INVARIANTS
    TypeOK
    OnePending
    Bounded
    Owed
    AtMostAsked
    ReadComing
PROPERTIES
    NewestKept
    ListDrains
CHECK_DEADLOCK FALSE
