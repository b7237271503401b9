SPECIFICATION Spec
CONSTANTS
    Objects = {a}
    a = a
    LastDay = 3
    FirstTick = 3
    Month <- MCMonth
    SlotsPerDay = 2
    StatTicks <- MCStatTicks
    BufferMax = 2
    BatchMax = 2
    QuietMidnight = TRUE
    MaxSamples = 3
    MaxStops = 1
INVARIANTS TypeOK RightMonth StatsFinal 
PROPERTY KeptRecent
CHECK_DEADLOCK FALSE
