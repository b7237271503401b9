SPECIFICATION Spec
CONSTANTS
    l1 = l1
    l2 = l2
    t1 = t1
    t2 = t2
    e1 = e1
    e2 = e2
    e3 = e3
    AllDevices = AllDevices
    Links = {l1, l2}
    Triggers = {t1, t2}
    Events = {e1, e2, e3}
    Hears <- MCHearAll
    Needed <- MCNeeded
    TriggerOf <- MCTriggerOf
    Does <- MCDoes
    Levels = {1, 2}
    Asked <- MCAsked
    OldRows <- MCOldRows
    Window = 2
    Interval = 2
    Wrap = 10
    FirstTick = 1
    LastTick = 3
    MaxSignals = 3
    MaxChanges = 1
    MaxStops = 1
PROPERTY AlarmsApart
CHECK_DEADLOCK FALSE
