SPECIFICATION Spec
CONSTANTS
    Pid = {p1}
    NoPid = NoPid
    MaxStart = 2
    Rss = {1}
    Addr = {a1}
    MaxTime = 0
    ClockSteps <- Frozen
    HistoryCapacity = 1
    TimelineCapacity = 4
    GrowthWindow = 1
PROPERTIES
    NewConnectionNamesOwner
