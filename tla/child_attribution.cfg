SPECIFICATION QuietSpec
CONSTANTS
    Pid = {p1, p2}
    NoPid = NoPid
    MaxStart = 2
    Rss = {1}
    Addr = {}
    MaxTime = 0
    ClockSteps <- Frozen
    HistoryCapacity = 1
    TimelineCapacity = 4
    GrowthWindow = 1
SYMMETRY Symmetry
PROPERTIES
    NewChildNamesParent
