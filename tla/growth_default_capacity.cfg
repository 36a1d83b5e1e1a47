SPECIFICATION FullSpec
CONSTANTS
    Pid = {p1}
    NoPid = NoPid
    MaxStart = 1
    Rss = {2, 3}
    Addr = {}
    MaxTime = 5
    ClockSteps <- OneSecond
    HistoryCapacity = 2
    TimelineCapacity = 3
    GrowthWindow = 4
PROPERTIES
    GrowthReported
CHECK_DEADLOCK FALSE
