SPECIFICATION NoticingSpec
CONSTANTS
    Pid = {p1, p2}
    NoPid = NoPid
    MaxStart = 2
    Rss = {1}
    Addr = {}
    MaxTime = 0
    ClockSteps <- Frozen
    HistoryCapacity = 1
    TimelineCapacity = 0
    GrowthWindow = 1
PROPERTIES
    ExitsAreNoticed
    SurvivorsAreListed
