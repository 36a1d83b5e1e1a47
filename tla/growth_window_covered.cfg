SPECIFICATION FullSpec
CONSTANTS
    Pid = {p1}
    NoPid = NoPid
    MaxStart = 2
    Rss = {0, 2, 3}
    Addr = {a1}
    MaxTime = 5
    ClockSteps <- OneSecond
    HistoryCapacity = 3
    TimelineCapacity = 5
    GrowthWindow = 3
INVARIANTS
    OnlyTheLastIsMixed
    ConnectionsReported
    CrashAnalysisOneRun
PROPERTIES
    GrowthReported
CHECK_DEADLOCK FALSE
