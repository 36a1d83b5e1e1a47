SPECIFICATION Spec
CONSTANTS
    Pid = {p1, p2}
    NoPid = NoPid
    MaxStart = 2
    Rss = {1}
    Addr = {}
    MaxTime = 0
    ClockSteps <- Frozen
    HistoryCapacity = 1
    TimelineCapacity = 3
    GrowthWindow = 1
SYMMETRY Symmetry
INVARIANTS
    TypeOK
    LifecycleAlternates
    HistoryCoversCurrentAndGrace
    FallbackUnambiguous
    RefreshInvariant
PROPERTIES
    ImplementsObserver
