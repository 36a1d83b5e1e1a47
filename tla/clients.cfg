SPECIFICATION ClientsSpec
CONSTANTS
    Pid = {p1, p2}
    NoPid = NoPid
    Recycled = {p1}
    MaxStart = 2
    Rss = {1}
    Addr = {}
    Rollup = {"missing", "gone", "denied"}
    Oddities = {"denied", "invalid", "malformed"}
    MaxClicks = 2
    TreePid = {1, 2, 3}
    MaxTime = 1
    MaxWrites = 1
INVARIANTS
    ClientsInvariant
    
    NeverABystander
    SnapshotOfTheLiving
    SampleIsComplete
    TempFilesRemoved
    KillExitStatus
    HistoryShownByRun
    TreePrinted
PROPERTIES
    SignalSpec
    DetailCatchesUp
    CommandEnds
CHECK_DEADLOCK FALSE
