SPECIFICATION SignalSpec
CONSTANTS
    Pid = {p1}
    NoPid = NoPid
    MaxStart = 2
    Rss = {1}
    Addr = {}
    Rollup = {"missing"}
    Oddities = {}
INVARIANTS
    SignalReachesConfirmed
CHECK_DEADLOCK FALSE
