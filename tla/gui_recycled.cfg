SPECIFICATION ClientsSpec
CONSTANTS
    Pid = {p1}
    NoPid = NoPid
    Recycled = {p1}
    MaxStart = 2
    Rss = {1}
    Addr = {}
    Rollup = {"denied"}
    Oddities = {"denied"}
    MaxClicks = 2
    TreePid = {1, 2}
    MaxTime = 0
    MaxWrites = 0
PROPERTIES
    PidReuseMergesNothing
CHECK_DEADLOCK FALSE
