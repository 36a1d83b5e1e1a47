SPECIFICATION AdapterSpec
CONSTANTS
    Pid = {p1}
    NoPid = NoPid
    MaxStart = 2
    Rss = {1}
    Addr = {}
    Rollup = {"missing", "gone", "denied"}
    Oddities = {}
INVARIANTS
    FailsOnlyForTheGone
