SPECIFICATION FairSpec
CONSTANTS
    Key = {k1, k2}
    MaxTime = 1
    MaxTick = 1
    SleepSteps <- Forward
    TimelineCapacity = 1
    Retention = 1
    PruneEvery = 1
INVARIANTS
    StoreReconstructsRunning
