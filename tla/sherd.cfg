SPECIFICATION FairSpec
CONSTANTS
    Key = {k1, k2}
    MaxTime = 2
    MaxTick = 3
    SleepSteps <- Forward
    TimelineCapacity = 4
    Retention = 1
    PruneEvery = 1
INVARIANTS
    TypeOK
    EventsPersistedOnce
    StoreReconstructsRunning
    StartedHasSnapshot
    RetentionBound
    SherdInvariant
PROPERTIES
    StopsWhenAsked
