CONSTANTS
    Configs = {c1, c2}
    Sharded = {c2}
    None = None
    MaxRequests = 4
    MaxTerms = 2
    WarmupOutlastsDispatch = TRUE
SPECIFICATION Spec
INVARIANTS
    TypeOK
    ReplayExact
    CleanWarmup
    ScheduleNotLost
CHECK_DEADLOCK FALSE
PROPERTIES
    LeaderDispatches
    FollowerStops
