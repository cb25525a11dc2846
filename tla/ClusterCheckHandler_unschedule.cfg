CONSTANTS
    Configs = {c1, c2}
    Sharded = {c2}
    None = None
    MaxRequests = 3
    MaxTerms = 2
    WarmupOutlastsDispatch = TRUE
SPECIFICATION Spec
INVARIANTS
    UnscheduleNotLost
