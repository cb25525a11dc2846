SPECIFICATION FairSpec
CONSTANTS
    t1 = t1
    t2 = t2
    t3 = t3
    e1 = e1
    Txs = {t1, t2}
    Endpoints = {e1}
    Target <- OneTarget
    Value <- Values
    NumWorkers = 1
    MaxConcurrent = 2
    HighCap = 1
    LowCap = 1
    RequeueCap = 1
    HasDisk = FALSE
    MaxErrors = 2
    RecoveryInterval = 1
PROPERTIES
    Settles
    StopReturns
    ImplementsBreaker
CHECK_DEADLOCK FALSE
