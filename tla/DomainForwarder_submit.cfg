SPECIFICATION Spec
CONSTANTS
    t1 = t1
    t2 = t2
    t3 = t3
    e1 = e1
    Txs = {t1, t2, t3}
    Endpoints = {e1}
    Target <- OneTarget
    Value <- Values
    NumWorkers = 2
    MaxConcurrent = 1
    HighCap = 1
    LowCap = 1
    RequeueCap = 1
    HasDisk = TRUE
    MaxErrors = 2
    RecoveryInterval = 1
INVARIANTS
    SubmitSurvivesStop
CHECK_DEADLOCK FALSE
