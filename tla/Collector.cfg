CONSTANTS
    a1 = a1
    a2 = a2
    l1 = l1
    Checks <- MCChecks
    IdOf <- MCIdOf
    OneTime = {l1}
    Workers = {w1}
    NumBuckets = 2
    None = None
SPECIFICATION Spec
CHECK_DEADLOCK FALSE
INVARIANTS
    TypeOK
    OneRunPerId
    NoSendOnClosed
    RunKeepsSender
PROPERTIES
    CollectorStops
    ScheduledRuns
