SPECIFICATION Spec
CONSTANTS
    t1 = t1
    t2 = t2
    t3 = t3
    Txs = {t1, t2, t3}
    Storable = {t2, t3}
    Size <- SmallSize
    Priority <- SmallPriority
    CreatedAt <- SmallCreatedAt
    MaxMem = 3
    FlushSize = 1
    MaxDisk = 3
    FileOverhead = 1
    FreeSpace <- SmallFreeSpace
    StorageOutcomes = {"none", "broken", "ready"}
    MaxFiles = 2
INVARIANTS
    TypeOK
    MemAccounting
    DiskAccounting
    DropsReported
PROPERTIES
    ImplementsStore
    DiskLimit
    FlushTakesAll
CHECK_DEADLOCK FALSE
