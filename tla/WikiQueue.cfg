CONSTANTS
    d1 = d1
    d2 = d2
    Docs = {d1, d2}
    PoolSize = 2
    BatchSize = 2
    MaxInflight = 2
    MaxFailRetries = 1
    MaxRows = 2
    MaxTrouble = 1
SPECIFICATION MCSpec
INVARIANT NoLostWakeup
INVARIANT RowHasOneWorker
INVARIANT SettledReleasesSlot
INVARIANT DeletedQueueStaysEmpty
 
CHECK_DEADLOCK FALSE
