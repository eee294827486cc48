SPECIFICATION FairSpec
CONSTANTS
    PoolSize = 2
    Chunk = 2
    LoopMax = 1
    MaxTime = 1
    MaxPut = 1
    MaxTimers = 2
    AllocMayFail = TRUE
    MayTerminate = TRUE
CHECK_DEADLOCK FALSE
INVARIANTS
    TypeOK
    ListsMatchStatus
    PoolCounts
    RunningIsFirst
    NoLostWakeup
PROPERTIES
    SleepsLongEnough
    RunsAgain
