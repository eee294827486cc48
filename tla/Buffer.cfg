SPECIFICATION FairSpec
CONSTANTS
    Bytes = {"a", "b"}
    Junk = Junk
    MaxBufferSize = 7
    DefaultSize = 2
    Reserve = 3
    Percent = 2
    HighWater = 1
    Chunks <- MCChunks
    MaxPop = 3
INVARIANTS
    TypeOK
    AssertionsHold
    MemoryProportional
PROPERTIES
    ImplementsStream
    GrowthEnds
CHECK_DEADLOCK FALSE
