SPECIFICATION FairSpec
CONSTANTS
    Kinds = {"sync"}
    MaxCalls = 1
    QueueCap = 2
    AsyncCap = 1
    IdMod = 8
    ConnectMayPend = TRUE
    SendMayBlock = TRUE
    PeerMayClose = FALSE
    MaySplit = FALSE
    Spurious = FALSE
    Net = Net
    None = None
    Callers = {c1}
    c1 = c1
PROPERTIES SendBufferFlushed
CHECK_DEADLOCK FALSE
