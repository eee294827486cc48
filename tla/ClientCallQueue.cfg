SPECIFICATION FairSpec
CONSTANTS
    Kinds = {"sync"}
    MaxCalls = 2
    QueueCap = 2
    AsyncCap = 1
    IdMod = 8
    ConnectMayPend = FALSE
    SendMayBlock = FALSE
    PeerMayClose = FALSE
    MaySplit = FALSE
    Spurious = FALSE
    Net = Net
    None = None
    Callers = {c1, c2}
    c1 = c1
    c2 = c2
PROPERTIES QueueServed
CHECK_DEADLOCK FALSE
