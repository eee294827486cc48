SPECIFICATION FairSpec
CONSTANTS
    Kinds = {"sync"}
    MaxCalls = 3
    QueueCap = 2
    AsyncCap = 1
    IdMod = 3
    ConnectMayPend = FALSE
    SendMayBlock = FALSE
    PeerMayClose = FALSE
    MaySplit = FALSE
    Spurious = TRUE
    Net = Net
    None = None
    Callers = {c1}
    c1 = c1
PROPERTIES Returns
CHECK_DEADLOCK FALSE
