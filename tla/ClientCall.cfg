SPECIFICATION Spec
CONSTANTS
    Kinds = {"sync", "async"}
    MaxCalls = 2
    QueueCap = 1
    AsyncCap = 1
    IdMod = 3
    ConnectMayPend = TRUE
    SendMayBlock = TRUE
    PeerMayClose = TRUE
    MaySplit = TRUE
    Spurious = TRUE
    Net = Net
    None = None
    Callers = {c1, c2}
    c1 = c1
    c2 = c2
INVARIANTS TypeOK Owned WireOrder
PROPERTIES OwnResponse
CHECK_DEADLOCK FALSE
SYMMETRY Symmetry
