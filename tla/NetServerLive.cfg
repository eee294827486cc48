SPECIFICATION FairSpec
CONSTANTS
    MaxReq = 2
    UidCount = 2
    MaxFds = 2
    Coros = 4
    ClientsMayEnd = {}
    FullReads = FALSE
    SendMayBlock = FALSE
    MaxCloses = 0
    None = None
    Clients = {c1, c2}
    c1 = c1
    c2 = c2
INVARIANTS Accounted
PROPERTIES Answered
CHECK_DEADLOCK FALSE
