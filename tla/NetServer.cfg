SPECIFICATION Spec
CONSTANTS
    MaxReq = 1
    UidCount = 2
    MaxFds = 2
    Coros = 1
    ClientsMayEnd = {"fin", "rst"}
    FullReads = TRUE
    SendMayBlock = TRUE
    MaxCloses = 1
    None = None
    Clients = {c1, c2}
    c1 = c1
    c2 = c2
INVARIANTS TypeOK RightConnection Accounted
CHECK_DEADLOCK FALSE
SYMMETRY Symmetry
