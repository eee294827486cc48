\* HelloServer: the administrator's adapter and one of the program's own.
SPECIFICATION FairSpec
CONSTANTS
    Adapters = {"AdminAdapter", "HelloAdapter"}
    Admin = "AdminAdapter"
    Node = TRUE
    Named = {"HelloAdapter"}
INVARIANTS TypeOK SafeUntilExit CallbackThreadDone
PROPERTIES Terminates HeartbeatsKeepComing CallbacksRun
CHECK_DEADLOCK FALSE
