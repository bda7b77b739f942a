SPECIFICATION FairSpec
CONSTANTS
    MaxRequests = 3
    MaxPending = 3
    Settings = {FALSE, TRUE}
    Others = {1024, 2048}
    BridgesErrno = TRUE
    BindMayFail = TRUE
    ShutdownMayFail = TRUE
CHECK_DEADLOCK FALSE
INVARIANTS
    TypeOK
    ServedOnce
    ListenerIsCurrent
    CloseCloses
PROPERTIES
    SecureAsAsked
    EveryRequestIsAnswered
