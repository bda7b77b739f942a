SPECIFICATION Spec
CONSTANTS
    MaxRequests = 1
    MaxPending = 1
    Settings = {FALSE}
    Others = {1024, 2048}
    BridgesErrno = FALSE
    BindMayFail = FALSE
    ShutdownMayFail = FALSE
CHECK_DEADLOCK FALSE
PROPERTY FailsOnlyWhenFull
