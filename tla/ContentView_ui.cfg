SPECIFICATION ViewSpec
CONSTANTS
    MaxRequests = 3
    MaxPending = 1
    Settings = {FALSE}
    Others = {1024}
    BridgesErrno = FALSE
    BindMayFail = FALSE
    ShutdownMayFail = FALSE
    s1 = s1
    s2 = s2
    Session = {s1, s2}
    MaxTexts = 1
    MaxQueue = 2
CHECK_DEADLOCK FALSE
INVARIANTS
    LightAgrees
    ListIsLive
    EchoFromSameServer
    EchoesDoNotAddUp
SYMMETRY MCSymmetry
