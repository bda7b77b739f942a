SPECIFICATION FairPeersSpec
CONSTANTS
    c1 = c1
    c2 = c2
    a1 = a1
    a2 = a2
    None = None
    Conn = {c1, c2}
    Addr = {a1, a2}
    NLoops = 2
    TLS = FALSE
    Requests = {"upgrade", "get"}
    Frames = {"text", "close", "reserved"}
    MaxFrames = 1
    MayStop = TRUE
    MayVanish = FALSE
CHECK_DEADLOCK FALSE
INVARIANT StoppedQuiet
PROPERTIES
    NothingRunsAfterStop
    StopEnds
    ErrorCloseEnds
