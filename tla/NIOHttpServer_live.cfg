SPECIFICATION FairPeersSpec
CONSTANTS
    c1 = c1
    c2 = c2
    a1 = a1
    a2 = a2
    None = None
    Conn = {c1, c2}
    Addr = {a1, a2}
    NLoops = 1
    TLS = FALSE
    Requests = {"upgrade", "get", "other"}
    Frames = {"text", "close"}
    MaxFrames = 3
    MayStop = FALSE
    MayVanish = FALSE
CHECK_DEADLOCK FALSE
INVARIANT EntriesAreOpen
PROPERTIES
    UpgradeEnds
    SettlesSessions
    AnsweredEnds
