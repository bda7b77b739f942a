SPECIFICATION Spec
CONSTANTS
    c1 = c1
    c2 = c2
    a1 = a1
    a2 = a2
    None = None
    Conn = {c1, c2}
    Addr = {a1, a2}
    NLoops = 2
    TLS = FALSE
    Requests = {"upgrade", "get", "other"}
    Frames = {"text", "ping", "close", "reserved", "invalid"}
    MaxFrames = 2
    MayStop = FALSE
    MayVanish = TRUE
CHECK_DEADLOCK FALSE
INVARIANTS
    TypeOK
    KeyedByAddress
    ConnectFirst
    NoTextAfterErrorClose
    EchoInOrder
SYMMETRY MCSymmetry
