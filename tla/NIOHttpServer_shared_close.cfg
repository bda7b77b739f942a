SPECIFICATION Spec
CONSTANTS
    c1 = c1
    c2 = c2
    a1 = a1
    a2 = a2
    None = None
    Conn = {c1, c2}
    Addr = {a1, a2}
    NLoops = 1
    TLS = FALSE
    Requests = {"upgrade"}
    Frames = {"close", "reserved"}
    MaxFrames = 1
    MayStop = FALSE
    MayVanish = FALSE
CHECK_DEADLOCK FALSE
INVARIANT CloseIsAnswered
