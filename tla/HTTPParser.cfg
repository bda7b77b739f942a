SPECIFICATION Spec
CONSTANTS
    ULLONG_MAX = 63
    DecimalDigit = {0, 3, 6}
    HexDigit = {0, 2, 3, 15}
    Version = {"0.9", "1.0", "1.1"}
    Header = {"close", "keepAlive", "upgradeTo", "upgrade", "chunked", "otherCoding", "general"}
    Available = {1, 20}
    MaxMessages = 2
    MaxHeaders = 3
    MaxBody = 16
CHECK_DEADLOCK FALSE
INVARIANTS
    TypeOK
    DecoderNeverTraps
    BodyIsWhole
PROPERTY LastIsLast
