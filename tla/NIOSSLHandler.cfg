SPECIFICATION FairSpec
CONSTANTS
    MaxSent = 6
    MaxWrites = 3
    MaxCloses = 3
CHECK_DEADLOCK FALSE
INVARIANTS
    TypeOK
    PeerKnowsTheEnd
PROPERTIES
    ClosesAreAnswered
    ImplementsStream
