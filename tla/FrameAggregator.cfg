SPECIFICATION Spec
CONSTANTS
    minNonFinalFragmentSize = 2
    maxAccumulatedFrameCount = 3
    maxAccumulatedFrameSize = 6
    Length = {1, 2, 4}
    MaxRead = 4
CHECK_DEADLOCK FALSE
INVARIANTS
    TypeOK
    BufferIsBounded
    MessagesAreWhole
    MessagesArrive
