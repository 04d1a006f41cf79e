SPECIFICATION Spec
CONSTANTS
    NumClients = 2
    MaxLen = 2
    MaxRounds = 2
    WordSize = 2
    Base = 2
    Modulus = 4
    Layout <- LittleEndian
    MaxOperands = 2
    MaxSize = 5
    Chunk = 2
    Room = 3
    MaxOutput = 3
    MaxMessages = 3
    MaxFaults = 2
INVARIANTS TypeOK RoundsApart ResultRight TransferComplete OwnAnswer
PROPERTIES PendingEnds
CHECK_DEADLOCK FALSE
