SPECIFICATION Spec
CONSTANTS
    NumClients = 3
    MaxPieces = 2
    FdLimit = 2
INVARIANTS
    TypeOK
    EventsCurrent
    WatchedAreOpen
    NoEdgeLost
PROPERTIES
    ImplementsEcho
    EveryPieceEchoed
CHECK_DEADLOCK FALSE
