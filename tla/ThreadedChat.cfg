SPECIFICATION Spec
CONSTANTS
    Clients = {1, 2, 3}
    MaxPieces = 2
    Nobody = 0
INVARIANTS
    TypeOK
    OneEntryPerThread
    BroadcastOrder
CHECK_DEADLOCK FALSE
