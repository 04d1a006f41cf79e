SPECIFICATION Spec
CONSTANTS
    Clients = {1, 2}
    MaxPieces = 1
    Nobody = 0
INVARIANT ServicesItsClient
CHECK_DEADLOCK FALSE
