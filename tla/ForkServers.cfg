SPECIFICATION Spec
CONSTANTS
    NumClients = 2
    MaxPieces = 3
INVARIANTS
    TypeOK
    HoldsOnlyItsOwn
    HandlerHasChild
PROPERTIES
    ImplementsEcho
    ClientFinishes
CHECK_DEADLOCK FALSE
