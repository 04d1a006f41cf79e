SPECIFICATION Spec
CONSTANTS
    BufSize = 8
    WordSize = 4
    Sizes = {1, 2}
    MaxValues = 2
    MaxPackets = 1
    Splits = TRUE
INVARIANT BytesInOrder
CHECK_DEADLOCK FALSE
