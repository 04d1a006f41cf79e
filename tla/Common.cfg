SPECIFICATION Spec
CONSTANTS
    Threads = {t1, t2, t3}
    MaxSocket = 2
    MaxConns = 4
    MaxStarts = 3
    BufSize = 3
    WordSize = 4
    Sizes = {1, 2, 4}
    MaxValues = 2
    MaxPackets = 2
    Splits = FALSE
INVARIANTS SessionsCurrent PacketsArrive
PROPERTIES TickerStops
CHECK_DEADLOCK FALSE
