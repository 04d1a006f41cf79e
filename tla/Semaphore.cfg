SPECIFICATION Spec
CONSTANTS
    Threads = {t1, t2, t3, t4}
    InitialCount = 0
    MaxCount = 3
INVARIANTS
    TypeOK
    NeverOverdrawn
    NoLostWakeup
PROPERTY
    ImplementsCounting
