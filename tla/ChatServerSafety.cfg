SPECIFICATION Spec
CONSTANTS
    Clients = {c1, c2, c3}
    MaxFd = 3
    MaxParts = 4
    Listener = Listener
    Free = Free
SYMMETRY ClientSymmetry
INVARIANTS
    TypeOK
    SessionsMatchKernel
    PolledAreOpen
    PollResultCurrent
    FrameSync
