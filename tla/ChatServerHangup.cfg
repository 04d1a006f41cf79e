SPECIFICATION Spec
CONSTANTS
    Clients = {c1}
    MaxFd = 2
    MaxParts = 3
    Listener = Listener
    Free = Free
PROPERTY DisconnectNoticed
