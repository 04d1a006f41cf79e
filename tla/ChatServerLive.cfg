SPECIFICATION Spec
CONSTANTS
    Clients = {c1, c2}
    MaxFd = 3
    MaxParts = 6
    Listener = Listener
    Free = Free
PROPERTY PacketHandled
