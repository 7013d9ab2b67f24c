CONSTANTS
    App = {a}
    a = a
    Worker = w
    IdMod = 3
    QueueCap = 1
    MaxBadLogins = 0
    MaxDials = 2
    MaxUnasked = 1
SPECIFICATION MCSpec
INVARIANTS
    SocketInv
PROPERTIES
    SettlesAndStops
    ComesBack
    GatewayEnds
CHECK_DEADLOCK FALSE
