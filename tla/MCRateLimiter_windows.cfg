SPECIFICATION Spec
CONSTANTS
    None = None
    Clients = {c1, c2}
    Ips = {ip1, ip2}
    Limit = 2
    Window = 2
    MaxDelay = 1
    MaxClock = 4
    MaxRestarts = 1
SYMMETRY Symmetry
INVARIANTS TypeOK BurstBounded
PROPERTIES RefusalJustified
