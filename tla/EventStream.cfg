CONSTANTS
    Publishers = {p1, p2}
    Clients = {c1}
    Connections = {k1, k2, k3}
    ReplayLimit = 2
    QueueLimit = 2
    MaxChanges = 3
    MaxFaults = 2
    None = None
SPECIFICATION FairSpec
INVARIANTS
    TypeOK
    StreamsAreWhole
PROPERTIES
    InOrder
    ClientsCatchUp
CHECK_DEADLOCK FALSE
