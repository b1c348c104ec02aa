CONSTANTS
    w1 = w1
    c1 = c1
    c2 = c2
    p1 = p1
    p2 = p2
    None = None
    Worlds = {w1}
    Clients = {c1}
    Pollers = {p1, p2}
    Faults <- KillsSettle
    MaxOps = 8
    MaxRequests = 4
    MaxCrashes = 1
SPECIFICATION Spec
SYMMETRY Interchangeable
INVARIANTS TypeOK DispatcherOwnsWorld OffIsDown  ServersAreKnown
CHECK_DEADLOCK FALSE
