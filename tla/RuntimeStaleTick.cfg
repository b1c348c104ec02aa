CONSTANTS
    w1 = w1
    c1 = c1
    c2 = c2
    p1 = p1
    p2 = p2
    None = None
    Worlds = {w1}
    Clients = {c1}
    Pollers = {p1}
    Faults = {}
    MaxOps = 5
    MaxRequests = 3
    MaxCrashes = 0
SPECIFICATION Spec
PROPERTIES CrashMeansExit
CHECK_DEADLOCK FALSE
