SPECIFICATION FairSpec
CONSTANTS
    None = None
    w1 = w1 w2 = w2 n1 = n1 n2 = n2 p1 = p1 p2 = p2 f1 = f1 f2 = f2 x1 = x1 c1 = c1 c2 = c2
    Worlds <- MCWorlds
    Names <- MCNames
    Ports <- MCPorts
    Paths <- MCPaths
    Contents <- MCContents
    FirstWorlds <- MCFirstWorlds
    FirstFiles <- MCFirstFiles
    Clients = {c1}
    Kinds <- FileKinds
    MaxOps = 2
    MaxTouches = 2
    MaxCrashes = 1
CHECK_DEADLOCK FALSE
INVARIANTS
    FilesSurviveRetries
PROPERTIES
    ReplacesOnlyLateUploads
    QueuedMutationsEnd
