SPECIFICATION Spec
CONSTANTS
    None = None
    w1 = w1 s1 = s1 s2 = s2
    Worlds <- MCWorlds
    Ids <- MCIds
    Settings <- MCSettings
    DirectTypes = {"Backup", "DeleteWorld"}
    Day = 2
    MaxTime = 3
    MaxOps = 3
    MaxDirect = 1
    MaxEvents = 1
SYMMETRY Interchangeable
CHECK_DEADLOCK FALSE
INVARIANTS
    TypeOK
    RunsAreDecidedOnce
PROPERTIES
    OnlyDueRuns
