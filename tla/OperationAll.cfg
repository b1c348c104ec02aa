CONSTANTS
    w1 = w1
    k1 = k1
    s1 = s1
    None = None
    Worlds <- OneWorld
    Keys <- OneKey
    Subjects <- OneSubject
    Requests <- AllCalls
    MaxOps = 3
SPECIFICATION Spec
INVARIANTS TypeOK  RequestsRunOnce
PROPERTIES SupersessionIsJustified 
CHECK_DEADLOCK FALSE
