\* One old artifact and two new ones, so that a backup and a restore with its
\* own backup follow each other in either order; a floor of one makes the old
\* one a candidate as soon as there is a newer one.
CONSTANTS
    None = None
    Partial = Partial
    Torn = Torn
    Seeds = 1
    MaxArtifacts = 3
    MaxEvents = 1
    Keep = 1
SPECIFICATION Spec
INVARIANTS
    TypeOK
    
    
    
    AutosaveReturns
PROPERTY
    OnlyConfirmedSurplusGoes
\* A crash in a backup or a restore leaves a row that blocks the world.
CHECK_DEADLOCK FALSE
