SPECIFICATION FairSpec
CONSTANTS
    Starter = Starter
    Channels = {stdout, stderr}
    PipeLimit = 1
    BufferLimit = 1
    QueueLimit = 1
    FanoutLimit = 2
    MaxLines = 3
    MaxFaults = 1
CHECK_DEADLOCK FALSE
INVARIANTS
    TypeOK
    StreamIsInOrder
    LinesAreAccounted
PROPERTIES
    PipesAreDrained
