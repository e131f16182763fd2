SPECIFICATION FairSpec
CONSTANTS
    NumItems = 5
    QueueSize = 2
INVARIANTS
    TypeOK
    NoGap
PROPERTIES
    NotCutSilently
    WorkerEnds
    StreamEnds
CHECK_DEADLOCK FALSE
