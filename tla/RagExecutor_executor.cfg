SPECIFICATION FairSpec
CONSTANTS
    Request = {s1, s2, p1, p2}
    Streaming = {s1, s2}
    Limit = 2
    Workers = 2
INVARIANTS
    TypeOK
    PermitsConserved
    NoLostWakeup
    AdmittedGetWorkers
    SlotsSuffice
PROPERTIES
    PermitsReturn
    ShutdownEnds
CHECK_DEADLOCK FALSE
