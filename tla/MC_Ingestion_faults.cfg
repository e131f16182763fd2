SPECIFICATION FairSpec
CONSTANTS
    a = a
    b = b
    void = void
    reqX = reqX
    reqY = reqY
    p = p
    q = q
    calls = calls
    root = root
    sub = sub
    None = None
    File <- MCFile
    Entity = {p, q}
    Label = {calls}
    Type <- MCType
    Desc <- MCDesc
    DescLen <- MCDescLen
    Hash = {a, b, void}
    Gen <- MCGen
    Prompt = {reqX, reqY}
    MaxBatches = 2
    HistoryDoc = {2}
    Dir = {root, sub}
    Root = {root}
    DirOf <- MCDirOf
    DirsOf <- MCDirsOf
    NumChunks <- MCNumChunks
    Batches <- MCBatches
    Reply <- MCReply
    Matches <- MCMatches
    Faults = {"crash", "qdrant", "timeout", "sqlite", "embed", "extract", "unreadable"}
    MaxFaults = 2
    MaxEdits = 1
    Reverts = FALSE
    EditsWhileReading = TRUE
INVARIANTS
    TypeOK
    NoOrphanVectors
    AllOrNothing
    LeftoversTracked
    SchemaBeforePoints
    ForeignKeysHold
    OnlyStrandedMissing
    CleanRunCurrent
PROPERTIES
    Converges
    KeepsUnscanned
