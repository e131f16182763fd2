SPECIFICATION Spec
CONSTANTS
    a = a
    b = b
    void = void
    reqX = reqX
    reqY = reqY
    p = p
    q = q
    calls = calls
    root = root
    sub = sub
    None = None
    File <- OneFile
    Entity = {p, q}
    Label = {calls}
    Type <- MCType
    Desc <- MCDesc
    DescLen <- MCDescLen
    Hash = {a, b, void}
    Gen <- MCGen
    Prompt = {reqX, reqY}
    MaxBatches = 2
    HistoryDoc = {}
    Dir = {root, sub}
    Root = {root}
    DirOf <- MCDirOf
    DirsOf <- MCDirsOf
    NumChunks <- MCNumChunks
    Batches <- MCBatches
    Reply <- MCReply
    Matches <- MCMatches
    Faults = {}
    MaxFaults = 0
    MaxEdits = 2
    Reverts = TRUE
    EditsWhileReading = TRUE
INVARIANT
    CleanRunCurrent
