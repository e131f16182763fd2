SPECIFICATION Spec
CONSTANTS
    api = api
    cli = cli
    e1 = e1
    e2 = e2
    File <- TwoFiles
    Entity = {e1, e2}
    Label = {calls}
    Type <- Nothing
    Desc <- OneDesc
    DescLen <- Len5
    Hash = {h}
    Gen <- OneGen
    Prompt = {p}
    MaxBatches = 1
    None = None
    MaxWeight = 1
    MaxEdges = 1
    MaxChunks = 1
    Process = {api, cli}
    Unkeyed = unkeyed
INVARIANT
    OpenedSound
PROPERTY
    MigratedOnce
SYMMETRY Alike
