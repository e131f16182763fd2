SPECIFICATION Spec
CHECK_DEADLOCK FALSE
CONSTANTS
    Problems <- AllProblems
    Entity <- FourEntities
    Louvain <- Components
    CHUNK_SIZE = 6
    CHUNK_OVERLAP = 2
    MAX_MD_CHUNK = 8
    SepLen <- SmallSepLen
    NoLog = "no log"
    Unwritable = "unwritable"
    Cut = "cut"
    NoDoc = "none"
    Thread = {t1, t2}
    Conn = {c1, c2, c3, c4}
    NoConn = NoConn
INVARIANTS
    CommunitiesPlaced
    NeighborhoodsFair
    ChunksCover
    HistoriesSurvive
    ConnectionsSound
