SPECIFICATION FairSpec
CONSTANTS
    Entity <- FourEntities
    Louvain <- Components
    World <- MCWorld
    None = None
    MaxChanges = 2
    MaxFailures = 2
INVARIANTS
    RowsHonest
    OnlyFailedStale
    UnchangedIsFree
PROPERTY
    SummariesConverge
