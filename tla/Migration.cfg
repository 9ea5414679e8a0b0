SPECIFICATION FairSpec
CONSTANTS
    A = A
    B = B
    d1 = d1
    d2 = d2
    None = None
    Shard = {A, B}
    FirstOwner = A
    Doc = {d1, d2}
    FirstDocs = {d1}
    MaxMigrations = 2
    MaxTerm = 1
    MaxFailovers = 1
    MaxUncommitted = 1
    ServeBeforeRecovery = FALSE
CHECK_DEADLOCK FALSE
INVARIANTS
    TypeOK
    DecisionAgrees
    OwnerHasData
    OrphansAccounted
    OwnerKeepsRange
PROPERTIES
    Quiesces
