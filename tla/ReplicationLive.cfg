SPECIFICATION FairSpec
CONSTANTS
    n1 = n1
    n2 = n2
    n3 = n3
    Server = {n1, n2, n3}
    None = None
    NoBatch = NoBatch
    Electable = {n1, n2}
    MaxTerm = 3
    MaxLog = 1
    MaxBatch = 1
    MaxRestarts = 0
    LateBatches = FALSE
    StaleRollbacks = FALSE
CHECK_DEADLOCK FALSE
INVARIANTS
    CommittedSurvives
PROPERTIES
    Converges
