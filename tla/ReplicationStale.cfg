SPECIFICATION Spec
CONSTANTS
    n1 = n1
    n2 = n2
    n3 = n3
    Server = {n1, n2, n3}
    None = None
    NoBatch = NoBatch
    Electable = {n1, n2}
    MaxTerm = 3
    MaxLog = 2
    MaxBatch = 2
    MaxRestarts = 1
    LateBatches = FALSE
    StaleRollbacks = TRUE
SYMMETRY Symmetry
CHECK_DEADLOCK FALSE
ACTION_CONSTRAINT SourceCrashes
INVARIANTS
    CommittedSurvives
