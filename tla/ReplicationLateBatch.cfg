SPECIFICATION Spec
CONSTANTS
    n1 = n1
    n2 = n2
    n3 = n3
    Server = {n1, n2, n3}
    None = None
    NoBatch = NoBatch
    Electable = {n1, n2, n3}
    MaxTerm = 2
    MaxLog = 2
    MaxBatch = 1
    MaxRestarts = 0
    LateBatches = TRUE
    StaleRollbacks = FALSE
SYMMETRY Symmetry
CHECK_DEADLOCK FALSE
INVARIANTS
    CommittedSurvives
