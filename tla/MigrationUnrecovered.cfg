SPECIFICATION Spec
CONSTANTS
    A = A
    B = B
    d1 = d1
    d2 = d2
    None = None
    Shard = {A, B}
    FirstOwner = A
    Doc = {d1, d2}
    FirstDocs = {d1}
    MaxMigrations = 1
    MaxTerm = 1
    MaxFailovers = 1
    MaxUncommitted = 1
    ServeBeforeRecovery = TRUE
CHECK_DEADLOCK FALSE
PROPERTIES
    DonationIsComplete
