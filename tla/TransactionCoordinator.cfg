SPECIFICATION FairSpec
CONSTANTS
    s1 = s1
    s2 = s2
    Shards = {s1, s2}
    Coord = s1
    CoordTerms = 2
    OtherTerms = 2
    MaxTerm <- Terms
    MaxDisruptions = 2
    Timestamps = {1, 2}
    PrepareTimestamps <- Prepares
    MaxAttempts = 1
CHECK_DEADLOCK FALSE
INVARIANTS
    TypeOK
    CommitOnlyIfAllPrepared
    OneDecision
    PreparedIsRecoverable
    AnswersAgree
    CommitTimestampCovers
PROPERTIES
    ImplementsAtomicCommit
    ResolvesUnlessAbandoned
