SPECIFICATION FairSpec
CONSTANTS
    n1 = n1
    n2 = n2
    n3 = n3
    Server = {n1, n2}
    None = None
    Electable = {n1, n2}
    c1 = c1
    c2 = c2
    Command = {c1, c2}
    MemberOf <- AllOnOne
    Restartable = {n1, n2}
    Reasons = {"dryRun", "skipDryRun"}
    MaxTerm = 2
    MaxRestarts = 1
    VoteWhileSteppingDown = FALSE
CHECK_DEADLOCK FALSE
INVARIANTS
    TypeOK
    OneVotePerTerm
    OnePrimaryPerTerm
    VoteIsDurable
    PrimaryInElectedTerm
    StepDownNotPreempted
PROPERTIES
    StepDownCompletes
    CandidacyEnds
