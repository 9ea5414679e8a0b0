SPECIFICATION Spec
CONSTANTS
    n1 = n1
    n2 = n2
    n3 = n3
    Server = {n1, n2, n3}
    None = None
    Electable = {n1, n2}
    c1 = c1
    c2 = c2
    Command = {c1, c2}
    MemberOf <- OneEach
    Restartable = {}
    Reasons = {"skipDryRun"}
    MaxTerm = 2
    MaxRestarts = 0
    VoteWhileSteppingDown = TRUE
CHECK_DEADLOCK FALSE
SYMMETRY Candidates
INVARIANTS
    OneVotePerTerm
