\* Three requests that interleave, fail and crash.
SPECIFICATION Spec
SYMMETRY Symmetry
CONSTANTS
    Nobody = Nobody
    Procs = {p1, p2, p3}
    Users = {u1}
    Dates = {1, 2}
    AccountIds <- MCAccountIds
    AccountType <- MCAccountType
    FundIds <- MCFundIds
    Funds <- MCFunds
    Postings <- RacePostings
    IntWidth = 8
    MaxIdle = 2
    MaxCommits = 3
INVARIANTS
    TypeOK
    TxInv
    AuditIsSound
PROPERTIES
    ImplementsAbstractLedger
    CommittedIsKept
    PostsRespectLock
    RepliesAreTrue
