\* Five operations of two users, each at once.
SPECIFICATION BoundedSpec
CONSTANTS
    Users = {u1, u2}
    Dates = {1, 2}
    AccountIds <- MCAccountIds
    AccountType <- MCAccountType
    FundIds <- MCFundIds
    Funds <- MCFunds
    Postings <- AbstractPostings
    IntWidth = 8
    MaxCommits = 5
INVARIANTS
    TypeOK
    JournalIsSound
    AuditIsSound
    FundBalancesReconcile
    ReversalRestoresBalances
PROPERTY
    ReversalsMoveBalancesBack
