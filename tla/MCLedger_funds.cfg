\* Two requests: the second connection enforces no foreign key.
SPECIFICATION Spec
CONSTANTS
    Nobody = Nobody
    Procs = {p1, p2}
    Users = {u1}
    Dates = {1, 2}
    AccountIds <- MCAccountIds
    AccountType <- MCAccountType
    FundIds <- MCFundIds
    Funds <- MCFunds
    Postings <- RacePostings
    IntWidth = 8
    MaxIdle = 2
    MaxCommits = 2
INVARIANTS
    LinesReferenceFunds
