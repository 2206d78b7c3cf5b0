\* One request: a reversal reaches into a locked period.
SPECIFICATION Spec
CONSTANTS
    Nobody = Nobody
    Procs = {p1}
    Users = {u1}
    Dates = {1, 2}
    AccountIds <- MCAccountIds
    AccountType <- MCAccountType
    FundIds <- MCFundIds
    Funds <- MCFunds
    Postings <- RacePostings
    IntWidth = 8
    MaxIdle = 2
    MaxCommits = 3
PROPERTIES
    ClosedPeriodIsFrozen
