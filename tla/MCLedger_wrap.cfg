\* Amounts of four bits: a sum that wraps.
SPECIFICATION Spec
CONSTANTS
    Nobody = Nobody
    Procs = {p1}
    Users = {u1}
    Dates = {1, 2}
    AccountIds <- MCAccountIds
    AccountType <- MCAccountType
    FundIds <- MCFundIds
    Funds <- MCFunds
    Postings <- WrapPostings
    IntWidth = 4
    MaxIdle = 2
    MaxCommits = 1
INVARIANTS
    EntriesBalanceExactly
