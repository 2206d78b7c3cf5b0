\* Two requests, with every kind of posting, under weak fairness; no symmetry.
SPECIFICATION FairSpec
CONSTANTS
    Nobody = Nobody
    Procs = {p1, p2}
    Users = {u1}
    Dates = {1, 2}
    AccountIds <- MCAccountIds
    AccountType <- MCAccountType
    FundIds <- MCFundIds
    Funds <- MCFunds
    Postings <- AllPostings
    IntWidth = 8
    MaxIdle = 2
    MaxCommits = 2
INVARIANTS
    JournalIsSound
PROPERTIES
    ImplementsAbstractLedger
    RequestsAreAnswered
    WriteLockIsReleased
