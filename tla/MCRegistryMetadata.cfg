SPECIFICATION FairSpec
CONSTANTS
    Packages = {1, 2, 3}
    Listed = {1, 3}
    Runs = {1, 2}
    Wanted <- MCWanted
    FetchBudget = 2
    MaxBudget = 3
    Lanes = 2
INVARIANTS
    CachedIsWhole
    BudgetIsShared
PROPERTY RunsEnd
\* Both analyses are over.
CHECK_DEADLOCK FALSE
