SPECIFICATION FairSpec
CONSTANTS
    c1 = c1
    c2 = c2
    c3 = c3
    t1 = t1
    t2 = t2
    None = None
    Calls = {c1, c2, c3}
    Tx = {t1}
    Fees = {1, 2}
    Budget = 5
    MaxBuilds = 3
    MaxFailures = 1
INVARIANTS
    TypeOK
    ChargedOnce
    WithinBudgetUnshared
PROPERTY BuildsAnswered
CHECK_DEADLOCK FALSE
