SPECIFICATION Spec
CONSTANTS
    c1 = c1
    c2 = c2
    c3 = c3
    t1 = t1
    t2 = t2
    None = None
    Calls = {c1, c2}
    Tx = {t1}
    Fees = {1, 2}
    Budget = 2
    MaxBuilds = 2
    MaxFailures = 0
INVARIANT WithinBudget
CHECK_DEADLOCK FALSE
