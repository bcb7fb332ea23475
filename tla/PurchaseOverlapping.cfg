SPECIFICATION Spec
CONSTANTS
    w1 = w1
    w2 = w2
    r1 = r1
    r2 = r2
    r3 = r3
    ada = ada
    bea = bea
    None = None
    Webhooks = {w1}
    Requests = {r1, r2}
    Choices = {ada, bea}
    Overlapping = TRUE
    Restarts = FALSE
    LostReplies = FALSE
    MaxFailures = 0
INVARIANT GrantSubmittedOnce
CHECK_DEADLOCK FALSE
