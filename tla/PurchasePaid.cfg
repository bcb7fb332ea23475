SPECIFICATION CrewmateFairSpec
CONSTANTS
    w1 = w1
    w2 = w2
    r1 = r1
    r2 = r2
    r3 = r3
    ada = ada
    bea = bea
    None = None
    Webhooks = {w1, w2}
    Requests = {r1, r2}
    Choices = {ada, bea}
    Overlapping = TRUE
    Restarts = TRUE
    LostReplies = TRUE
    MaxFailures = 2
INVARIANTS
    TypeOK
    PaidBeforeGrant
PROPERTIES
    ClaimedOnce
    PaidOnce
    PaidRecorded
    SubmissionEnds
CHECK_DEADLOCK FALSE
