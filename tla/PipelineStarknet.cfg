SPECIFICATION FairSpec
CONSTANTS
    Source = "Starknet"
    Tx <- OneTx
    MaxBlock = 2
    MaxForks = 1
    MaxFinal = 2
    Origin = 1
    BlockBatch = 1
    MaxVersions = 3
    RetrieverLookback = 2
    AuditLookback = 2
    LegacyAccepted <- NeverWritten
    BatchSize = 2
    MaxFailures = 1
    SlowRetriever = FALSE
INVARIANTS
    TypeOK
    AuditedCanonical
    AcceptedUnlessMisread
    RetrievedComplete
PROPERTY
    EventuallySettled
CHECK_DEADLOCK FALSE
