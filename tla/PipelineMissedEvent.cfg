SPECIFICATION Spec
CONSTANTS
    Source = "Starknet"
    Tx <- OneTx
    MaxBlock = 2
    MaxForks = 1
    MaxFinal = 2
    Origin = 1
    BlockBatch = 1
    MaxVersions = 3
    RetrieverLookback = 2
    AuditLookback = 2
    LegacyAccepted <- NeverWritten
    BatchSize = 2
    MaxFailures = 0
    SlowRetriever = FALSE
INVARIANT
    NoMissedEvent
CHECK_DEADLOCK FALSE
