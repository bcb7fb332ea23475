SPECIFICATION Spec
CONSTANTS
    Source = "Starknet"
    Tx <- OneTx
    MaxBlock = 1
    MaxForks = 0
    MaxFinal = 1
    Origin = 1
    BlockBatch = 1
    MaxVersions = 3
    RetrieverLookback = 1
    AuditLookback = 1
    LegacyAccepted <- NeverWritten
    BatchSize = 2
    MaxFailures = 0
    SlowRetriever = FALSE
INVARIANT
    AuditedAccepted
CHECK_DEADLOCK FALSE
