SPECIFICATION Spec
CONSTANTS
    Source = "Ethereum"
    Tx <- TwoTxs
    MaxBlock = 2
    MaxForks = 1
    MaxFinal = 2
    Origin = 1
    BlockBatch = 2
    MaxVersions = 3
    RetrieverLookback = 2
    AuditLookback = 0
    LegacyAccepted <- NeverWritten
    BatchSize = 1
    MaxFailures = 0
    SlowRetriever = FALSE
INVARIANTS
    PipelineInv
PROPERTY
    FirstHandledInOrder
CHECK_DEADLOCK FALSE
