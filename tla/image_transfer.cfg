SPECIFICATION FairSpec
CONSTANTS
    ImageSize = 9
    ChunkSize = 2
    StartDelay = 2
    ChunkDelay = 1
    AckTimeout = 20
    AckInterval = 4
    LinkRate = 2
    AckDelay = 3
    MaxLosses = 4
INVARIANTS
    TypeOK
    AckedIsStored
    DoneMeansSaved
    FinalAckSuffices
    OneResendPerLoss
PROPERTIES
    Completes
    FallsSilent
    ImplementsFairPromise
