SPECIFICATION FairSpec
CONSTANTS
    Workers = {w1, w2}
    Nobody = Nobody
    MsgCount = 2
    Text <- SameTexts
    BatchLimit = 2
    MaxFailures = 1
    MaxLosses = 1
INVARIANTS
    TypeOK
    SingleClaim
    HandedOnce
    StrandedOnlyByLoss
PROPERTIES
    DeliveryPromise
    EventuallyHanded
CHECK_DEADLOCK FALSE
