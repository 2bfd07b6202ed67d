SPECIFICATION Spec
CONSTANTS
    MaxAddress = 3
    Files <- TwoFiles
    Clients = {c1, c2}
    MaxListed = 2
    MaxRequests = 3
    Mailbox = 2
    Start <- Places2
    NoMessageId = {2}
    Look <- Looks2
    KeySets = {{"uid", "message_id"}, {"remote_id"}, {}}
    Importers = {b1, b2}
    MaxBatch = 2
    MaxBatches = 2
    MaxMoves = 1
    MaxSynced = 1
    Visitors = {v1, v2}
    MaxTrusted = 2
    CodeLife = 1
    MaxDevices = 3
    MaxClock = 2
    Limit = 2
    Window = 2
    MaxTries = 5
    MaxTime = 5
SYMMETRY Symmetric
INVARIANTS
    TypeOK
    DoublesOnlyByOverlap
    ReportedIsStored
    ListIsAlphabetical
    MailsKeepTheirRows
    TrustIsGuarded
    RateIsLimited
CHECK_DEADLOCK FALSE
