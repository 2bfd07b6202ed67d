SPECIFICATION Spec
CONSTANTS
    RowCount = 2
    MessageId <- NoIds
    Uid <- NoIds
    Fingerprint <- SamePrints
    Content <- TwoMails
    Runs = {r1}
    Limits = {NoLimit}
    MaxMoves = 0
    MaxFailures = 0
    Folders <- ThreeFolders
    Origins <- TwoFolders
    ScopeOf <- ByType
    None = None
    NoLimit = NoLimit
    inbox = inbox
    home = home
    work = work
    m1 = m1
    m2 = m2
    p1 = p1
    p2 = p2
    p3 = p3
    c1 = c1
    c2 = c2
INVARIANT
    OnlyDuplicatesAreRemoved
CHECK_DEADLOCK FALSE
