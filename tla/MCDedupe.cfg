SPECIFICATION Spec
CONSTANTS
    RowCount = 4
    MessageId <- MixedIds
    Uid <- MixedUids
    Fingerprint <- MixedPrints
    Content <- MixedMails
    Runs = {r1, r2}
    Limits = {1, 2, NoLimit}
    MaxMoves = 1
    MaxFailures = 1
    Folders <- ThreeFolders
    Origins <- TwoFolders
    ScopeOf <- ByType
    None = None
    NoLimit = NoLimit
    inbox = inbox
    home = home
    work = work
    m1 = m1
    m2 = m2
    p1 = p1
    p2 = p2
    p3 = p3
    c1 = c1
    c2 = c2
SYMMETRY RunSymmetry
INVARIANTS
    TypeOK
    OnlyLaterCopiesGo
    MailsKeepARow
    LimitIsKept
CHECK_DEADLOCK FALSE
