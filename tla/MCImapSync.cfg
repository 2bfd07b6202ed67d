SPECIFICATION Spec
CONSTANTS
    Folders = {"archive", "inbox", "trash"}
    MailCount = 2
    Refused = {}
    RuleReads = {1}
    RuleDeletes = {2}
    FetchLimit = 2
    RecentLimit = 2
    StrictModes = {TRUE, FALSE}
    MaxActions = 2
    MaxFailures = 1
INVARIANTS
    TypeOK
    DoublesOnlyByReturn
    MovedAtTheServer
CHECK_DEADLOCK FALSE
