SPECIFICATION Spec
CONSTANTS
    Folders = {"inbox", "trash"}
    MailCount = 2
    Refused = {}
    RuleReads = {}
    RuleDeletes = {}
    FetchLimit = 2
    RecentLimit = 2
    StrictModes = {FALSE}
    MaxActions = 2
    MaxFailures = 0
INVARIANT
    UidIsTheRowsMail
CHECK_DEADLOCK FALSE
