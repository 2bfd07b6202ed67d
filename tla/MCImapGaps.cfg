SPECIFICATION FairSpec
CONSTANTS
    Folders = {"inbox"}
    MailCount = 4
    Refused = {3}
    RuleReads = {2}
    RuleDeletes = {1}
    FetchLimit = 2
    RecentLimit = 2
    StrictModes = {FALSE}
    MaxActions = 1
    MaxFailures = 2
PROPERTIES
    InboxIsMirrored
    FlagsAreShown
CHECK_DEADLOCK FALSE
