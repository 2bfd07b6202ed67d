SPECIFICATION FairSpec
CONSTANTS
    MailCount = 2
    Unparsable = {}
    FetchLimit = 1
    ReconcileLimit = 2
    StaleLimit = 2
    MaxActions = 2
    MaxFailures = 0
PROPERTIES
    NewestAreShown
CHECK_DEADLOCK FALSE
