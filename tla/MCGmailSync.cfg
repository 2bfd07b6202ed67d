SPECIFICATION FairSpec
CONSTANTS
    MailCount = 3
    Unparsable = {2}
    FetchLimit = 1
    ReconcileLimit = 2
    StaleLimit = 2
    MaxActions = 1
    MaxFailures = 1
INVARIANTS
    TypeOK
    
PROPERTIES
    InboxIsTrue
    FlagsAreShown
CHECK_DEADLOCK FALSE
