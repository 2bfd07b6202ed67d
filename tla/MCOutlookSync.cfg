SPECIFICATION FairSpec
CONSTANTS
    MailCount = 2
    FetchLimit = 1
    MaxActions = 2
    MaxFailures = 1
INVARIANTS
    TypeOK
    DoublesOnlyByMoves
    RowsAreInStep
PROPERTIES
    NewestAreShown
CHECK_DEADLOCK FALSE
