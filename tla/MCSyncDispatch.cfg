\* Every caller the code has, one account: queue, periodic jobs of two processes, a request.
SPECIFICATION FairSpec
CONSTANTS
    Accounts = {a1}
    Worker = w
    p1 = p1
    p2 = p2
    o1 = o1
    Callers <- AllCallers
    Periodics <- TwoPeriodics
    Others <- OneOther
    Local <- QueueCallers
    None = None
    MaxRemote = 1
    MaxFailures = 2
    MaxMishaps = 1
INVARIANTS
    TypeOK
    PendingIsPromised
    MirrorUnchanged
    OnePeriodicRun
PROPERTIES
    NeverOlder
    PendingIsServed
    MailIsMirrored
    ErrorsHeal
CHECK_DEADLOCK FALSE
