CONSTANTS
    ToleranceInterval = 1
    ToleranceCount = 2
    HasHealthCheck = TRUE
    Interval = 1
    GracePeriod = 2
    Terminators = {t1, t2}
    Join = join
    MaxProbes = 2
    MaxMailbox = 2
SPECIFICATION Spec
INVARIANTS
    TypeOK
    PanicExplained
    ChildOwned
    StatusHonest
    WaitMeansGone
    AtMostOneLateSpawn
    RequestKept
    RoundKept
PROPERTIES
    ReportsFresh
    StopAdvances
    ImplementsProgram
CHECK_DEADLOCK FALSE
