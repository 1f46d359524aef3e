\* A program without a health check: its HealthActor reports Healthy once.
CONSTANTS
    ToleranceInterval = 1
    ToleranceCount = 3
    HasHealthCheck = FALSE
    Interval = 0
    GracePeriod = 0
    Terminators = {t1, t2}
    Join = join
    MaxProbes = 0
    MaxMailbox = 0
SPECIFICATION Spec
INVARIANTS
    StatusHonest
PROPERTIES
    VerdictFinal
    ReportsFresh
CHECK_DEADLOCK FALSE
