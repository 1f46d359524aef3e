\* Against the doc comment of Daemon: a child is spawned after a stop signal that
\* was sent while the future slept.
CONSTANTS
    ToleranceInterval = 1
    ToleranceCount = 2
    HasHealthCheck = FALSE
    Interval = 0
    GracePeriod = 0
    Terminators = {t1}
    Join = join
    MaxProbes = 0
    MaxMailbox = 0
SPECIFICATION SleepSpec
PROPERTIES
    NoSpawnAfterStop
CHECK_DEADLOCK FALSE
