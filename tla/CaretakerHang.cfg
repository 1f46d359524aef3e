\* Against the doc comments of Daemon and Terminate: a program that cannot be
\* spawned is tried for ever, and Terminate is never answered.
CONSTANTS
    ToleranceInterval = 1
    ToleranceCount = 2
    HasHealthCheck = FALSE
    Interval = 0
    GracePeriod = 0
    Terminators = {t1}
    Join = join
    MaxProbes = 0
    MaxMailbox = 0
SPECIFICATION FairSpec
PROPERTIES
    TerminateCompletes
CHECK_DEADLOCK FALSE
