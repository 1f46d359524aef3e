\* The smallest instance in which a check can fail, a child can be restarted and
\* a Terminate can arrive at any time.
CONSTANTS
    ToleranceInterval = 1
    ToleranceCount = 2
    HasHealthCheck = TRUE
    Interval = 1
    GracePeriod = 2
    Terminators = {t1}
    Join = join
    MaxProbes = 1
    MaxMailbox = 1
SPECIFICATION FairSpec
PROPERTIES
    TerminateUnlessUnspawnable
    DeathFollowedUp
    UnhealthyIsStopped
CHECK_DEADLOCK FALSE
