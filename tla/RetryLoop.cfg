\* Runs that can burst: up to four sleeps of one instant fit into a window of three.
CONSTANTS
    ToleranceInterval = 3
    ToleranceCount = 3
    RetryInterval = 1
    MaxTime = 8
SPECIFICATION Spec
INVARIANTS
    TypeOK
    WindowExact
    GiveUpExact
CHECK_DEADLOCK FALSE
