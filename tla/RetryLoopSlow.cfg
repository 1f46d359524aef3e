\* Two ends of runs fit into a window, the third never does.
CONSTANTS
    ToleranceInterval = 3
    ToleranceCount = 3
    RetryInterval = 2
    MaxTime = 16
SPECIFICATION Spec
INVARIANTS
    GiveUpNeedsRoom
CHECK_DEADLOCK FALSE
