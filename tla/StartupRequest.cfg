\* Against the expect() of broadcast_stopped(): a request overtakes Join.
CONSTANTS
    N = 1
    EarlyRequests = TRUE
SPECIFICATION Spec
INVARIANTS
    BroadcastHeard
