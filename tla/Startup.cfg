\* Three programs, requests only once Join is forwarded.
CONSTANTS
    N = 3
    EarlyRequests = FALSE
SPECIFICATION Spec
INVARIANTS
    JoinBeforeResult
PROPERTIES
    SupervisorLast
