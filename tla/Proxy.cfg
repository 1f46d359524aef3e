\* Two hops: what one BLAHAJ writes is read by the next.
CONSTANTS
    Names = {"foo", "bar"}
    Ports = {1, 2, 3, 4, 5, 6, 7, 8, 9, 10}
    Configs <- MCConfigs
    Paths <- MCPaths
    Api <- MCApi
    Headers <- MCHeaders
    Peers = {"a", "b"}
    MaxHops = 2
SPECIFICATION Spec
INVARIANTS TypeOK ForKept ResponseTrue
PROPERTIES RoutedToLongest NotFoundJust
CHECK_DEADLOCK FALSE
