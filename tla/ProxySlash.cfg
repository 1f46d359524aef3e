\* The programs of tests/simple.yaml, against the note on prefix_path.
CONSTANTS
    Names = {"foo", "bar"}
    Ports = {1, 2, 3, 4, 5, 6, 7, 8, 9, 10}
    Configs <- MCSimple
    Paths <- MCPaths
    Api <- MCApi
    Headers <- MCHeaders
    Peers = {"a", "b"}
    MaxHops = 2
SPECIFICATION Spec
PROPERTIES PrefixTrimmed
CHECK_DEADLOCK FALSE
