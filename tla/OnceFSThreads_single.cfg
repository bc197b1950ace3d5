\* One thread (fuse -s) on a container that fills up; the process ends anywhere.
SPECIFICATION TSpec
CONSTANTS
    Names = {"a", "b"}
    NoName = ""
    LastBlock = 3
    Paths <- FlatPaths
    Times = {0}
    Sizes = {0}
    Extents <- TwoExtents
    Payload = 2
    Calls = {"set_file", "set_data", "stop"}
    MaxSeq = 4
    MaxNode = 3
    Threads = {"t1"}
INVARIANTS EveryCallLogged
PROPERTIES ImplementsOnceFS
CHECK_DEADLOCK FALSE
