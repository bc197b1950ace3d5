\* Two threads, which write to two files at once, on a container that is never full.
SPECIFICATION TSpec
CONSTANTS
    Names = {"a", "b"}
    NoName = ""
    LastBlock = 6
    Paths <- FlatPaths
    Times = {0}
    Sizes = {0}
    Extents <- TwoExtents
    Payload = 2
    Calls = {"set_file", "set_data"}
    MaxSeq = 4
    MaxNode = 3
    Threads = {"t1", "t2"}
INVARIANTS EveryCallLogged
CHECK_DEADLOCK FALSE
