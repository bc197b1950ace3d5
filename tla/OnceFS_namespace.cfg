\* Every call on a container smaller than the workload, the process ending and
\* mounting again at any point.
SPECIFICATION CallSpec
CONSTANTS
    Names = {"a", "b"}
    NoName = ""
    LastBlock = 3
    Paths <- NestedPaths
    Times = {0}
    Sizes = {1}
    Extents <- TwoChunks
    Payload = 2
    Calls = {"set_file", "set_dir", "set_link", "set_time", "move_node", "del_node", "set_data", "del_data", "stop"}
    MaxSeq = 6
    MaxNode = 3
INVARIANTS JustifiedFree HonestFull
PROPERTIES AppendOnly RefusedCleanly RefusedKeepsData KeepsTree
CHECK_DEADLOCK FALSE
