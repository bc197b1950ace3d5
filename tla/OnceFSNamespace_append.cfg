\* Every call, on a container that is never full, with the process ending and
\* mounting again at any point; and overlapping writes and truncations on another.
SPECIFICATION MCSpec
CONSTANTS
    Names = {"a", "b"}
    NoName = ""
    LastBlock = 7
    Paths <- NestedPaths
    Times = {0}
    Sizes = {0, 1}
    Extents <- TwoChunks
    Payload = 2
    Calls = {"set_file", "set_dir", "set_link", "set_time", "set_data", "del_data", "move_node", "del_node", "stop"}
    MaxSeq = 4
    MaxNode = 4
    CutCalls = {"set_file", "set_data", "del_data", "stop"}
    CutSizes = {0, 2, 4}
    CutExtents <- Overlapping
    CutPayload = 3
    CutSeq = 6
    CutNode = 2
INVARIANTS ListsChildren MountSucceeds ReadsBack SizeWithin
PROPERTIES ImplementsNamespace AppendRecovery MountEnds CallEnds
CHECK_DEADLOCK FALSE
