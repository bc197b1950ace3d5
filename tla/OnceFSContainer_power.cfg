\* Power losses that keep any of the unsynced blocks, the cleared ones too, on a
\* container that is never full.
SPECIFICATION MCSpec
CONSTANTS
    Names = {"a", "b"}
    NoName = ""
    LastBlock = 4
    Paths <- FlatPaths
    Times = {0}
    Sizes = {0}
    Extents <- TwoChunks
    Payload = 2
    Calls = {"set_file", "set_data", "del_data", "del_node", "move_node", "sync", "stop", "power"}
    MaxSeq = 3
    FormatCalls = {"set_file", "set_data", "del_node", "sync", "stop", "power", "format"}
    FormatSeq = 2
    MaxNode = 3
INVARIANTS NoGhosts
PROPERTIES PrefixRecovery
CHECK_DEADLOCK FALSE
