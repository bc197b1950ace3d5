\* Files that come and go on a full container, whose blocks are reused.
SPECIFICATION DataSpec
CONSTANTS
    Names = {"a", "b"}
    NoName = ""
    LastBlock = 3
    Paths <- FlatPaths
    Times = {0}
    Sizes = {0}
    Extents <- Chunked
    Payload = 2
    Calls = {"set_file", "set_link", "set_time", "set_data", "del_data", "del_node", "move_node", "stop"}
    MaxSeq = 6
    MaxNode = 4
INVARIANTS ReadsBack SizeWithin TypeOK LogMirror AppendFrontier JustifiedFree
PROPERTIES ReuseRecovery AppendOnly
CHECK_DEADLOCK FALSE
