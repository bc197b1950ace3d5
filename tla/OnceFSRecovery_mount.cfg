\* Renames on a full container can leave a log that no longer mounts.
SPECIFICATION RecSpec
CONSTANTS
    Names = {"w", "x", "z"}
    NoName = ""
    LastBlock = 4
    Paths <- FlatPaths
    Times = {0}
    Sizes = {0}
    Extents <- NoExtents
    Payload = 2
    Calls = {"set_file", "del_node", "move_node", "stop"}
    MaxSeq = 7
    MaxNode = 4
INVARIANTS MountSucceeds
CHECK_DEADLOCK FALSE
