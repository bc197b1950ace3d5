\* Two handles on two names, with removals and renames under open files, up to
\* a full container.
SPECIFICATION HSpec
CONSTANTS
    Names = {a, b, h1, h2}
    Hidden = {h1, h2}
    NoName = ""
    LastBlock = 5
    Handle = {f1, f2}
    Paths <- FlatPaths
    Times = {0}
    Sizes = {0}
    Extents <- OneExtent
    Payload = 2
    Calls = {"set_file", "set_dir", "set_data", "del_data", "move_node", "del_node", "stop"}
    MaxSeq = 6
    MaxNode = 3
SYMMETRY Alike
INVARIANTS HandlesLive NoOrphans
CHECK_DEADLOCK FALSE
