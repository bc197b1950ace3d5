\* Reads that begin within a block, of bytes that are all there.
SPECIFICATION DataSpec
CONSTANTS
    Names = {"a"}
    NoName = ""
    LastBlock = 4
    Paths <- FlatPaths
    Times = {0}
    Sizes = {0, 2, 4}
    Extents <- Overlapping
    Payload = 3
    Calls = {"set_file", "set_data"}
    MaxSeq = 3
    MaxNode = 2
INVARIANTS CountsExactly
CHECK_DEADLOCK FALSE
