\* A second truncation, to a larger size, frees the record of the first.
SPECIFICATION RecSpec
CONSTANTS
    Names = {"a"}
    NoName = ""
    LastBlock = 4
    Paths <- FlatPaths
    Times = {0}
    Sizes = {1, 2}
    Extents <- TwoChunks
    Payload = 2
    Calls = {"set_file", "set_data", "del_data", "stop"}
    MaxSeq = 6
    MaxNode = 2
PROPERTIES TruncationLasts
CHECK_DEADLOCK FALSE
