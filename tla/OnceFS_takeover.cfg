\* A write to a full container takes over the only record of its file.
SPECIFICATION CallSpec
CONSTANTS
    Names = {"a", "b"}
    NoName = ""
    LastBlock = 2
    Paths <- FlatPaths
    Times = {0}
    Sizes = {0}
    Extents <- SmallExtents
    Payload = 2
    Calls = {"set_file", "set_data", "stop"}
    MaxSeq = 5
    MaxNode = 4
PROPERTIES ReusesObsolete
CHECK_DEADLOCK FALSE
