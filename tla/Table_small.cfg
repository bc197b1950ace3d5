\* Every falling sequence of signs of up to eight entries; three keys and two
\* values, with rows overwritten, updated, deleted and entered anew.
SPECIFICATION MCSpec
CONSTANTS
    MaxLen = 8
    Keys = {1, 2, 3}
    Vals = {1, 2}
    MaxRows = 4
INVARIANTS TypeOK FindsFirst KeepsSorted IndexesAgree QueriesExact
PROPERTIES Ends ImplementsRowSet
CHECK_DEADLOCK FALSE
