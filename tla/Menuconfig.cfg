SPECIFICATION Spec
CONSTANTS
    Kconfigs <- MCKconfigs
    Values <- MCValues
    ScrollOffset = 1
    PgJump = 2
    NoItem = NoItem
    Unset = Unset
INVARIANTS
    SelectionVisible
    NeverCrashes
    NothingLost
    RowsOfParents
CHECK_DEADLOCK FALSE
