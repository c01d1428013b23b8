SPECIFICATION Spec
CONSTANTS
    Kconfigs <- MCHiddenComment
    Values <- MCValues
    ScrollOffset = 1
    PgJump = 2
    NoItem = NoItem
    Unset = Unset
INVARIANTS
    NeverCrashes
CHECK_DEADLOCK FALSE
