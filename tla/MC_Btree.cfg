CONSTANTS
    Key = {1, 2, 3, 4, 5, 6, 7}
    R = 3
    MaxPages = 8
    None = None
    NoKey = NoKey
SPECIFICATION FairSpec
INVARIANTS
    Ascending
PROPERTIES
    FindsExactly
    CallsReturn
CHECK_DEADLOCK FALSE
