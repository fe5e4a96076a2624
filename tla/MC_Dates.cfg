CONSTANTS
    Words <- MCWords
    Times <- MCTimes
    Zones = {"GMT", "CET"}
    Cases <- MCCases
    None = None
SPECIFICATION Spec
INVARIANTS
    ReadsBack
    InRange
    PartsCombine
CHECK_DEADLOCK FALSE
