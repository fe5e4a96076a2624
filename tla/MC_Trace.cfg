CONSTANTS
    Thread = {t1, t2, t3}
    Msg = {m1, m2}
    Cap = 2
    None = None
    MaxNum = 2
SYMMETRY Symmetry
SPECIFICATION TraceSpec
INVARIANT
    NoOverrun
PROPERTIES
    IsLog
    PrintsAll
