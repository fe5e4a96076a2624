CONSTANTS
    Quantum = 6
    ElemSize = 1
    Junk = Junk
    Broken = Broken
    Val = {x, y}
    Null = Null
    MaxSize = 6
SPECIFICATION Spec
INVARIANTS
    InBlock
PROPERTIES
    IsVector
CHECK_DEADLOCK FALSE
