CONSTANTS
    d1 = d1
    d2 = d2
    d3 = d3
    d4 = d4
    d5 = d5
    Data <- MCData
    Prio <- MCPrio
    JunkPrio = {0, 9}
    Prealloc = {0, 3}
    Increment = 2
    MaxAlloc = 6
    Freed = Freed
    Unset = Unset
SPECIFICATION Spec
INVARIANTS
    HeapHolds
PROPERTIES
    PopsHighest
CHECK_DEADLOCK FALSE
