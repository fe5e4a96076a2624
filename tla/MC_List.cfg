CONSTANTS
    a = a
    b = b
    c = c
    Data <- MCData
    Key <- MCKey
    Node = {n1, n2, n3, n4}
    Null = Null
    Junk = Junk
SPECIFICATION FairSpec
INVARIANTS
    Linked
    Owned
PROPERTIES
    IsDataList
    FindIsExact
    Ordered
    CallsReturn
    Visits
