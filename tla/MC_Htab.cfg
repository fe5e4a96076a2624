CONSTANTS
    a = a
    b = b
    c = c
    Key <- MCKey
    Val = {v, w}
    Digest <- MCDigest
    Lens <- MCLens
    UIntMod = 16
    Size = 2
    Node = {n1, n2, n3, n4}
    Null = Null
    Junk = Junk
SYMMETRY Symmetry
SPECIFICATION Spec
INVARIANT
    Linked
PROPERTIES
    IsTable
    CallsAnswer
    DataDeleted
CHECK_DEADLOCK FALSE
