CONSTANTS
    Proc = {p1, p2, p3}
    Length = {1, 3, 4}
    MaxFds = 2
    SizeMax = 8
    MaxUnlinks = 2
    None = None
SPECIFICATION ShmSpec
SYMMETRY Symmetry
INVARIANT
    Together
CHECK_DEADLOCK FALSE
