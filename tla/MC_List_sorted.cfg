CONSTANTS
    a = a
    b = b
    c = c
    Data <- MCTwoData
    Key <- MCTwoKey
    Node = {n1, n2, n3}
    Null = Null
    Junk = Junk
SPECIFICATION Spec
PROPERTY FindsInSorted
