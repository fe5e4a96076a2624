CONSTANTS
    Elem = {a, b}
    Sizes <- SizesUpTo4
    NoElem = NoElem
    Junk = Junk
SPECIFICATION Spec
INVARIANTS
    NoLeak
    NoJunkOut
PROPERTY FifoUnlessMisplaced
