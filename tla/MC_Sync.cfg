CONSTANTS
    Thread = {t1, t2}
    Main = main
    SemMax = 2
    InitCount = 1
    Null = Null
    Free = Free
SPECIFICATION FairSpec
INVARIANTS
    Exclusive
    NoUseAfterClose
PROPERTIES
    CallsReturn
CHECK_DEADLOCK FALSE
