CONSTANTS
    Quantum = 4
    ElemSize = 1
    Junk = Junk
    Broken = Broken
    Null = Null
    Val = {0, 1, 2}
    Sock = {0, 1, 2}
    Listener = {0}
    PoolSize = 2
    FdSetSize = 4
    DropsOthers = TRUE
    Impls = {"epoll", "select"}
SPECIFICATION FairSpec
INVARIANTS
    Agrees
    CallbackKnown
PROPERTIES
    ServesAll
CHECK_DEADLOCK FALSE
