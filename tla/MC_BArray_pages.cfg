CONSTANTS
    Idx <- Idx5
    IdxMod = 5
    CountMod = 5
    RecsPerPage = 2
    MaxCache = 2
    MaxPages = 3
SPECIFICATION FairSpec
CONSTRAINT FewAfter
INVARIANTS
    CacheIsMapped
    WildOnlyBeyond
    PagesAgree
PROPERTIES
    IsIndexStore
    EvictsOldest
    SurviveUnlessHoled
    StoredAsCut
    MissesNone
    CallsReturn
