CONSTANTS
    Idx <- Idx6
    IdxMod = 6
    CountMod = 6
    RecsPerPage = 4
    MaxCache = 1
    MaxPages = 2
SPECIFICATION FairSpec
CONSTRAINT FewAfter
INVARIANTS
    CacheIsMapped
    WildOnlyBeyond
    PagesAgree
PROPERTIES
    IsIndexStore
    SurviveUnlessHoled
    CallsReturn
