CONSTANTS
    Idx <- Idx5
    IdxMod = 8
    CountMod = 8
    RecsPerPage = 4
    MaxCache = 1
    MaxPages = 1
SPECIFICATION FairSpec
PROPERTY SearchesReturn
