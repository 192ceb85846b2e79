SPECIFICATION FairSpec
CONSTANTS
    w1 = w1
    w2 = w2
    cache = cache
    Warcs <- OneWarc
    Index = Index
    Caches <- NoCaches
    Here = Here
    There = There
    MaxRecords = 2
    MaxCrashes = 2
    MaxOutside = 0
    Absent = Absent
    None = None
INVARIANTS RecoverGenerationSucceeds
