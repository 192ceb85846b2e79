SPECIFICATION FairSpec
CONSTANTS
    w1 = w1
    w2 = w2
    cache = cache
    Warcs <- OneWarc
    Index = Index
    Caches <- OneCache
    Here = Here
    There = There
    MaxRecords = 2
    MaxCrashes = 2
    MaxOutside = 1
    Absent = Absent
    None = None
INVARIANTS ReceiptTruthful
PROPERTIES RemoteStaysHonest NoLostUpdate NothingLost PublicationCompletes
