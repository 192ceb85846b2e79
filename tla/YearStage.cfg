\* Two captures, two shards, two shard targets, two settings, three interruptions.
SPECIFICATION FairSpec
CONSTANTS
    a = a
    b = b
    old = old
    new = new
    Captures <- MCCaptures
    MaxShards = 2
    Targets = {1, 2}
    Bindings = {old, new}
    MaxCrashes = 3
    NoIndex = NoIndex
    Partial = Partial
    None = None
INVARIANTS IndexHonest IndexComplete
PROPERTIES CanonicalPrivate ImplementsCatalog PromotionCompletes
