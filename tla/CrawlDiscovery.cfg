\* Two records, up to two pages, two changes of the index, two stops.
SPECIFICATION FairSpec
CONSTANTS
    r1 = r1
    r2 = r2
    Records <- MCRecords
    MaxPages = 2
    MaxChanges = 2
    MaxStops = 2
    Absent = Absent
    Invalid = Invalid
INVARIANTS OneVersion RefusedOnlyTorn
PROPERTIES CacheCompletes
