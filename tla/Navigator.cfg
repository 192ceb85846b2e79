SPECIFICATION SpecUpToNames
CONSTANTS
    Entries = 2
    Ids = {a, b}
    MaxChanges = 1
    Cached = {2}
    MaxRuns = 1
    MaxSignals = 2
    Broken = Broken
    Down = Down
    Legacy = Legacy
    None = None
INVARIANTS OneOwner AdoptedWhole LeavesNothing
PROPERTIES SignalStops CatalogCatchesUp
CHECK_DEADLOCK FALSE
