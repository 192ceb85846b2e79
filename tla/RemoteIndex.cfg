\* Two years, two additions to a build, one reset, two faults or restarts.
SPECIFICATION FairIndexSpec
CONSTANTS
    N = 2
    MaxRows = 2
    MaxResets = 1
    MaxFaults = 2
    Absent = Absent
    FromCache = FromCache
INVARIANTS Checked
PROPERTIES Kept CatchesUp
