\* Three captures, six shards, targets of one or two captures, two stops.
SPECIFICATION FairSpec
CONSTANTS
    a = a
    b = b
    c = c
    Captures <- MCCaptures
    MaxShards = 6
    Targets = {2, 3}
    MaxStops = 2
    Info = Info
    Torn = Torn
    Absent = Absent
INVARIANTS RecordsOnDisk Resumable StoredOnce
PROPERTIES CapturesKept AcquisitionEnds
CHECK_DEADLOCK FALSE
