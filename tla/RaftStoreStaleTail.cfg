SPECIFICATION Spec
CONSTANTS
    SegmentSize = 2
    MaxIndex = 3
    MaxTerm = 2
    MaxSaves = 4
    MaxSnapshots = 2
    MaxOverwrites = 1
    MaxCrashes = 0
CHECK_DEADLOCK FALSE
INVARIANTS
    RecoversExactLog
