SPECIFICATION DamageSpec
CONSTANTS
    SegmentSize = 2
    MaxIndex = 3
    MaxTerm = 2
    MaxSaves = 4
    MaxSnapshots = 0
    MaxOverwrites = 0
    MaxCrashes = 1
CHECK_DEADLOCK FALSE
INVARIANTS
    DamageIsReported
