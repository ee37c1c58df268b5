SPECIFICATION Spec
CONSTANTS
    SegmentSize = 2
    MaxIndex = 3
    MaxTerm = 2
    MaxSaves = 3
    MaxSnapshots = 2
    MaxOverwrites = 1
    MaxCrashes = 2
CHECK_DEADLOCK FALSE
INVARIANTS
    TypeOK
    SnapshotReadable
    HardStateSurvives
    RecoversLog
