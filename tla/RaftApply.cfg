SPECIFICATION ApplySpec
CONSTANTS
    Node = {n1, n2, n3}
    NoNode = NoNode
    MaxAppendEntries = 2
    SnapshotThreshold = 1
    MaxRounds = 2
    MaxSends = 4
    MaxIndex = 2
    MaxApplied = 2
    MaxCrashes = 1
    MaxTimeouts = 0
    MaxReads = 0
    MaxTransfers = 0
SYMMETRY NodeSymmetry
CHECK_DEADLOCK FALSE
INVARIANTS
    StateMachineSafety
    SlicesInRange
    SnapshotsAreCommitted
    WaitersAreOwed
PROPERTIES
    VoteIsFinal
    ImplementsReplicatedLog
