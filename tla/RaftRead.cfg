SPECIFICATION ReadSpec
CONSTANTS
    Node = {n1, n2, n3}
    NoNode = NoNode
    MaxAppendEntries = 2
    SnapshotThreshold = 0
    MaxRounds = 2
    MaxSends = 3
    MaxIndex = 2
    MaxApplied = 1
    MaxCrashes = 0
    MaxTimeouts = 1
    MaxReads = 1
    MaxTransfers = 2
SYMMETRY NodeSymmetry
CHECK_DEADLOCK FALSE
INVARIANTS
    ReadsAreLinearizable
    TransferIsOwned
