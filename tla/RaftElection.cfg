SPECIFICATION Spec
CONSTANTS
    Node = {n1, n2, n3}
    NoNode = NoNode
    MaxAppendEntries = 1
    SnapshotThreshold = 0
    MaxRounds = 3
    MaxSends = 2
    MaxIndex = 2
    MaxApplied = 0
    MaxCrashes = 0
    MaxTimeouts = 0
    MaxReads = 0
    MaxTransfers = 0
SYMMETRY NodeSymmetry
CHECK_DEADLOCK FALSE
INVARIANTS
    ElectionSafety
    HintNamesAWinner
    ElectionInv
    LogMatching
    LeaderCompleteness
