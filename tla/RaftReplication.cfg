SPECIFICATION ReplicationSpec
CONSTANTS
    Node = {n1, n2, n3}
    NoNode = NoNode
    MaxAppendEntries = 1
    SnapshotThreshold = 0
    MaxRounds = 2
    MaxSends = 5
    MaxIndex = 3
    MaxApplied = 0
    MaxCrashes = 0
    MaxTimeouts = 1
    MaxReads = 0
    MaxTransfers = 0
SYMMETRY NodeSymmetry
CHECK_DEADLOCK FALSE
INVARIANTS
    TypeOK
    CommittedIsDurable
    CommitIndexAgrees
    MatchIsHeld
PROPERTIES
    BackOffProgress
