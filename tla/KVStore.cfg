SPECIFICATION Spec
CONSTANTS
    Replica = {r1, r2}
    Key = {k1}
    RequestId = {a, b}
    NoId = NoId
    Expected = {0, 1}
    DedupWindow = 2
    MaxLog = 4
SYMMETRY Symmetry
CHECK_DEADLOCK FALSE
INVARIANTS
    TypeOK
    ReplicasAgree
    AtMostOnce
    CompareAndSet
