SPECIFICATION Spec
CONSTANTS
    None = None
    Actor = {a1}
    Token = {t1}
    Lineage = {t1}
    Request = {r1, r2}
    TTL = 2
    Capacity = 1
    Expiry = 5
    MaxLatency = 1
    ReplicaLag = 0
    MaxTime = 6
SYMMETRY Symmetry
INVARIANTS NoStaleEntry
CHECK_DEADLOCK FALSE
