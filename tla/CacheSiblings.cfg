SPECIFICATION Spec
CONSTANTS
    None = None
    Actor = {a1}
    Token = {t1, t2}
    Lineage = {t1, t2}
    Request = {r1, r2}
    TTL = 1
    Capacity = 1
    Expiry = 2
    MaxLatency = 1
    ReplicaLag = 0
    MaxTime = 3
SYMMETRY Symmetry
INVARIANTS CleanRevocationSticks
CHECK_DEADLOCK FALSE
