SPECIFICATION Spec
CONSTANTS
    None = None
    Actor = {a1, a2}
    Token = {t1}
    Lineage = {t1}
    Request = {r1, r2}
    TTL = 2
    Capacity = 1
    Expiry = 6
    MaxLatency = 1
    ReplicaLag = 1
    MaxTime = 7
SYMMETRY Symmetry
INVARIANTS TypeOK RevocationReachesCaches
CHECK_DEADLOCK FALSE
