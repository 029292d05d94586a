SPECIFICATION Spec
CONSTANTS
    None = None
    Client = {a1, a2}
    RefreshClient = {a1, a2}
    Code = {k0}
    LegacyCode = {k0}
    Token = {t1, t2}
    Family = {f1}
    Request = {r1, r2}
SYMMETRY Symmetry
INVARIANTS ClientBinding
PROPERTIES RevokeOwnOnly
CHECK_DEADLOCK FALSE
