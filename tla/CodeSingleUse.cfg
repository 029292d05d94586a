SPECIFICATION Spec
CONSTANTS
    None = None
    Client = {a1}
    RefreshClient = {a1}
    Code = {k1}
    LegacyCode = {}
    Token = {t1, t2}
    Family = {f1}
    Request = {r1, r2}
SYMMETRY Symmetry
INVARIANTS CodeSingleUse
CHECK_DEADLOCK FALSE
