SPECIFICATION Spec
CONSTANTS
    None = None
    Client = {a1}
    RefreshClient = {a1}
    Code = {k1}
    LegacyCode = {}
    Token = {t1, t2, t3}
    Family = {f1}
    Request = {r1, r2}
SYMMETRY Symmetry
INVARIANTS TypeOK SingleUseUnlessRaced SealedFamilyDead LineageKeepsFamily MintedFromBurned
CHECK_DEADLOCK FALSE
