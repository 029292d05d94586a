SPECIFICATION Spec
CONSTANTS
    None = None
    Client = {a1}
    RefreshClient = {}
    Code = {k1}
    LegacyCode = {}
    Token = {t1}
    Family = {f1}
    Request = {r1}
SYMMETRY Symmetry
INVARIANTS ReplayRevokesIssued
CHECK_DEADLOCK FALSE
