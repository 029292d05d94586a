SPECIFICATION PartSpec
CONSTANTS
    None = None
    Device = {d1}
    Client = {c1}
    User = {u1, u2}
    Request = {r1, r2, r3, r4}
    Slot = {r1, r2, r3}
    Txn = {x1, x2}
    Process = {p1, p2}
    \* one challenge with max_age, one with acr_values that outlives the replay guard
    Challenge = {"aged", "acr"}
    StepUp = {"aged"}
    AcrBound = {"acr"}
    LongLived = {"acr"}
    Browser = {"b1"}
SYMMETRY Symmetry
CHECK_DEADLOCK FALSE
INVARIANT TypeOK
INVARIANT DeliveredOnceUnlessRaced
INVARIANT AsDecided
PROPERTY DenialIsFinal
PROPERTY ImplementsApproval
PROPERTY TransactionApproval
