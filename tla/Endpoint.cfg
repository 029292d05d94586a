SPECIFICATION PartSpec
CONSTANTS
    None = None
    Slot = {s1, s2}
    Proc = {p1, p2}
    Jti = {"j1"}
    Request <- Requests
    SharedSecret = TRUE
    Skew = 1
    ProofTtl = 3
    NonceLife = 2
    MaxTtl = 2
    MaxEntries = 2
    MaxWait = 1
    Leeway = 1
    MaxTime = 5
    MaxRestarts = 2
    Absent = None
    Client = {"c1", "c2"}
    Query = {s1, s2}
    Token <- Inspected
    Proof <- Shown
    Stateless = FALSE
    Public = TRUE
    Expiry = 1
    MaxInstant = 2
    MaxAnswers = 2
    \* no grace, the default, and one that chrono's Duration cannot hold
    HasPem = TRUE
    Conformance = FALSE
    Asked = {0, 6}
    Default = 2
    DateLimit = 4
    DurationLimit = 5
    HoursLimit = 7
    Lifetime = 2
    MaxRotations = 3
    MaxTokens = 1
    MaxClock = 5
    Blank = None
    Envelope <- Ingested
    EventKey = {"k1", "k2", "e1", "e2"}
    Kept = {"kept"}
    Plugin = {"memory", "recent"}
    Memory = "memory"
    Recent = "recent"
    RedisList = FALSE
    Ingest = {s1, s2}
    KeyTTL = 1
    MaxKeys = 1
    ListCapacity = 1
    MaxEvents = 1
    MaxItems = 3
    MaxCrashes = 1
    \* two threads, one bulkhead with a single permit, and one request that is dropped
    Call = {s1, s2}
    Bulkhead = {"oauth"}
    NoBulkhead = "other"
    FailureThreshold = 2
    SuccessThreshold = 2
    HalfOpenMaxProbes = 2
    MaxConcurrent = 2
    BulkheadMax = 1
    Width = 4
    MaxCutOff = 1
SYMMETRY Symmetry
CHECK_DEADLOCK FALSE
INVARIANT TypeOK
INVARIANT UsedOnce
INVARIANT NonceWindow
INVARIANT SecretsAgree
INVARIANT AnswersDue
INVARIANT KeysServeTheirTime
INVARIANT EventsAccounted
INVARIANT SlotsExact
PROPERTY LimitsHonest
