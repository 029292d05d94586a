SPECIFICATION PartSpec
CONSTANTS
    None = None
    Id = {"id"}
    Url = {"id"}
    Node = {"n1"}
    Request = {r1, r2}
    Seeds <- Unknown
    Kinds <- Everything
    Redis = TRUE
    ReadsFail = TRUE
    Cap = 1
    TTL = 1
    Body <- Bodies
    Edit <- Edits
    MaxLatency = 1
    MaxSecret = 2
    MaxVersion = 1
    Client <- Applicants
    Value <- Values
    Base <- Query
    BasePushed <- LeastPushed
    MaxEdits = 2
    Nil = Nil
    Mode = "cimd"
    DocUrl = {"u1", "u2", "u3"}
    Fetcher = {r1, r2}
    Host <- Hosts
    Dotted = {"u3"}
    Malformed = {}
    Denied = {"h2"}
    Allowed = {}
    MaxAge = {9}
    MinTTL = 1
    MaxTTL = 2
    DefaultTTL = 2
    Timeout = 2
    Capacity = 1
    MaxEdition = 1
SYMMETRY Symmetry
CHECK_DEADLOCK FALSE
INVARIANT TypeOK
INVARIANT StaleCopiesDie
INVARIANT NothingSelfGranted
INVARIANT OnlyCheckedServed
INVARIANT RequestBinds
PROPERTY NoTakeover
