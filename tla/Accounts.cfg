SPECIFICATION PartSpec
CONSTANTS
    None = None
    Null = Null
    Unset = None
    Spent = Spent
    MaxAgeAbsent = Absent
    Device = Device
    Tab = {t1, t2}
    PasswordUser = {"p1"}
    SocialUser = {"s1"}
    Req <- Visits
    ReturnMaxAge = 1
    ParTtl = 2
    MaxTime = 2
    MaxStarts = 2
    Csrf = {"c1"}
    UserId = {"u1"}
    Root = "u1"
    Browser = {"b1"}
    Request = {r1, r2}
    Ip = {"a1"}
    Kinds <- Everything
    Edit <- Edits
    MaxPassword = 2
    MaxToken = 2
    Client = {"front", "agent"}
    User = {"user", "peer"}
    LocalUser <- Address
    Scope = {"read", "write"}
    Resource = {"res"}
    Key = {"k1"}
    ClientScope <- Registered
    AllowedActors <- Actors
    Asymmetric = {"agent"}
    JitProvision = TRUE
    TrustDomain = "domain"
    Target = "target"
    MaxDepth = 1
    AccessTtl = 1
    TxnTtl = 1
    JagTtl = 2
    Leeway = 1
    MaxTokens = 4
    MaxRevoked = 1
    MaxClock = 1
SYMMETRY Symmetry
CHECK_DEADLOCK FALSE
INVARIANT TypeOK
INVARIANT DeletedLeaveNothing
INVARIANT DecisionsStick
INVARIANT DerivationFaithful
PROPERTY RequestHonoured
PROPERTY DisabledStaysOut
