SPECIFICATION PartSpec
CONSTANTS
    None = None
    Spent = Spent
    Absent = Absent
    Device = Device
    Fetch = {f1, f2, f3}
    FailureThreshold = 2
    Cooldown = 3
    MaxFetch = 2
    MaxDropped = 1
CHECK_DEADLOCK FALSE
INVARIANT ProbeAccounted
PROPERTY BreakersRecover
PROPERTY CarriedThrough
