SPECIFICATION Spec
CONSTANTS
    r1 = r1
    r2 = r2
    r3 = r3
    v1 = v1
    v2 = v2
    Requests = {r1, r2, r3}
    Checks = {v1, v2}
    Purpose <- PurposeMixed
    MinInterval = 1
    Window = 1
    PerWindow = 2
    Ttl = 2
    MaxAttempts = 2
    RequestsAtOnce = 2
    ChecksAtOnce = 2
    MaxClock = 3
SYMMETRY Alike
INVARIANTS TypeOK UsedOnce RateHolds
PROPERTIES NewestOnly
CHECK_DEADLOCK FALSE
