CONSTANTS
    r1 = r1
    r2 = r2
    r3 = r3
    l1 = l1
    u1 = u1
    t1 = t1
    t2 = t2
    Requests = {r1, r2, r3, l1}
    Uuids = {u1}
    NoUuid = none
    Targets = {t1, t2}
    NoCall = none
    RateLimit = 2
    Overrun = FALSE
    Uuid <- MCUuid
    Target <- MCTarget
SPECIFICATION Spec
INVARIANTS TypeOK OneCallerPerKey CacheIsTruthful
PROPERTY NoRingAfterJournal
CHECK_DEADLOCK FALSE
