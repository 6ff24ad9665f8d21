SPECIFICATION Spec
SYMMETRY Alike
CONSTANTS
    a = a
    b = b
    k = k
    s = s
    A = A
    B = B
    Workers = {w1, w2}
    Clients = {a, b}
    NoClient = none
    Leads = {k, s}
    KC = {k}
    Lead <- LeadEach
    Brokers = {A, B}
    Effective <- EffectiveEach
    Team <- TeamDelegated
    Sold = {}
    Nearby <- NearbyDelegated
    Happenings = 2
INVARIANTS TypeOK VerdictFollowsLead MeetingFollowsLead
PROPERTIES ExceptionWaits
CHECK_DEADLOCK FALSE
