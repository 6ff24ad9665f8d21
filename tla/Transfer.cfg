CONSTANTS
    Brokers = {b1, b2}
    Phones = {p1}
    Rows = {r1, r2}
    Leads = {l1, l2}
    Uis = {u1, u2}
    Cron = cron
    None = none
    Dead = dead
    MaxAttempts = 2
    LaterStages = {"deal"}
    Mortal = {u1, u2, cron}
    MaxEpoch = 1
SPECIFICATION Spec
INVARIANTS TypeOK PostInformed NothingForgotten OneLeadPerRow
PROPERTIES PromiseKept
SYMMETRY Symmetry
