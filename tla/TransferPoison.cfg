CONSTANTS
    Brokers = {b1}
    Phones = {p1}
    Rows = {r1, r2}
    Leads = {l1}
    Uis = {u1, u2}
    Cron = cron
    None = none
    Dead = dead
    MaxAttempts = 2
    LaterStages = {}
    Mortal = {}
    MaxEpoch = 0
SPECIFICATION FairSpec
PROPERTY RetryGoesOn
