CONSTANTS
    Brokers = {b1}
    Phones = {p1}
    Rows = {r1}
    Leads = {l1, l2}
    Uis = {u1}
    Cron = cron
    None = none
    Dead = dead
    MaxAttempts = 2
    LaterStages = {"closed"}
    Mortal = {u1}
    MaxEpoch = 0
SPECIFICATION FairSpec
PROPERTIES RunEnds QueueServed
