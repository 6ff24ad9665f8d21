CONSTANTS
    c1 = c1
    c2 = c2
    x1 = x1
    a1 = a1
    a2 = a2
    b1 = b1
    y1 = y1
    Calls = {c1, c2, x1}
    Commands = {c1, c2, x1}
    Events = {a1, a2, b1, y1}
    Named = {a1, a2, b1}
    Handlers = {h1, h2}
    NoEvent = none
    MaxDeliveries = 2
    Aging = TRUE
    Early = {x1}
    Lossy = {x1}
    CallOf <- MCCallOf
    SeqOf <- MCSeqOf
SPECIFICATION Spec
SYMMETRY Alike
INVARIANTS TypeOK OneRowPerCall ResultKept LatestWins
CHECK_DEADLOCK FALSE
