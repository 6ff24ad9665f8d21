CONSTANTS
    Callers = {f1, p1}
    Fixation = {f1}
    Brokers = {b1, b2}
    Gates = {g1, g2}
    Foreign = {c1}
    None = none
SYMMETRY Alike
SPECIFICATION Spec
INVARIANTS TypeOK OnePost NotAmbiguous ResolvedIsKnown
PROPERTY RelinkInClear
