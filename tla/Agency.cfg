SPECIFICATION Spec
CONSTANTS
    pilot = pilot
    plain = plain
    a1 = a1
    a2 = a2
    o1 = o1
    o2 = o2
    s1 = s1
    s2 = s2
    Agencies = {a1, a2}
    Campaigns = {pilot, plain}
    Operators = {o1}
    Targets <- TargetsBoth
    Workspace = {pilot}
    Sessions = {s1, s2}
    Tab <- TabOne
    NoSession = nosession
    Submissions = {u1, u2}
    NoForm = noform
    Requests = {q1, q2, q3}
    NoJob = nojob
    Generations = 2
    MaxBegun = 4
SYMMETRY Alike
INVARIANTS TypeOK StopHolds OneResult SessionHolds
PROPERTIES AnswerTrue
CHECK_DEADLOCK FALSE
