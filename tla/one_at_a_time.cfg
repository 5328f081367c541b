SPECIFICATION Spec
CONSTANTS
    t1 = t1
    t2 = t2
    g1 = g1
    Takers = {t1, t2}
    Givers = {g1}
    MaxSets = 2
INVARIANT OneAtATime
CHECK_DEADLOCK FALSE
