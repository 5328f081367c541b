SPECIFICATION FairSpec
CONSTANTS
    p1 = p1
    p2 = p2
    p3 = p3
    k1 = k1
    k2 = k2
    Players = {p1, p2, p3}
    Kickers = {k1, k2}
    NoOne = NoOne
    MaxNum = 2
    MaxFaults = 1
    Takers = {t1, t2}
    Givers = {g1, g2}
    MaxSets = 4
INVARIANTS NoUpdateIsLost ConditionIsRemoved
PROPERTIES TurnsAlternate WaiterGetsATurn
CHECK_DEADLOCK FALSE
