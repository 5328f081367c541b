SPECIFICATION FairSpec
CONSTANTS
    MaxSize = 17
    Byte <- MCByte
    data_a <- MCData_a
    data_b <- MCData_b
    MaxSent = 8
    Years <- MCYears
    MayFail = TRUE
    UINT_MAX = 31
    n_iters = 8
    Numbers <- MCNumbers
    INT_MAX = 9
    MaxFaults = 2
    MaxLosses = 1
    Writers = {w1, w2}
    Readers = {r1, r2}
    MaxKills = 1
INVARIANTS Exchanged AnswersAreRight ManagerEndsLast OneShowsIt
PROPERTY AllEnd
CHECK_DEADLOCK FALSE
