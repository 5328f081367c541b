SPECIFICATION FairSpec
CONSTANTS
    Writers = {w1, w2}
    Readers = {r1, r2}
    MaxSets = 2
    MaxKills = 1
    i1 = i1
    i2 = i2
    i3 = i3
    Instances = {i1, i2, i3}
    NoName = NoName
    TornName = TornName
    MaxLines = 3
    MaxFaults = 1
    kMaxSize = 7
    kChunkSize = 2
    FileSizes <- MCFileSizes
    Zero = Zero
    MaxRuns = 2
    Owners = {w1, w2}
    Guests = {r1, r2}
INVARIANTS NobodyPassesUnread ZeroWillCome NothingIsLeft ChatIsOneOnOne TextsAreWhole
PROPERTIES PrintedOnce EverybodyIsServed
CHECK_DEADLOCK FALSE
