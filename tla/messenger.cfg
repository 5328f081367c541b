SPECIFICATION FairSpec
CONSTANTS
    u1 = u1
    u2 = u2
    Users = {u1, u2}
    BUFFER_SIZE = 2
    MaxTyped = 3
    MaxFaults = 1
INVARIANTS ScreensAgree TypedOrder
PROPERTY EveryoneSeesAll
CHECK_DEADLOCK FALSE
