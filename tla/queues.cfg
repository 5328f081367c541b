SPECIFICATION FairSpec
CONSTANTS
    s1 = s1
    s2 = s2
    r1 = r1
    r2 = r2
    Senders = {s1, s2}
    Receivers = {r1, r2}
    NTexts = 2
    QueueBytes = 2
    MaxQueues = 2
    MaxKills = 1
    NoMessage = NoMessage
    a = a
    b = b
    third = third
    Instances = {a, b, third}
    ReadType <- MCReadType
    WriteType <- MCWriteType
    ChatBytes = 2
    MaxLines = 2
    MaxChatKills = 1
INVARIANTS LastMeansAll PrintedOnceInOrder OnlyTheEndRemoves OneEndForOneLast
PROPERTIES EndsAreReached ChatIsALine
CHECK_DEADLOCK FALSE
