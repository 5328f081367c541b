SPECIFICATION Spec
CONSTANTS
    c1 = c1
    c2 = c2
    c3 = c3
    anna = anna
    boris = boris
    Clients = {c1, c2}
    Names = {anna, boris, NoName}
    NoName = NoName
    NameOf <- DifferentNames
    MAX_N_CLIENTS = 2
    Arbiter = Arbiter
    Nobody = Nobody
    NoMessage = NoMessage
    AMessageSize = 1
    RMessageSize = 3
    QueueBytes = 6
    TextAsId = 99
    MaxLines = 2
    MaxKills = 1
    MaxRestarts = 0
    SpuriousWakeups = TRUE
    EagerStart = FALSE
INVARIANTS TypeOK OneQuestionUnderWay NoMixups DeliveredToAddressee
PROPERTY MessengerSpec
CHECK_DEADLOCK FALSE
