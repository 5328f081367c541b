SPECIFICATION Spec
CONSTANTS
    c1 = c1
    c2 = c2
    c3 = c3
    anna = anna
    boris = boris
    Clients = {c1, c2}
    Names = {anna, boris, NoName}
    NoName = NoName
    NameOf <- DifferentNames
    MAX_N_CLIENTS = 1
    Arbiter = Arbiter
    Nobody = Nobody
    NoMessage = NoMessage
    AMessageSize = 1
    RMessageSize = 3
    QueueBytes = 5
    TextAsId = 99
    MaxLines = 1
    MaxKills = 1
    MaxRestarts = 2
    SpuriousWakeups = TRUE
    EagerStart = TRUE
INVARIANTS TextsAreNotDuplicated AbortsOnlyOnTooMany
CHECK_DEADLOCK FALSE
