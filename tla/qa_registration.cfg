SPECIFICATION Spec
CONSTANTS
    c1 = c1
    c2 = c2
    c3 = c3
    anna = anna
    boris = boris
    Clients = {c1, c2, c3}
    Names = {anna, NoName}
    NoName = NoName
    NameOf <- Namesakes
    MAX_N_CLIENTS = 3
    Arbiter = Arbiter
    Nobody = Nobody
    NoMessage = NoMessage
    AMessageSize = 1
    RMessageSize = 3
    QueueBytes = 5
    TextAsId = 99
    MaxLines = 0
    MaxKills = 1
    MaxRestarts = 0
    SpuriousWakeups = TRUE
    EagerStart = FALSE
INVARIANTS IdsUnique RegistrationMatchesTable ResponseIsGuarded AckIsForThisClient
PROPERTIES MailboxKeptUntilTaken
CHECK_DEADLOCK FALSE
