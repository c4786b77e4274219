SPECIFICATION FairSpec
CHECK_DEADLOCK FALSE
CONSTANTS
    Clients <- AllClients
    Noise <- Others
    MaxNoise = 2
    StreamId = 1
    PlainUrl <- MCPlainUrl
    TcUrls <- MCTcUrls
INVARIANTS
    RequestRight
    IdentifiedRight
    AnswersMatch
    StreamAnnounced
    OnlyUndecodableFails
PROPERTY
    SessionStarts
