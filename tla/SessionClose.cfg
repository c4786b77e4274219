SPECIFICATION FairSpec
CHECK_DEADLOCK FALSE
CONSTANTS
    Clients <- AllClients
    Noise <- Closes
    MaxNoise = 1
    StreamId = 1
    PlainUrl <- MCPlainUrl
    TcUrls <- MCTcUrls
PROPERTY
    ExpectDropsOthers
