SPECIFICATION FairSpec
CHECK_DEADLOCK FALSE
CONSTANTS
    RTMP_EXTENDED_TIMESTAMP = 3
    Cids = {2, 3, 63}
    MinChunkSize = 2
    MaxChunkSize = 3
    WordSize = 1
    DefaultChunkSize = 2
    Users = {u1, u2}
    ChannelSize = 2
    Packets <- ServerPackets
    RawMessages <- ServerMessages
    StreamIds = {1}
    MaxMessages = 3
    MaxInFlight = 4
    Careful = TRUE
INVARIANTS
    WriterTypeOK
    LinkDelivers
    LinkInSync
    SizesAgree
PROPERTY
    LinkEventuallyDelivers
