SPECIFICATION Spec
CHECK_DEADLOCK FALSE
CONSTANTS
    RTMP_EXTENDED_TIMESTAMP = 3
    Cids = {2, 3}
    MinChunkSize = 1
    MaxChunkSize = 2
    WordSize = 1
    DefaultChunkSize = 1
    Users = {u1}
    ChannelSize = 2
    Packets <- ResizePackets
    RawMessages = {}
    StreamIds = {0}
    MaxMessages = 3
    MaxInFlight = 8
    Careful = FALSE
INVARIANT
    LinkInSync
