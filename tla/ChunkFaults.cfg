SPECIFICATION FairSpec
CHECK_DEADLOCK FALSE
CONSTANTS
    RTMP_EXTENDED_TIMESTAMP = 3
    Cids = {2, 320}
    MinChunkSize = 2
    MaxChunkSize = 3
    WordSize = 2
    Templates <- FaultyMessages
    Timestamps = {1}
    MaxMessages = 3
    MaxInFlight = 1
    Habits = {"break"}
INVARIANTS
    ReaderTypeOK
    StaysInSync
PROPERTIES
    EventuallyDelivered
    BreakIsDetected
