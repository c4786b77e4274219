SPECIFICATION Spec
CHECK_DEADLOCK FALSE
CONSTANTS
    RTMP_EXTENDED_TIMESTAMP = 3
    Cids = {2, 64}
    MinChunkSize = 1
    MaxChunkSize = 2
    WordSize = 2
    Templates <- MediaMessages
    Timestamps = {1, 2, 3, 4}
    MaxMessages = 3
    MaxInFlight = 6
    Habits = {"omit"}
INVARIANTS
    PartialMessages
    DeliveredAsSent
    StaysInSync
