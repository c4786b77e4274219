SPECIFICATION Spec
CHECK_DEADLOCK FALSE
CONSTANTS
    RTMP_EXTENDED_TIMESTAMP = 3
    Cids = {2}
    MinChunkSize = 1
    MaxChunkSize = 2
    WordSize = 2
    Templates <- WindowMessages
    Timestamps = {0}
    MaxMessages = 3
    MaxInFlight = 1
    Habits = {}
INVARIANTS
    StaysInSync
