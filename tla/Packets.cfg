SPECIFICATION CodecSpec
CHECK_DEADLOCK FALSE
CONSTANTS
    Base = 16
    NumberBytes = 1
    NameOf <- MCNameOf
    One <- MCOne
    Two <- MCTwo
    RTMP_MIN_CHUNK_SIZE = 4
    RTMP_MAX_CHUNK_SIZE = 16
    Numbers <- MCNumbers
    Strings <- MCStrings
    UInt32s <- MCUInt32s
    Keys <- MCKeys
    SetValues <- MCSetValues
    MaxSets = 3
    Received <- MCReceived
    WordLength = 4
INVARIANTS
    ReadsInside
    SizesExact
    RoundTrip
PROPERTY
    DecodeProgresses
