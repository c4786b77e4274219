SPECIFICATION FairSpec
CHECK_DEADLOCK FALSE
CONSTANTS
    a = a
    b = b
    Conns = {a, b}
    ChannelSize = 1
    ChunkSizeOf <- MCChunkSizeOf
    StreamIdOf <- MCStreamIdOf
    Incoming <- MCIncoming
    RTMP_EXTENDED_TIMESTAMP = 3
INVARIANT
    RelayWires
PROPERTIES
    Isolated
    RelayCompletes
