SPECIFICATION FairInboundSpec
CHECK_DEADLOCK FALSE
CONSTANTS
    C0C1Size = 3
    C2Size = 2
    ChunkBytes = 20
    Versions = {3, 6}
    MaxCalls = 1
    Deadlines = FALSE
    ReadSizes = {3, 16}
    PayloadSizes = {0, 2}
    MaxBytes = 20
INVARIANTS
    InboundTypeOK
    StartsAtFirstChunk
    VersionDecides
    BytesInOrder
    CountsAgree
PROPERTIES
    ImplementsList
    HandshakeEnds
