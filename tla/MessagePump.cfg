SPECIFICATION FairSpec
CHECK_DEADLOCK FALSE
CONSTANTS
    Users = {owner, u}
    Owner = owner
    ChannelSize = 1
    MaxBuffered = 2
INVARIANTS
    ClosedMeansQuiet
    NoSilentLoss
PROPERTIES
    ErrorStaysAfterClose
    LossStopsPumps
    DestroyStopsPumps
    DestroyReleasesCallers
    DestroyReturnsWhenStopped
