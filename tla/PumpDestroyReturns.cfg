SPECIFICATION StrongFairSpec
CHECK_DEADLOCK FALSE
CONSTANTS
    Users = {owner}
    Owner = owner
    ChannelSize = 1
    MaxBuffered = 1
PROPERTIES
    DestroyReturns
