\* The handler as coded: a new channel is never put in the GUID table.
CONSTANTS
    g1 = g1
    g2 = g2
    gx = gx
    NoChannel = NoChannel
    Guids <- MCGuids
    Bogus <- gx
    RegisterChannels = FALSE
    MaxDials = 4

SPECIFICATION Spec

PROPERTY ChannelConnects


CHECK_DEADLOCK FALSE
