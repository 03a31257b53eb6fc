CONSTANTS
    MaxRequestId = 9
    ChannelMayBreak = FALSE
    ReadDataErrors = FALSE
    MaxOutstanding = 3
    MaxQueued = 2
    UiMethods <- MCUiMethods
SPECIFICATION FairSpec
PROPERTIES
    HandshakeEnds
    StopEnds
    AnnouncementEnds
