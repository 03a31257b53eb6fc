CONSTANTS
    NAdapters = 2
    MaxOwed = 2
    LaunchMayFail = TRUE
    ChannelMayBreak = TRUE
    RepliesInOrder = FALSE
SPECIFICATION Spec
INVARIANTS
    SessionStateAgrees
