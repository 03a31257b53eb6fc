CONSTANTS
    NAdapters = 3
    MaxOwed = 2
    LaunchMayFail = FALSE
    ChannelMayBreak = FALSE
    RepliesInOrder = TRUE
SPECIFICATION FairSpec
INVARIANTS
    NoOrphanSession
    SessionStateAgrees
    PollsWholeSession
    OneResultPerCycle
    WaitsForAskedAdapters
PROPERTIES
    WaitingEnds
