CONSTANTS
    Expressions <- TwoExpressions
    DefaultExpression = "default"
    Malformed = {}
    Uses <- UsesOf
    MaxSignals = 3
    MaxIds = 3
    MaxSamples = 2
    MaxEdits = 3
    DeviceLists <- BothOrFirst
SPECIFICATION Spec
INVARIANTS OriginsFollowTheirSignal VerdictsAreCurrent SeriesAligned
PROPERTIES DraftIsApplied
CHECK_DEADLOCK FALSE
