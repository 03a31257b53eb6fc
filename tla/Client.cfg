CONSTANTS
    MaxRequestId = 12
    ChannelMayBreak = TRUE
    ReadDataErrors = TRUE
    MaxOutstanding = 4
    MaxQueued = 2
    UiMethods <- MCUiMethods
SPECIFICATION Spec
INVARIANTS
    TypeOK
    RepliesBelongToState
    WaitsForRequest
    AuxTracked
    ProcessServesSession
    IncompatibleLeftAlone
PROPERTIES
    ImplementsContract
