CONSTANTS
    NAdapters = 2
    Modbus = 2
    MaxDevice = 2
    Claims <- SharedClaims
    Forms = {1, 2}
    Default = 1
    MaxTickets = 2
SPECIFICATION Spec
INVARIANTS RepliesReachTheirRequest TicketsAccounted DescriptionsAwaited
    DescribedByItsAdapter ExpressionMatchesForm EditorNotSilent
