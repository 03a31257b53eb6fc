CONSTANTS
    Expressions <- MCExpressions
    DefaultExpression = "sum"
    Malformed = {}
    Uses <- MCUses
    Reads <- MCReads
    AdapterOf <- MCAdapterOf
    Reachable = {1, 2}
    PolledQualities = {"Good", "NoValue"}
    ProjectLists <- MCProjects
    MaxIds = 3
    MaxCycles = 2
    MaxEdits = 1
    MaxCrashes = 1
SPECIFICATION Spec
INVARIANTS MeasuredFromOwnPoints LogFileIsComplete
CHECK_DEADLOCK FALSE
