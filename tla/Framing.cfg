CONSTANTS
    Messages = {1, 2, 3}
    Size <- Sizes
    MaxBodySize = 2
    MaxBufferSize = 2
    MaxRuns = 2
    MaxInPipe = 8
SPECIFICATION ReaderSpec
INVARIANTS DeliversWhatWasRead DeliversOnlyMessages
CHECK_DEADLOCK FALSE
