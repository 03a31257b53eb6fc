CONSTANTS
    Paths <- MCPaths
    Files = {"a", "b"}
    Openable = {"a", "b", "tmp_a"}
    TmpOf <- MCTmpOf
    DataOf <- MCDataOf
    DiskMayFill = FALSE
    MaxNotes = 2
SPECIFICATION Spec
INVARIANTS DataSurvives SavedNotesAreInTheFile
