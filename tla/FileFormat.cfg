CONSTANTS
    Contents <- AllContents
    Texts <- AllTexts
    Positions <- AllPositions
    MaxNotes = 2
    SampleLength = 11
SPECIFICATION Spec
INVARIANTS ExportsOpen NothingMisread NotesAreReadBack
