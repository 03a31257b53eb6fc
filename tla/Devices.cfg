CONSTANTS
    NAdapters = 2
    Modbus = 2
    MaxDevice = 2
    Defaults <- SharedDefaults
SPECIFICATION Spec
INVARIANTS ChoiceIsKept FirstProjectAgrees SectionsAreAligned
PROPERTIES DefaultsRobNobody
