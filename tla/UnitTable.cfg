SPECIFICATION Spec
CONSTANTS
    Units = {6, 10, 20}
    NewUnits = {20}
    Named = {"a"}
    MaxUnits = 4
    Beyond = {}
INVARIANTS
    StreamsAreOwned
    ScratchFilesAreDeleted
PROPERTIES
    OpenTouchesOneUnit
CHECK_DEADLOCK FALSE
VIEW View
