SPECIFICATION Spec
CONSTANTS
    Units = {6, 10, 20}
    NewUnits = {20}
    Named = {"a"}
    MaxUnits = 4
    Beyond = {"flush"}
INVARIANTS
    StreamsAreOwned
CHECK_DEADLOCK FALSE
VIEW View
