SPECIFICATION Spec
CONSTANTS
    MaxNotes = 3
    MaxBusy = 2
INVARIANT AgreesInAnyOrder
CHECK_DEADLOCK FALSE
