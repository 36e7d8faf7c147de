SPECIFICATION Spec
CONSTANTS
    MaxNotes = 3
    MaxBusy = 2
INVARIANT OnlyLatestIsValidated
CHECK_DEADLOCK FALSE
