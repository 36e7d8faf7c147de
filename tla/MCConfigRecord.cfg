SPECIFICATION Spec
CONSTANTS
    Callers = {c1, c2}
    None = None
    MaxAttempts = 1
    MaxChanges = 1
    MaxRequests = 2
INVARIANT ResponseHasRecord
SYMMETRY Symmetry
CHECK_DEADLOCK FALSE
