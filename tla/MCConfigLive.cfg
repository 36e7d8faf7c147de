SPECIFICATION LiveSpec
CONSTANTS
    Callers = {c1}
    None = None
    MaxAttempts = 1
    MaxChanges = 1
    MaxRequests = 2
PROPERTY CallsReturn
CHECK_DEADLOCK FALSE
