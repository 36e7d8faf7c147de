SPECIFICATION Spec
CONSTANTS
    Uris = {a, b}
    MaxMessages = 4
    None = None
INVARIANT RefusalIsForgotten
CHECK_DEADLOCK FALSE
