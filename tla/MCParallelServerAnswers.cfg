SPECIFICATION QuietSpec
CONSTANTS
    Workers = {w1, w2}
    MaxMessages = 3
    Nobody = Nobody
PROPERTY AllRequestsAnswered
CHECK_DEADLOCK FALSE
