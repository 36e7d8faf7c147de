SPECIFICATION OrphanSpec
CONSTANTS
    Workers = {w1, w2}
    MaxMessages = 3
    Nobody = Nobody
PROPERTY ExitEndsWorkers
CHECK_DEADLOCK FALSE
