SPECIFICATION UnfSpec
CONSTANTS
    Values = {0, 1, 2}
    MaxItems = 2
    MaxWords = 9
    Uses = {}
INVARIANTS
    BetweenRecords
PROPERTIES
    ImplementsSequentialFile
CHECK_DEADLOCK FALSE
