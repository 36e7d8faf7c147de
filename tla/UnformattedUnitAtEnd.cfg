SPECIFICATION UnfSpec
CONSTANTS
    Values = {0, 1, 2}
    MaxItems = 2
    MaxWords = 7
    Uses = {"reopen at end", "write at end"}
PROPERTY ImplementsSequentialFile
CHECK_DEADLOCK FALSE
