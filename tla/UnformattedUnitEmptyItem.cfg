SPECIFICATION UnfSpec
CONSTANTS
    Values = {0, 1, 2}
    MaxItems = 2
    MaxWords = 7
    Uses = {"empty item"}
INVARIANT BetweenRecords
CHECK_DEADLOCK FALSE
