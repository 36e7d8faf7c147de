SPECIFICATION Spec
CONSTANT MaxMessages = 3
INVARIANTS OneInitialization UncanceledIsAnswered NothingServedTooLate
CHECK_DEADLOCK FALSE
