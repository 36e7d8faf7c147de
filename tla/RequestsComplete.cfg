SPECIFICATION Spec
CONSTANT MaxMessages = 3
INVARIANT ResponsesAreComplete
CHECK_DEADLOCK FALSE
