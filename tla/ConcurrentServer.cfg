SPECIFICATION Spec
CONSTANTS
    Uris = {a, b}
    MaxMessages = 4
    None = None
INVARIANTS
    InOrderOfReceipt
    OnlyAwaitHoldsBack
    AnswersAreShared
PROPERTY EveryTurnComes
CHECK_DEADLOCK FALSE
