SPECIFICATION FairSpec
CONSTANTS
    Workers = {w1, w2}
    MaxMessages = 3
    Nobody = Nobody
INVARIANTS TypeOK InOrderOfReceipt NothingPassedOver OneThreadAtATime
PROPERTY AnsweredUnlessAsleep
CHECK_DEADLOCK FALSE
