SPECIFICATION Spec
CONSTANTS
    Recurring = {retry}
    Retry = retry
    Dropped = {retry}
    OneShots = {r1}
    Validations = {v1, v2}
    NumThreads = 1
    MaxThreads = 3
    Capacity = 1
    Nothing = Nothing
INVARIANTS
    JobInOnePlace
    NoRunsAfterUnschedule
PROPERTIES
    JobsKeepRunning
    SubmitterReturns
    ExitEndsThreads
CHECK_DEADLOCK FALSE
