SPECIFICATION FairSpec
CONSTANTS
    MaxCalls = 2
    MaxBytes = 2
    MaxAsked = 1
    Wrap = 8
INVARIANTS
    StaleVideoIsCleared
    RateSettles
PROPERTIES
    StopReturns
CHECK_DEADLOCK FALSE
