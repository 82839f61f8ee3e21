CONSTANTS
    m1 = m1
    Mems = {m1}
    Rejectable = {m1}
    Permits = 1
    MaxRetries = 0
    ClaimLimit = 1
    MaxOutages = 0
SPECIFICATION FairSpec
CHECK_DEADLOCK FALSE
PROPERTY EveryDrainReturns
