CONSTANTS
    m1 = m1
    Mems = {m1}
    Rejectable = {}
    Permits = 1
    MaxRetries = 0
    ClaimLimit = 1
    MaxOutages = 1
SPECIFICATION FairSpec
CHECK_DEADLOCK FALSE
PROPERTY EverythingEmbedded
