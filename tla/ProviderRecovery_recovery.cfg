CONSTANTS
    m1 = m1
    m2 = m2
    Mems = {m1, m2}
    Rejectable = {m1}
    Permits = 1
    MaxRetries = 1
    ClaimLimit = 2
    MaxOutages = 1
SPECIFICATION FairSpec
CHECK_DEADLOCK FALSE
INVARIANTS LeasesAreCarried CallsBounded
PROPERTIES DrainReturns OutageBacklogIsEmbedded
