SPECIFICATION BulkSpec
CONSTANTS
    Ids = {m1}
    Contents = {c1}
    Profiles = {e1}
    Procs = {p1, p2}
    Slots = {s1, s2}
    Absent = Absent
    NoVector = NoVector
    NoProfile = NoProfile
    ChunkSize = 1
    ClaimLimit = 1
    MaxRevision = 0
    MaxTokens = 2
    MaxStops = 1
    MaxFaults = 0
SYMMETRY Symmetry
INVARIANTS GuardsExact ClaimsAreCarried NoDoubleInference
CHECK_DEADLOCK FALSE
