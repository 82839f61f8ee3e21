SPECIFICATION BulkSpec
CONSTANTS
    Ids = {m1}
    Contents = {c1, c2}
    Profiles = {e1, e2}
    Procs = {p1, p2}
    Slots = {s1, s2}
    Absent = Absent
    NoVector = NoVector
    NoProfile = NoProfile
    ChunkSize = 1
    ClaimLimit = 1
    MaxRevision = 1
    MaxTokens = 1
    MaxStops = 0
    MaxFaults = 1
SYMMETRY Symmetry
INVARIANTS VectorsCurrent
PROPERTY ImplementsIndex
CHECK_DEADLOCK FALSE
