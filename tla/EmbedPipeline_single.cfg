SPECIFICATION Spec
CONSTANTS
    Ids = {m1}
    Contents = {c1, c2}
    Profiles = {e1}
    Procs = {p1, p2}
    Slots = {s1, s2}
    Absent = Absent
    NoVector = NoVector
    NoProfile = NoProfile
    ChunkSize = 1
    ClaimLimit = 1
    MaxRevision = 1
    MaxTokens = 0
    MaxStops = 0
    MaxFaults = 0
SYMMETRY Symmetry
INVARIANT VectorsCurrent
CHECK_DEADLOCK FALSE
