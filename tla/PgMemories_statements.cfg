SPECIFICATION Spec
CONSTANTS
    Txs = {t1, t2}
    Whole = Whole
    Ids = {1, 2}
    NoId = NoId
    Contents = {a, b}
    Absent = Absent
    Profiles = {p, q}
    NoVector = NoVector
    NoProfile = NoProfile
    MaxOps = 3
SYMMETRY Symmetry
CHECK_DEADLOCK FALSE
INVARIANTS
    FlagExact
    SupersessionWellFounded
    RecordWritersNeverDeadlock
PROPERTIES
    NoLostUpdate
    ImplementsIndex
