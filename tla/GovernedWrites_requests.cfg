SPECIFICATION Spec
CONSTANTS
    Ctxs = {c1, c2, c3}
    NoCtx = NoCtx
    Principals = {p1, p2}
    k1 = k1
    k2 = k2
    Keys = {k1, k2}
    Unresolved = Unresolved
    Similar <- MCSimilar
    Custom = custom
    Kinds = {custom, project}
    Mems = {m1, m2}
    NoMem = NoMem
    MaxRevision = 3
    Reqs = {r1, r2}
    MaxItems = 2
    MaxContexts = 2
    MaxIssued = 2
SYMMETRY Symmetry
CHECK_DEADLOCK FALSE
INVARIANTS
    ScopeCacheExact
    ReferencesExist
PROPERTIES
    NothingLeftBehind
    LegacyRevisePreserves
