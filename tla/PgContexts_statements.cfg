SPECIFICATION Spec
CONSTANTS
    Ctxs = {c1, c2, c3}
    NoCtx = NoCtx
    Principals = {p1, p2}
    Keys = {k1, k2}
    Unresolved = Unresolved
    Similar = {}
    Kinds = {custom}
    Custom = custom
    Mems = {m1}
    NoMem = NoMem
    MaxRevision = 3
    Txs = {t1, t2}
    Whole = Whole
    MaxOps = 2
SYMMETRY Symmetry
CHECK_DEADLOCK FALSE
INVARIANTS
    HierarchyAcyclic
    ReferencesExist
PROPERTIES
    ChecksHoldAtCommit
