SPECIFICATION Spec
CONSTANTS
    Ids = {m1, m2}
    NoId = NoId
    p1 = p1
    b1 = b1
    b2 = b2
    a1 = a1
    c1 = c1
    c2 = c2
    p2 = p2
    Principals = {p1, p2}
    NoOwner = NoOwner
    Policies <- MCPolicies
    Bodies = {b1, b2}
    Attrs = {a1}
    Profiles = {c1, c2}
    Keep = Keep
    Drafts <- MCDrafts
    Updates <- MCUpdates
    Editors = {e1}
    Consolidators = {k1, k2}
    ListLimit = 2
    CandidateLimit = 2
    MaxNow = 1
    MaxRevision = 2
SYMMETRY Symmetry
CHECK_DEADLOCK FALSE
INVARIANTS
    UpdatedIdentifiesBody
    SupersessionWellFounded
PROPERTIES
    NoLostUpdate
    MergeKeepsTheFact
    TombstonesKeepAuthority
