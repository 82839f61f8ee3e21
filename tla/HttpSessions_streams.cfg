CONSTANTS
    i1 = i1
    i2 = i2
    r1 = r1
    r2 = r2
    Ids = {i1, i2}
    Reqs = {r1, r2}
    MaxSessions = 1
    NoId = NoId
    NoReq = NoReq
SPECIFICATION Spec
SYMMETRY Symmetry
CHECK_DEADLOCK FALSE
PROPERTY ActiveStreamsProtected
