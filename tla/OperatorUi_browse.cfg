SPECIFICATION Spec
CONSTANTS
    Ids = {m1}
    NoId = NoId
    Ctxs = {c1}
    NoCtx = NoCtx
    Texts = {t1, t2}
    NoDraft = NoDraft
    Original = Original
    Same = Same
    MaxEffort = 3
    MaxInFlight = 0
SYMMETRY Symmetry
INVARIANT WaitsExact
PROPERTIES SavesWhatWasShown DraftNeverLost
CHECK_DEADLOCK FALSE
