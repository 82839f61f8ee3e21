CONSTANTS
    Procs = {p1, p2}
    Nobody = nobody
    Dests = {d1}
    MaxStarts = 3
    MaxWrites = 3
    MaxFaults = 1
    MaxOwn = 2
SPECIFICATION MSpec
SYMMETRY Symmetry
CHECK_DEADLOCK FALSE
INVARIANT NothingLost
INVARIANT MigratedWhole
