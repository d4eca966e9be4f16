SPECIFICATION Spec
CONSTANTS
    K = 2
    R = 1
    SeqLimit = 3
    FlushAfter = 2
    Timeout = 1
    GroupLimit = 50
    NoPkg = NoPkg
    PkgLens = {1}
    MaxPkgs = 3
    MaxTime = 3
    Lifetime = 2
    Ticks = {0, 1}
CHECK_DEADLOCK FALSE
INVARIANTS IndexInRange
