SPECIFICATION Spec
CONSTANTS
    K = 2
    R = 1
    SeqLimit = 3
    FlushAfter = 2
    Timeout = 1
    GroupLimit = 1
    NoPkg = NoPkg
    PkgLens = {1, 2}
    MaxPkgs = 2
    MaxTime = 2
    Lifetime = 1
    Ticks = {0, 1}
CHECK_DEADLOCK FALSE
INVARIANTS LengthOfPackage
