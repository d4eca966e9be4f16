SPECIFICATION FairSpec
CONSTANTS
    K = 2
    R = 1
    SeqLimit = 3
    FlushAfter = 2
    Timeout = 0
    GroupLimit = 1
    NoPkg = NoPkg
    PkgLens = {1}
    MaxPkgs = 6
    MaxTime = 1
    Lifetime = 0
    Ticks = {0, 1}
CHECK_DEADLOCK FALSE
 
PROPERTIES LeavesEncoder LoopEnds
