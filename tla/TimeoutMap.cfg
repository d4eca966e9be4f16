SPECIFICATION Spec
CONSTANTS
    k1 = k1
    k2 = k2
    k3 = k3
    Keys <- ThreeKeys
    Limit = 1
    MaxClock = 4
    Backward = FALSE
INVARIANTS ListMatchesMap NewestFirst
PROPERTIES CollectsAllExpired
