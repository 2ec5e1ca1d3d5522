SPECIFICATION LimiterSpec
CONSTANTS
    f1 = f1
    f2 = f2
    Fibers = {f1, f2}
    Limit = 2
    Second = 2
    MaxNow = 4
SYMMETRY MC_Symmetry
INVARIANT TypeOK
INVARIANT BurstBound
INVARIANT NoFalseRefusal
