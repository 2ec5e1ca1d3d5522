SPECIFICATION PartsSpec
CONSTANTS
    k1 = k1
    k2 = k2
    k3 = k3
    EmptyKey = EmptyKey
    Keys = {k1, k2, k3, EmptyKey}
    Times = {0, 1, 2, 3}
    MaxCalls = 6
    Capacity = 2
    Ttl = 2
    MaxContent = 2
    Frames <- MC_Frames
    Skew = 1
    Issuer = "business"
    MaxInt = 7
    Tokens <- MC_Tokens
    HistBuckets <- MC_HistBuckets
    Word = 16
    Latencies <- MC_Latencies
SYMMETRY MC_Symmetry
INVARIANT IndexMatchesList
INVARIANT NoEarlyForgetting
INVARIANT NoFalseDuplicate
INVARIANT FrameAllOrNothing
INVARIANT TokenSound
INVARIANT HistogramAgrees
CHECK_DEADLOCK FALSE
