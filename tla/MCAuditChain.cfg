CONSTANTS
    s1 = s1
    s2 = s2
    s3 = s3
    none = none
    MaxSkew = 0
    Sessions = {s1, s2, s3}
    NoSession = none
    Host <- MCHost
    Skew <- MCSkew
    MaxClock = 5
SPECIFICATION ChainSpec
INVARIANTS
    NoFork
    NoDanglingHash
CHECK_DEADLOCK FALSE
