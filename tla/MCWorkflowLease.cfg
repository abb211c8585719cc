SPECIFICATION Spec
CONSTANTS
    ahead = ahead
    exact = exact
    behind = behind
    Sessions <- MCSessions
    Owner <- MCOwner
    Skew <- MCSkew
    TTL = 2
    NoLease = NoLease
    MaxTime = 7
    MaxToken = 4
INVARIANTS
    TypeOK
    MutualExclusion
    BlockedAtMostTTL
CHECK_DEADLOCK FALSE
