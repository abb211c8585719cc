SPECIFICATION Spec
CONSTANTS
    ahead = ahead
    exact = exact
    behind = behind
    Sessions <- MCSessions
    Owner <- MCOwner
    Skew <- MCNoSkew
    TTL = 2
    NoLease = NoLease
    MaxTime = 6
    MaxToken = 3
INVARIANTS
    HolderHasLargestToken
CHECK_DEADLOCK FALSE
