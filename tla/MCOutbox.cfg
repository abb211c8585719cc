SPECIFICATION Spec
CONSTANTS
    d1 = d1
    d2 = d2
    NEvents = 2
    Dispatchers = {d1, d2}
    Limit = 1
    Nobody = Nobody
INVARIANTS
    TypeOK
    HandsAreExclusive
PROPERTIES
    WaitingIsClaimed
CHECK_DEADLOCK FALSE
