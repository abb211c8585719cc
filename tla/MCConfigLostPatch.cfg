SPECIFICATION Spec
CONSTANTS
    r1 = r1
    r2 = r2
    r3 = r3
    k1 = k1
    k2 = k2
    p1 = p1
    p2 = p2
    Original = Original
    Torn = Torn
    NoFile = NoFile
    Keys <- MCKeys
    Runs <- MCTwoRuns
    KeyOf <- MCTwoKeyOf
    StampOf <- MCTwoStampOf
    PlanOf <- MCTwoPlanOf
    Tracked <- MCTwoRuns
    Hooked <- MCHooked
INVARIANTS
    SucceededPatchStays
CHECK_DEADLOCK FALSE
