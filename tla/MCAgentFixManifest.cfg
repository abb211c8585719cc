SPECIFICATION Spec
CONSTANTS
    r1 = r1
    r2 = r2
    Operator = Operator
    Original = Original
    Rewritten = Rewritten
    Torn = Torn
    Absent = Absent
    Runs <- MCRuns
    NPaths = 2
    StampOf <- MCStampOf
    ScopeOf <- MCScopeOf
    RewritesOf <- MCRewritesOf
    MaxUndos = 1
INVARIANTS
    ChangedHasManifest
CHECK_DEADLOCK FALSE
