CONSTANTS
    Now = 100
    ExcerptLimit = 2
    DefaultWindow = 10
    MaxLines = 3
    MaxLaravelLines = 2
    Reserved <- MCReserved
    Foreign <- MCForeign
    Logs <- MCLogs
    Thresholds <- MCThresholds
    LaravelTargets <- MCLaravelTargets

SPECIFICATION Spec


INVARIANT ResolvedIsSucceeded

CHECK_DEADLOCK FALSE
