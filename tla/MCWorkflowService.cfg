SPECIFICATION FairSpec
CONSTANTS
    plan = plan
    branch = branch
    approval = approval
    c1 = c1
    c2 = c2
    Investigations <- MCInvestigations
    Remediations <- MCRemediations
    Approvals <- MCApprovals
    Callers <- MCCallers
    BirthStatuses <- MCBirthStatuses
    Requests <- MCRequests
    MaxMoves = 2
INVARIANTS
    TypeOK
    AuditTrail
    OutboxMatchesAudit
    AckedIsDurable
PROPERTIES
    TerminalIsFinal
    CallsReturn
    ImplementsLifecycle
CHECK_DEADLOCK FALSE
