------------------------------- MODULE Domain -------------------------------
(***************************************************************************)
(* The status graphs of internal/domain/workflow.go.  A graph is a record  *)
(* from a status to the set of statuses it may be moved to; a status whose *)
(* set is empty falls under the `default: return false` of the Go switch.  *)
(* In all three graphs a move from a status to itself is allowed.          *)
(***************************************************************************)

InvestigationSuccessors ==
    [requested       |-> {"fingerprinted", "rejected"},
     fingerprinted   |-> {"linked", "queued", "running", "rejected"},
     linked          |-> {"running", "completed", "failed"},
     queued          |-> {"running", "rejected"},
     running         |-> {"needs_more_data", "completed", "failed"},
     needs_more_data |-> {"running", "completed", "failed"},
     completed       |-> {},
     failed          |-> {},
     rejected        |-> {}]

RemediationSuccessors ==
    [pending           |-> {"planning"},
     planning          |-> {"awaiting_approval", "approved", "denied", "running",
                            "escalated"},
     awaiting_approval |-> {"approved", "denied"},
     approved          |-> {"running"},
     running           |-> {"monitoring", "succeeded", "failed", "rolled_back",
                            "escalated"},
     monitoring        |-> {"succeeded", "failed"},
     failed            |-> {"rolled_back", "escalated"},
     denied            |-> {},
     succeeded         |-> {},
     rolled_back       |-> {},
     escalated         |-> {}]

ApprovalSuccessors ==
    [pending  |-> {"approved", "denied", "expired"},
     approved |-> {},
     denied   |-> {},
     expired  |-> {}]

InvestigationStatuses == DOMAIN InvestigationSuccessors
RemediationStatuses == DOMAIN RemediationSuccessors
ApprovalStatuses == DOMAIN ApprovalSuccessors

-----------------------------------------------------------------------------
CanMoveInvestigation(from, to) == from = to \/ to \in InvestigationSuccessors[from]

\* A slip in the switch: the monitoring case also lists escalation, and the
\* default branch answers for the succeeded status what monitoring answers.
CanMoveRemediationReopen(from, to) ==
    \/ from = to
    \/ to \in RemediationSuccessors[IF from = "succeeded" THEN "monitoring" ELSE from]

CanMoveRemediation(from, to) == from = to \/ to \in RemediationSuccessors[from]

CanMoveApproval(from, to) == from = to \/ to \in ApprovalSuccessors[from]
=============================================================================
