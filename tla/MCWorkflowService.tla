------------------------- MODULE MCWorkflowService --------------------------
(***************************************************************************)
(* The instance of WorkflowService that TLC explores: one plan, one branch *)
(* and one approval request, two callers.  The requests hold a way through *)
(* each graph, the loop of a branch that needs more data, moves from a     *)
(* status to itself, and a few moves the graphs do not have.               *)
(***************************************************************************)
EXTENDS WorkflowService

CONSTANTS plan, branch, approval, c1, c2

MCInvestigations == {branch}
MCRemediations == {plan}
MCApprovals == {approval}
MCCallers == {c1, c2}
MCBirthStatuses == {"running", "pending"}

Req(r, pairs) == {[res |-> r, from |-> p[1], to |-> p[2]] : p \in pairs}

MCRequests ==
    Req(plan, {<<"running", "running">>, <<"running", "failed">>,
               <<"failed", "escalated">>, <<"failed", "running">>,
               <<"running", "succeeded">>, <<"succeeded", "failed">>})
    \cup Req(branch, {<<"running", "needs_more_data">>, <<"needs_more_data", "running">>})
    \cup Req(approval, {<<"pending", "approved">>, <<"pending", "denied">>,
                        <<"denied", "approved">>})
=============================================================================
