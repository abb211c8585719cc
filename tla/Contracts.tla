------------------------------ MODULE Contracts ------------------------------
(***************************************************************************)
(* The documents of internal/contracts/v1, as far as their Validate        *)
(* methods look at them, and the builder of blocked results that every     *)
(* resolver shares.  A text is filled or it is not: blank is the set of a  *)
(* document's required fields that are empty.  Identifiers, versions and   *)
(* schema URLs are filled in by every builder.                             *)
(***************************************************************************)
EXTENDS Integers

DiagnosisStatuses == {"pending", "complete", "failed", "needs_more_data",
                      "unsupported_source", "blocked_by_safety"}
EvidenceTypes == {"log", "trace", "metric", "db", "config", "cve"}
RedactionStates == {"redacted", "not_needed", "unknown", "failed"}
Safety == {"read_only", "low_risk", "medium_risk", "high_risk", "critical_risk", "blocked"}
PatchTargets == {"file", "db_schema", "config", "dependency", "runtime_setting"}
RollbackTypes == {"snapshot", "reverse_patch", "migration_down", "restore_config",
                  "manual_only", "unavailable"}
SourceTypes == {"automatic", "manual", "integration"}
RemediationStatuses ==
    {"pending", "planning", "awaiting_approval", "approved", "denied", "running",
     "monitoring", "succeeded", "failed", "rolled_back", "escalated"}

NeedsApproval(risk) == risk \in {"high_risk", "critical_risk"}

Confident(value) == value \in 0 .. 100   \* hundredths

\* The fields of a document whose text is empty.
BlankFields(texts) == {field \in DOMAIN texts : texts[field] = ""}

-----------------------------------------------------------------------------
(* Validate                                                                *)

EvidenceValid(e) ==
    /\ e.blank = {}
    /\ e.type \in EvidenceTypes
    /\ e.redaction \in RedactionStates
    /\ e.excerpt => e.redaction \notin {"failed", "unknown"}

RecommendationValid(r) ==
    /\ r.blank = {}
    /\ Confident(r.confidence)
    /\ r.risk \in Safety
    /\ NeedsApproval(r.risk) => r.approval

PatchPlanValid(p) ==
    /\ p.blank = {}
    /\ p.target \in PatchTargets
    /\ p.risk \in Safety
    /\ NeedsApproval(p.risk) => p.approval
    /\ p.risk = "blocked" => p.reasons

RollbackPlanValid(r) ==
    /\ r.type \in RollbackTypes
    /\ r.risk \in Safety
    /\ IF r.type = "unavailable" THEN r.limitations ELSE r.steps
    /\ NeedsApproval(r.risk) => r.review

InvestigationValid(i) ==
    /\ i.blank = {}
    /\ i.source \in SourceTypes
    /\ i.start # 0 /\ i.end # 0   \* 0 is the zero time
    /\ i.start < i.end

DiagnosisValid(d) ==
    /\ d.blank = {}
    /\ d.status \in DiagnosisStatuses
    /\ Confident(d.confidence)
    /\ d.safety \in Safety
    /\ d.status = "complete" => d.evidence # {}
    /\ \A e \in d.evidence : EvidenceValid(e)
    /\ \A r \in d.recommendations : RecommendationValid(r)
    /\ \A p \in d.patch : PatchPlanValid(p)
    /\ \A r \in d.rollback : RollbackPlanValid(r)

PlanValid(p) ==
    /\ p.blank = {}
    /\ p.risk \in Safety
    /\ NeedsApproval(p.risk) => p.approval
    /\ p.status \in RemediationStatuses
    /\ RollbackPlanValid(p.rollback)

\* An attempt that has run names its approval and when it began; one that succeeded
\* has been monitored.
HasRun == {"running", "monitoring", "succeeded", "failed", "rolled_back", "escalated"}

AttemptValid(a) ==
    /\ a.blank = {}
    /\ a.status \in RemediationStatuses
    /\ a.status \in HasRun => a.approver # "" /\ a.started
    /\ a.status = "succeeded" => a.monitor # ""

ReceiptValid(r) == r.blank = {} /\ r.outcome # ""

\* What validateResult of the resolvers asks of the five documents of a result.
ResultValid(r) ==
    /\ InvestigationValid(r.investigation)
    /\ DiagnosisValid(r.diagnosis)
    /\ PlanValid(r.plan)
    /\ AttemptValid(r.attempt)
    /\ ReceiptValid(r.receipt)

-----------------------------------------------------------------------------
(* What the builders have in common                                        *)

Evidence(type) == [blank |-> {}, type |-> type, redaction |-> "redacted", excerpt |-> TRUE]

Recommendation(risk, confidence) ==
    [blank |-> {}, confidence |-> confidence, risk |-> risk,
     approval |-> risk = "blocked"]

PatchPlan(target, risk) ==
    [blank |-> {}, target |-> target, risk |-> risk, approval |-> FALSE, reasons |-> FALSE]

RollbackPlan(type, risk) ==
    [type |-> type, risk |-> risk, steps |-> type # "unavailable", limitations |-> TRUE,
     review |-> risk = "blocked"]

\* A diagnosis that proposes a patch of this risk, and one that proposes none.
Diagnosed(evidence, confidence, recommendation, patch, rollback) ==
    [blank |-> {}, status |-> "complete", confidence |-> confidence,
     safety |-> patch.risk, evidence |-> evidence, recommendations |-> {recommendation},
     patch |-> {patch}, rollback |-> {rollback}]

NotFixable(status, evidence, confidence) ==
    [blank |-> {}, status |-> status, confidence |-> confidence, safety |-> "blocked",
     evidence |-> evidence, recommendations |-> {Recommendation("blocked", confidence)},
     patch |-> {}, rollback |-> {}]

Investigation(start, end) ==
    [blank |-> {}, source |-> "automatic", start |-> start, end |-> end]

Plan(risk, approval, status, rollback) ==
    [blank |-> {}, risk |-> risk, approval |-> approval, status |-> status,
     rollback |-> rollback]

Attempt(status, approver, monitor) ==
    [blank |-> {}, status |-> status, approver |-> approver, started |-> TRUE,
     monitor |-> monitor]

Receipt(outcome) == [blank |-> {}, outcome |-> outcome]

Documents(investigation, diagnosis, plan, attempt, receipt) ==
    [investigation |-> investigation, diagnosis |-> diagnosis, plan |-> plan,
     attempt |-> attempt, receipt |-> receipt]

-----------------------------------------------------------------------------
(* BlockedPlanBuilder: the documents of a remediation that is not made.  A *)
(* reason is filled by every caller; the plan has one of its own if it is  *)
(* not, and the message of the attempt ends in a fixed sentence.           *)

BlockedPlan == Plan("blocked", TRUE, "escalated", RollbackPlan("unavailable", "blocked"))

EscalatedAttempt == Attempt("escalated", "manual_review_required", "not_applied")

EscalatedReceipt == Receipt("escalated")

\* A blocked result, as every resolver builds it.
Blocked(investigation, diagnosis) ==
    Documents(investigation, diagnosis, BlockedPlan, EscalatedAttempt, EscalatedReceipt)

-----------------------------------------------------------------------------
(* What a resolver hands to its caller: the documents, unless there are    *)
(* none, and whether there is an error.  state is not reported: it is what *)
(* has become of the thing the resolver is about.                          *)

NoDocuments == [documents |-> "none"]

Answer(documents, state, error) ==
    [documents |-> documents, state |-> state, error |-> error, response |-> ""]

Refused(state) == Answer(NoDocuments, state, TRUE)

\* A resolver that validates its documents before it returns them.
Validated(documents, state) ==
    IF ResultValid(documents) THEN Answer(documents, state, FALSE) ELSE Refused(state)
=============================================================================
