---------------------------- MODULE LocalReports ----------------------------
(***************************************************************************)
(* The documents of the resolvers that are not started by a log: env       *)
(* defaults (internal/runtime/envvars), framework permissions              *)
(* (internal/runtime/permissions), the permission lane of the readiness    *)
(* command (internal/readinessresolve) and the two Laravel lanes, the      *)
(* compatibility stub and the external agent (internal/laravel).  What     *)
(* they do to the target is in EnvDefaults, Permissions,                   *)
(* ReadinessPermissions, LaravelStub and AgentFix; here its end is one of  *)
(* the facts f of the run.                                                 *)
(***************************************************************************)
EXTENDS Contracts

\* The interval of the documents ends with the run: 2 is now, 1 is some minutes ago.
Recently == Investigation(1, 2)

-----------------------------------------------------------------------------
(* runtime/envvars                                                         *)

EnvRollbackPlan == RollbackPlan("restore_config", "low_risk")

EnvEvidence == {Evidence("config")}

EnvDiagnosis ==
    [NotFixable("complete", EnvEvidence, 80)
        EXCEPT !.safety = "low_risk", !.recommendations = {Recommendation("low_risk", 80)}]

\* written: the documents of a run that reached its end; the others are of a dry run.
EnvReport(written) ==
    Documents(Recently, EnvDiagnosis, Plan("low_risk", FALSE, "approved", EnvRollbackPlan),
              Attempt("succeeded", "auto_approved_non_secret_env_defaults",
                      IF written THEN "healthy" ELSE "dry_run"),
              Receipt(IF written THEN "succeeded" ELSE "dry_run"))

EnvBlocked == Blocked(Recently, NotFixable("blocked_by_safety", EnvEvidence, 86))

\* findings: nothing is missing, defaults are, or a value that has no safe default
EnvFacts == [findings : {"none", "defaults", "secret"}, apply : BOOLEAN, path : BOOLEAN,
             end : {"not_written", "restored", "broken", "written"}]

\* Without findings the report is that of a run that wrote, and nothing was.
EnvRun(f) ==
    IF f.findings = "none" THEN Answer(EnvReport(TRUE), "untouched", FALSE)
    ELSE IF f.findings = "secret" THEN Answer(EnvBlocked, "untouched", FALSE)
    ELSE IF ~f.apply THEN Validated(EnvReport(FALSE), "untouched")
    ELSE IF ~f.path THEN Answer(EnvBlocked, "untouched", FALSE)
    ELSE CASE f.end = "not_written" -> Refused("untouched")
           [] f.end = "written" -> Validated(EnvReport(TRUE), "changed")
           [] OTHER -> Refused(f.end)

-----------------------------------------------------------------------------
(* runtime/permissions                                                     *)

PermissionRollbackPlan == RollbackPlan("reverse_patch", "low_risk")

\* outcome: "succeeded" or "dry_run"
PermissionReport(outcome) ==
    Documents(Recently,
              Diagnosed({Evidence("config")}, 84, Recommendation("low_risk", 82),
                        PatchPlan("runtime_setting", "low_risk"), PermissionRollbackPlan),
              Plan("low_risk", FALSE, "approved", PermissionRollbackPlan),
              Attempt("succeeded", "auto_approved_low_risk_permission_repair",
                      IF outcome = "succeeded" THEN "healthy" ELSE "dry_run"),
              Receipt(outcome))

PermissionBlocked ==
    Blocked(Recently, NotFixable("blocked_by_safety", {Evidence("config")}, 90))

\* policy: the framework is known and its paths are fit to be inspected; operations: what
\* the policy would change; findings: drift, that an operation can repair or not
PermissionFacts ==
    {f \in [policy : BOOLEAN, findings : BOOLEAN, operations : BOOLEAN, apply : BOOLEAN,
            end : {"not_written", "restored", "broken", "verified"}] :
        f.operations => f.findings}

\* The report of a run without operations is the dry run's with another end.
NothingToRepair ==
    [PermissionReport("dry_run") EXCEPT !.attempt.monitor = "healthy",
                                        !.receipt.outcome = "succeeded"]

PermissionRun(f) ==
    IF ~f.policy THEN Validated(PermissionBlocked, "untouched")
    ELSE IF ~ResultValid(PermissionReport("dry_run")) THEN Refused("untouched")
    ELSE IF ~f.apply THEN Answer(PermissionReport("dry_run"), "untouched", FALSE)
    ELSE IF ~f.operations
    THEN Validated(IF f.findings THEN PermissionBlocked ELSE NothingToRepair, "untouched")
    ELSE CASE f.end = "not_written" -> Refused("untouched")
           [] f.end = "verified" -> Validated(PermissionReport("succeeded"), "changed")
           [] OTHER -> Refused(f.end)

-----------------------------------------------------------------------------
(* readinessresolve: the permission lane.  It has no investigation and no  *)
(* diagnosis, and its documents are not validated.  The texts of the plan  *)
(* and of the receipt list the changes, so they are blank if there is none.*)

ChangeSummary(changes) == IF changes THEN "changes" ELSE ""

ResolutionContracts(changes) ==
    LET text == ChangeSummary(changes)
    IN Documents("none", "none",
         [Plan("low_risk", FALSE, "succeeded", RollbackPlan("reverse_patch", "low_risk"))
            EXCEPT !.blank = BlankFields([before |-> text, after |-> text])],
         Attempt("succeeded", "auto-approved-readiness-permission-drift", "healthy"),
         [Receipt("succeeded")
            EXCEPT !.blank = BlankFields([before |-> text, after |-> text, action |-> text])])

\* The words about the rollback go to the action that the receipt reports.
RollbackContracts(changes, restored) ==
    [ResolutionContracts(changes) EXCEPT
        !.plan.status = IF restored THEN "rolled_back" ELSE "failed",
        !.attempt.status = IF restored THEN "rolled_back" ELSE "failed",
        !.attempt.monitor = IF restored THEN "rolled_back" ELSE "rollback_failed",
        !.receipt.outcome = IF restored THEN "rolled_back" ELSE "rollback_failed",
        !.receipt.blank = @ \ {"action"}]

\* The restart is an action of its own.
RestartEvidence(documents) == [documents EXCEPT !.receipt.blank = @ \ {"action"}]

ReadinessFacts ==
    [changes : BOOLEAN,
     end : {"repair_failed", "verified", "verified_after_restart", "restored", "broken"}]

Ended(answer, response) == [answer EXCEPT !.response = response]

ResolvePermissionDrift(f) ==
    LET repaired == IF f.changes THEN "changed" ELSE "untouched"
    IN CASE f.end = "repair_failed" -> Ended(Refused(repaired), "failed")
         [] f.end = "verified" ->
              Ended(Answer(ResolutionContracts(f.changes), repaired, FALSE), "resolved")
         [] f.end = "verified_after_restart" ->
              Ended(Answer(RestartEvidence(ResolutionContracts(f.changes)), repaired, FALSE),
                    "resolved")
         [] f.end = "restored" ->
              Ended(Answer(RollbackContracts(f.changes, TRUE), "restored", TRUE), "failed")
         [] OTHER -> Ended(Answer(RollbackContracts(f.changes, FALSE), "changed", TRUE), "failed")

-----------------------------------------------------------------------------
(* laravel: the compatibility stub                                         *)

StubRollbackPlan == RollbackPlan("reverse_patch", "low_risk")

StubRecommendation == Recommendation("low_risk", 91)

StubPatchPlan == PatchPlan("file", "low_risk")

StubDiagnosis ==
    Diagnosed({Evidence("trace")}, 94, StubRecommendation, StubPatchPlan, StubRollbackPlan)

StubPlan == Plan("low_risk", FALSE, "approved", StubRollbackPlan)

SkippedAttempt == Attempt("succeeded", "dry_run_no_approval_required", "dry_run")

SucceededAttempt == Attempt("succeeded", "auto_approved_low_risk_laravel", "healthy")

DryRunReceipt == Receipt("dry_run")

StubReceipt == Receipt("succeeded")

StubInvestigation == Recently

StubRun(f) ==
    IF ~(InvestigationValid(StubInvestigation) /\ DiagnosisValid(StubDiagnosis)
            /\ PlanValid(StubPlan))
    THEN Refused("untouched")
    ELSE IF ~f.apply
    THEN Answer(Documents(StubInvestigation, StubDiagnosis, StubPlan, SkippedAttempt,
                          DryRunReceipt), "untouched", FALSE)
    ELSE CASE f.end = "verified" ->
                Validated(Documents(StubInvestigation, StubDiagnosis, StubPlan,
                                    SucceededAttempt, StubReceipt), "changed")
           [] OTHER -> Refused(f.end)

-----------------------------------------------------------------------------
(* laravel: no stub fits.  issues is the set of the kinds that were found. *)

EvidenceTypeFor(kind) ==
    IF kind \in {"missing_table", "missing_column"} THEN "db"
    ELSE IF kind \in {"missing_class_in_source", "unknown_laravel_error_page"} THEN "trace"
    ELSE "log"

GenericEvidence(issues, probed) ==
    LET items == {Evidence(EvidenceTypeFor(kind)) : kind \in issues}
                    \cup (IF probed THEN {Evidence("trace")} ELSE {})
    IN IF items # {} THEN items
       ELSE {[Evidence("trace") EXCEPT !.redaction = "not_needed", !.excerpt = FALSE]}

GenericInvestigation == Recently

ManualReview == Recommendation("blocked", 78)

GenericDiagnosis(issues, probed) ==
    [NotFixable("complete", GenericEvidence(issues, probed), 78)
        EXCEPT !.recommendations = {ManualReview}]

ManualReviewPlan == Plan("blocked", TRUE, "escalated", RollbackPlan("unavailable", "blocked"))

LaravelEscalatedAttempt == Attempt("escalated", "manual_review_required", "not_applied")

LaravelEscalatedReceipt == Receipt("escalated")

\* Whatever has become of the target: the caller says so, the documents do not.
UnsupportedLaravel(issues, probed, state) ==
    Validated(Documents(GenericInvestigation, GenericDiagnosis(issues, probed),
                        ManualReviewPlan, LaravelEscalatedAttempt, LaravelEscalatedReceipt),
              state)

AgentRollbackPlan == RollbackPlan("snapshot", "medium_risk")

AgentDiagnosis(issues, probed) ==
    Diagnosed(GenericEvidence(issues, probed) \cup {Evidence("trace")}, 72,
              Recommendation("medium_risk", 72), PatchPlan("file", "medium_risk"),
              AgentRollbackPlan)

AgentPlan(applied) ==
    Plan("medium_risk", FALSE, IF applied THEN "approved" ELSE "awaiting_approval",
         AgentRollbackPlan)

AgentAttempt(applied) ==
    Attempt("succeeded", "external_agent_enabled", IF applied THEN "healthy" ELSE "dry_run")

AgentReceipt(applied) == Receipt(IF applied THEN "succeeded" ELSE "dry_run")

AgentReport(issues, probed, applied) ==
    Validated(Documents(GenericInvestigation, AgentDiagnosis(issues, probed),
                        AgentPlan(applied), AgentAttempt(applied), AgentReceipt(applied)),
              IF applied THEN "changed" ELSE "untouched")

\* How the agent's work ends: no patch that may be applied, a patch that was torn while it
\* was applied, one that the probe refuses and that is undone or not, one that holds.
AgentEnds == {"no_patch", "torn", "restored", "stuck", "verified"}

MaybeRunExternalAgent(issues, f) ==
    CASE f.agent = "no_patch" -> UnsupportedLaravel(issues, f.probed, "untouched")
      [] f.agent \notin {"none", "no_patch"} /\ ~f.apply -> AgentReport(issues, f.probed, FALSE)
      [] f.agent = "torn" -> UnsupportedLaravel(issues, f.probed, "broken")
      [] f.agent = "restored" -> UnsupportedLaravel(issues, f.probed, "restored")
      [] f.agent = "stuck" -> UnsupportedLaravel(issues, f.probed, "changed")
      [] f.agent = "verified" /\ f.apply -> AgentReport(issues, f.probed, TRUE)

\* agent: "none" if no external agent is configured; healthy: only the status of the page
\* counts, and it is no server error
LaravelFacts ==
    {f \in [apply : BOOLEAN, probed : BOOLEAN, healthy : BOOLEAN, agent : AgentEnds \cup {"none"},
            end : {"untouched", "broken", "verified"}] :
        /\ f.healthy => f.probed
        /\ f.agent \in {"restored", "stuck"} => f.probed   \* a page that fails after the patch
        /\ f.agent \in {"torn", "restored", "stuck"} => f.apply}

\* selected: a class that may be stubbed; issues: what the log and the page show, if none is.
LaravelRun(selected, issues, f) ==
    IF f.healthy THEN Refused("untouched")
    ELSE IF selected THEN StubRun(f)
    ELSE IF issues = {} THEN Refused("untouched")
    ELSE IF f.agent = "none" THEN UnsupportedLaravel(issues, f.probed, "untouched")
    ELSE MaybeRunExternalAgent(issues, f)
=============================================================================
