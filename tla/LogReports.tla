----------------------------- MODULE LogReports -----------------------------
(***************************************************************************)
(* From a signal in a log to the documents of the run: the config          *)
(* resolver (internal/runtime/v2), the readiness command that runs it, the *)
(* restart resolver (internal/runtime/restart), the Goravel adapter with   *)
(* its source patch (internal/frameworks/goravel, cmd/ai-logfixer-goravel) *)
(* and the corpus adapter (internal/signals/loghub).  How the patch is     *)
(* made and undone is in ConfigRemediation, RestartAction and SourceEdit;  *)
(* here its end is one of the facts f of the run.                          *)
(***************************************************************************)
EXTENDS Contracts, Signals

\* A text that is filled in, whatever it says.
Filled == "filled"

-----------------------------------------------------------------------------
(* runtime/v2: config remediation                                          *)

NormalizeOptions(t) ==
    [t EXCEPT !.service = OrElse(@, "", "unknown-service"), !.route = OrElse(@, "", "/orders"),
              !.code = IF @ = 0 /\ t.class = 0 THEN 503 ELSE @]

ConfigInvestigation(signal) == Investigation(signal.start, signal.end)

ConfigRollbackPlan == RollbackPlan("restore_config", "low_risk")

ConfigDiagnosis ==
    Diagnosed({Evidence("log"), Evidence("config")}, 83, Recommendation("low_risk", 81),
              PatchPlan("config", "low_risk"), ConfigRollbackPlan)

ConfigPlan(status) == Plan("low_risk", FALSE, status, ConfigRollbackPlan)

ConfigAttempt == Attempt("succeeded", "auto_approved_low_risk_config_patch", "healthy")

\* restored: the backup is back in place
VerificationFailedPlan(plan) == [plan EXCEPT !.status = "failed"]

VerificationFailedAttempt(restored) ==
    Attempt("failed", "auto_approved_low_risk_config_patch",
            IF restored THEN "rolled_back" ELSE "rollback_failed")

\* Mutant: a rollback is taken to succeed.
ReceiptOfRollback(restored) == Receipt("failed_rolled_back")

VerificationFailedReceipt(restored) ==
    Receipt(IF restored THEN "failed_rolled_back" ELSE "failed_rollback_failed")

ConfigReceipt == Receipt("succeeded")

ConfigBlocked(investigation) ==
    Validated(Blocked(investigation, NotFixable("complete", {Evidence("log")}, 72)), "untouched")

HasConfigPatchDescriptor(f) == f.descriptor

\* A line of the signal that names another family of failures.
NonConfigEvidence(signal) ==
    \E k \in DOMAIN signal.excerpts : signal.excerpts[k].family # "none"

\* What is left of the file when the run ends before it has documents, and after them.
ConfigEnds == {"not_written", "half_written", "hook_failed", "hook_undo_failed", "verified",
               "rolled_back", "rollback_failed"}

ConfigFacts == [descriptor : BOOLEAN, value : BOOLEAN, end : ConfigEnds]

ConfigFailure(investigation, restored) ==
    LET documents == Documents(investigation, ConfigDiagnosis,
                               VerificationFailedPlan(ConfigPlan("running")),
                               VerificationFailedAttempt(restored),
                               VerificationFailedReceipt(restored))
        state == IF restored THEN "restored" ELSE "changed"
    IN IF ResultValid(documents) THEN Answer(documents, state, TRUE) ELSE Refused(state)

\* The patch is made if the documents of the plan are valid.
ConfigExecution(investigation, f) ==
    IF ~(InvestigationValid(investigation) /\ DiagnosisValid(ConfigDiagnosis)
            /\ PlanValid(ConfigPlan("approved")))
    THEN Refused("untouched")
    ELSE CASE f.end = "not_written" -> Refused("untouched")
           [] f.end = "half_written" -> Refused("broken")
           [] f.end = "hook_failed" -> Refused("restored")
           [] f.end = "hook_undo_failed" -> Refused("changed")
           [] f.end = "verified" ->
                Validated(Documents(investigation, ConfigDiagnosis, ConfigPlan("succeeded"),
                                    ConfigAttempt, ConfigReceipt), "changed")
           [] OTHER -> ConfigFailure(investigation, f.end = "rolled_back")

ConfigRun(signal, f) ==
    LET investigation == ConfigInvestigation(signal)
    IN IF ~HasConfigPatchDescriptor(f) \/ NonConfigEvidence(signal) \/ ~f.value
       THEN ConfigBlocked(investigation)
       ELSE ConfigExecution(investigation, f)

\* readinessresolve: whatever comes back without an error is resolved, and a run that
\* failed is answered without its documents.
ResolveConfigDrift(signal, f) ==
    LET run == ConfigRun(signal, [f EXCEPT !.descriptor = TRUE])
    IN IF run.error THEN [Refused(run.state) EXCEPT !.response = "failed"]
                    ELSE [run EXCEPT !.response = "resolved"]

\* The threshold that it passes on: one failed request of this kind is enough.
ReadinessThreshold(t) == [t EXCEPT !.method = "GET", !.code = 0, !.class = 500, !.minCount = 1]

-----------------------------------------------------------------------------
(* runtime/restart                                                         *)

RestartOptions(t) ==
    [t EXCEPT !.service = OrElse(@, "", "unknown-service"), !.method = OrElse(@, "", "GET"),
              !.code = IF @ = 0 /\ t.class = 0 THEN 503 ELSE @]

RestartInvestigation(signal) == Investigation(signal.start, signal.end)

RestartRollbackPlan == RollbackPlan("unavailable", "medium_risk")

RestartDiagnosis ==
    Diagnosed({Evidence("log"), Evidence("config")}, 78, Recommendation("medium_risk", 76),
              PatchPlan("runtime_setting", "medium_risk"), RestartRollbackPlan)

RestartPlan(status) == Plan("medium_risk", FALSE, status, RestartRollbackPlan)

RestartAttempt == Attempt("succeeded", "policy_allowlisted_restart_reload", "healthy")

RestartReceipt == Receipt("succeeded")

RestartBlocked(investigation) ==
    Validated(Blocked(investigation, NotFixable("complete", {Evidence("log")}, 72)), "untouched")

\* allowed: the policy has the action, its command and the probe are acceptable
RestartEnds == {"command_failed", "probe_failed", "verified"}
RestartFacts == [allowed : BOOLEAN, end : RestartEnds]

\* A command that fails, or a probe that does, leaves an error and no record of it.
RestartRun(signal, f) ==
    LET investigation == RestartInvestigation(signal)
        documents == Documents(investigation, RestartDiagnosis, RestartPlan("succeeded"),
                               RestartAttempt, RestartReceipt)
    IN IF ~f.allowed THEN RestartBlocked(investigation)
       ELSE IF ~(InvestigationValid(investigation) /\ DiagnosisValid(RestartDiagnosis)
                    /\ PlanValid(RestartPlan("approved")))
       THEN Refused("untouched")
       ELSE IF f.end = "verified" THEN Validated(documents, "changed") ELSE Refused("changed")

-----------------------------------------------------------------------------
(* frameworks/goravel                                                      *)

\* The interval of the group as it was found, of equal instants too.
GoravelInvestigation(group) == Investigation(group.start, group.end)

\* Exactly one line of the handler panics.
AnalyzePanicPatchSafety(panics) == panics = 1

GoravelEvidence == {Evidence("log"), [Evidence("config") EXCEPT !.redaction = "not_needed"]}

GoravelRollbackPlan(safe) ==
    IF safe THEN RollbackPlan("snapshot", "medium_risk")
            ELSE RollbackPlan("unavailable", "blocked")

GoravelPatchPlan(safe) ==
    [PatchPlan("file", IF safe THEN "medium_risk" ELSE "blocked")
        EXCEPT !.approval = TRUE, !.reasons = ~safe]

GoravelRecommendation(safe) ==
    [Recommendation(IF safe THEN "medium_risk" ELSE "blocked", IF safe THEN 82 ELSE 74)
        EXCEPT !.approval = TRUE]

GoravelDiagnosis(safe) ==
    Diagnosed(GoravelEvidence, IF safe THEN 88 ELSE 78, GoravelRecommendation(safe),
              GoravelPatchPlan(safe), GoravelRollbackPlan(safe))

GoravelPlan(safe) ==
    IF safe THEN Plan("medium_risk", TRUE, "awaiting_approval", GoravelRollbackPlan(TRUE))
            ELSE BlockedPlan

GoravelAttempt(end) ==
    CASE end = "verified" -> Attempt("succeeded", "approved_goravel_source_patch", "healthy")
      [] end = "rolled_back" ->
           Attempt("rolled_back", "approved_goravel_source_patch", "rolled_back")
      [] OTHER -> Attempt("failed", "approved_goravel_source_patch", "failed")

GoravelReceipt(end) ==
    Receipt(CASE end = "verified" -> "succeeded" [] end = "rolled_back" -> "rolled_back"
              [] OTHER -> "failed")

\* What an analysis leaves when nothing is executed: no attempt and no receipt.
NotExecuted == [status |-> "none"]

\* end: how the source edit went; approve: -approve-source-patch; panics: the lines with
\* panic( in the handler that the failing route maps to, if it maps to one; located: the
\* handler is found in its file (the analysis takes the whole file if it is not).
GoravelEnds == {"not_written", "half_written", "rolled_back", "rollback_failed", "verified"}
GoravelFacts == [routed : BOOLEAN, located : BOOLEAN, panics : 0 .. 2, apply : BOOLEAN,
                 approve : BOOLEAN, probe : BOOLEAN, end : GoravelEnds]

EditState(end) ==
    CASE end = "not_written" -> "untouched" [] end = "half_written" -> "broken"
      [] end = "rolled_back" -> "restored" [] OTHER -> "changed"

ExecutePanicPatch(analysis, f) ==
    LET documents == [analysis EXCEPT !.attempt = GoravelAttempt(f.end),
                                      !.receipt = GoravelReceipt(f.end)]
    IN IF analysis.plan.risk = "blocked" \/ ~f.located THEN Answer(analysis, "untouched", TRUE)
       ELSE IF AttemptValid(documents.attempt) /\ ReceiptValid(documents.receipt)
       THEN Answer(documents, EditState(f.end), f.end # "verified")
       ELSE Refused(EditState(f.end))

GoravelRun(group, f) ==
    LET safe == AnalyzePanicPatchSafety(f.panics)
        analysis == Documents(GoravelInvestigation(group), GoravelDiagnosis(safe),
                              GoravelPlan(safe), NotExecuted, NotExecuted)
    IN IF \/ ~f.routed
          \/ ~InvestigationValid(analysis.investigation)
          \/ ~DiagnosisValid(analysis.diagnosis)
          \/ ~PlanValid(analysis.plan)
       THEN Refused("untouched")
       ELSE IF ~f.apply THEN Answer(analysis, "untouched", FALSE)
       ELSE IF ~(f.approve /\ f.probe) THEN Refused("untouched")
       ELSE ExecutePanicPatch(analysis, f)

-----------------------------------------------------------------------------
(* signals/loghub: never a patch.  The path of the log may be blank.       *)

LoghubInvestigation(signal) == Investigation(signal.start, signal.end)

LoghubDiagnosis(path) ==
    [NotFixable("complete",
                {[Evidence("log") EXCEPT !.blank = BlankFields([source |-> path])]}, 76)
        EXCEPT !.recommendations = {Recommendation("blocked", 74)}]

LoghubFacts == [path : {"", Filled}]

LoghubRun(signal, f) ==
    Validated(Blocked(LoghubInvestigation(signal), LoghubDiagnosis(f.path)), "untouched")
=============================================================================
