--------------------------- MODULE IncidentsProofs ---------------------------
(***************************************************************************)
(* Theorems about Incidents, for any logs, targets and thresholds: the     *)
(* documents of a lane are sound at each of its exits, but for what        *)
(* Laravel escalates after an external agent; a stub answers the calls     *)
(* that the code sees; and a signal is found exactly if the log has one.   *)
(*                                                                         *)
(* The last of these follows a log through a filter, a partition by kinds, *)
(* a sort that is not stable and a window.  Each of them keeps entries one *)
(* to one: the rank of an entry among those that are kept, or that come    *)
(* before it, is a bijection.  So what the code counts in a window of the  *)
(* sorted failures is what there is in the log in that interval.           *)
(***************************************************************************)
EXTENDS Incidents, TLAPS, WellFoundedInduction, FiniteSetTheorems, FunctionTheorems

-----------------------------------------------------------------------------
(* What the builders build is valid                                        *)

Admissible == Safety \ {"high_risk", "critical_risk"}

LEMMA RollbackPlanBuilt ==
    ASSUME NEW type \in RollbackTypes, NEW risk \in Admissible
    PROVE  RollbackPlanValid(RollbackPlan(type, risk))
  BY DEF RollbackPlanValid, RollbackPlan, Admissible, NeedsApproval

LEMMA RecommendationBuilt ==
    ASSUME NEW risk \in Admissible, NEW confidence, Confident(confidence)
    PROVE  RecommendationValid(Recommendation(risk, confidence))
  BY DEF RecommendationValid, Recommendation, Admissible, NeedsApproval

LEMMA PatchPlanBuilt ==
    ASSUME NEW kind \in PatchTargets, NEW risk \in Admissible \ {"blocked"}
    PROVE  PatchPlanValid(PatchPlan(kind, risk))
  BY DEF PatchPlanValid, PatchPlan, Admissible, NeedsApproval

LEMMA EvidenceBuilt ==
    ASSUME NEW type \in EvidenceTypes PROVE EvidenceValid(Evidence(type))
  BY DEF EvidenceValid, Evidence, RedactionStates

LEMMA DiagnosisBuilt ==
    ASSUME NEW evidence, evidence # {}, \A e \in evidence : EvidenceValid(e),
           NEW status \in DiagnosisStatuses, NEW confidence, Confident(confidence)
    PROVE  DiagnosisValid(NotFixable(status, evidence, confidence))
<1> DEFINE d == NotFixable(status, evidence, confidence)
<1>1. /\ d.blank = {} /\ d.status = status /\ d.confidence = confidence
      /\ d.safety = "blocked" /\ d.evidence = evidence /\ d.patch = {} /\ d.rollback = {}
      /\ d.recommendations = {Recommendation("blocked", confidence)}
  BY DEF NotFixable
<1>2. "blocked" \in Admissible /\ "blocked" \in Safety
  BY DEF Admissible, Safety
<1>3. \A r \in d.recommendations : RecommendationValid(r)
  BY <1>1, <1>2, RecommendationBuilt
<1> HIDE DEF d
<1>4. DiagnosisValid(d)
  BY <1>1, <1>2, <1>3 DEF DiagnosisValid
<1> QED BY <1>4 DEF d

LEMMA PlanBuilt ==
    ASSUME NEW risk \in Admissible, NEW approval, NEW status \in RemediationStatuses,
           NEW rollback, RollbackPlanValid(rollback)
    PROVE  PlanValid(Plan(risk, approval, status, rollback))
  BY DEF PlanValid, Plan, Admissible, NeedsApproval

LEMMA AttemptBuilt ==
    ASSUME NEW status \in RemediationStatuses, NEW approver, approver # "",
           NEW monitor, monitor # ""
    PROVE  AttemptValid(Attempt(status, approver, monitor))
  BY DEF AttemptValid, Attempt

LEMMA ReceiptBuilt == ASSUME NEW outcome, outcome # "" PROVE ReceiptValid(Receipt(outcome))
  BY DEF ReceiptValid, Receipt

LEMMA RecentlyBuilt == InvestigationValid(Recently)
  BY DEF InvestigationValid, Recently, Investigation, SourceTypes

\* A diagnosis with a patch.
LEMMA PatchDiagnosisBuilt ==
    ASSUME NEW evidence, evidence # {}, \A e \in evidence : EvidenceValid(e),
           NEW confidence, Confident(confidence), NEW r, RecommendationValid(r),
           NEW p, PatchPlanValid(p), NEW b, RollbackPlanValid(b)
    PROVE  DiagnosisValid(Diagnosed(evidence, confidence, r, p, b))
<1> DEFINE d == Diagnosed(evidence, confidence, r, p, b)
<1>1. /\ d.blank = {} /\ d.status = "complete" /\ d.confidence = confidence
      /\ d.safety = p.risk /\ d.evidence = evidence /\ d.patch = {p} /\ d.rollback = {b}
      /\ d.recommendations = {r}
  BY DEF Diagnosed
<1>2. p.risk \in Safety /\ "complete" \in DiagnosisStatuses
  BY DEF PatchPlanValid, DiagnosisStatuses
<1> HIDE DEF d
<1>3. DiagnosisValid(d)
  BY <1>1, <1>2 DEF DiagnosisValid
<1> QED BY <1>3 DEF d

-----------------------------------------------------------------------------
(* The ends of a run                                                       *)

\* Whenever the lane ends with this answer, up to its response, the report is sound.
Sound(l, answer) ==
    /\ answer = [documents |-> answer.documents, state |-> answer.state,
                 error |-> answer.error, response |-> answer.response]
    /\ /\ lane = l
       /\ result.documents = answer.documents
       /\ result.state = answer.state
       /\ result.error = answer.error
       => ReportsAreSound

LEMMA AnswerIsSound ==
    ASSUME NEW l, NEW all, NEW state, NEW error,
           /\ lane = l /\ Reported
           /\ result.documents = all /\ result.state = state /\ result.error = error
           => /\ DocumentsAreValid(all) /\ EscalationIsTotal(all) /\ DryRunIsHarmless(all)
              /\ FailureIsAdmitted(all) /\ SuccessIsReal(all) /\ ChangeIsApproved(all)
    PROVE  Sound(l, Answer(all, state, error))
<1> DEFINE answer == Answer(all, state, error)
<1>1. /\ answer.documents = all /\ answer.state = state /\ answer.error = error
      /\ answer = [documents |-> answer.documents, state |-> answer.state,
                   error |-> answer.error, response |-> answer.response]
  BY DEF Answer
<1> HIDE DEF answer
<1>2. Sound(l, answer)
  BY <1>1 DEF Sound, ReportsAreSound
<1> QED BY <1>2 DEF answer

\* Without documents there is nothing to be wrong in them.
LEMMA RefusedIsSound == ASSUME NEW l, NEW state PROVE Sound(l, Refused(state))
  BY AnswerIsSound DEF Refused, Reported

\* Only the response is given by the caller.
LEMMA EndedIsSound ==
    ASSUME NEW l, NEW answer, NEW other, Sound(other, answer), NEW response,
           lane = l => lane = other
    PROVE  Sound(l, Ended(answer, response))
  BY DEF Sound, Ended

\* The five documents are all there and all valid.
LEMMA AllValid == ASSUME NEW all, ResultValid(all) PROVE DocumentsAreValid(all)
  BY DEF ResultValid, DocumentsAreValid, PlanValid

\* What a resolver validates before it hands it out.
LEMMA ValidatedIsSound ==
    ASSUME NEW l, NEW all, NEW state,
           ResultValid(all) => Sound(l, Answer(all, state, FALSE))
    PROVE  Sound(l, Validated(all, state))
  BY RefusedIsSound DEF Validated

\* A blocked result that has touched nothing, or Laravel's.
LEMMA EscalatedIsSound ==
    ASSUME NEW l, NEW i, NEW d, ResultValid(Blocked(i, d)), NEW state,
           state = "untouched" \/ l = "laravel"
    PROVE  Sound(l, Answer(Blocked(i, d), state, FALSE))
<1> DEFINE all == Blocked(i, d)
<1>1. DocumentsAreValid(all)
  BY AllValid
<1>2. /\ all.plan.risk = "blocked" /\ all.plan.approval = TRUE
      /\ all.plan.status = "escalated" /\ all.attempt.status = "escalated"
      /\ all.attempt.monitor = "not_applied" /\ all.receipt.outcome = "escalated"
  BY DEF Blocked, Documents, BlockedPlan, EscalatedAttempt, EscalatedReceipt, Plan, Attempt,
         Receipt
<1> HIDE DEF all
<1>3. ASSUME lane = l, result.state = state
      PROVE  EscalationIsTotal(all) /\ ChangeIsApproved(all)
  BY <1>2, <1>3 DEF EscalationIsTotal, ChangeIsApproved
<1>4. DryRunIsHarmless(all) /\ FailureIsAdmitted(all) /\ SuccessIsReal(all)
  BY <1>2 DEF DryRunIsHarmless, FailureIsAdmitted, SuccessIsReal
<1> QED BY <1>1, <1>3, <1>4, AnswerIsSound DEF all

\* A plan that needs no approval, and was not escalated.
Ordinary(plan) == plan.approval = FALSE /\ plan.status # "escalated"

\* A run that succeeded, and changed what it is about unless there was nothing to change.
LEMMA SucceededIsSound ==
    ASSUME NEW l, NEW all, lane = l => DocumentsAreValid(all), Ordinary(all.plan),
           all.attempt.status = "succeeded", all.attempt.monitor = "healthy",
           all.receipt.outcome = "succeeded",
           NEW state, state = "changed" \/ (l \in LocalLanes /\ state = "untouched")
    PROVE  Sound(l, Answer(all, state, FALSE))
<1>1. EscalationIsTotal(all) /\ ChangeIsApproved(all)
  BY DEF EscalationIsTotal, ChangeIsApproved, Ordinary
<1>2. ASSUME lane = l, result.state = state, result.error = FALSE
      PROVE  DryRunIsHarmless(all) /\ FailureIsAdmitted(all) /\ SuccessIsReal(all)
  BY <1>2 DEF DryRunIsHarmless, FailureIsAdmitted, SuccessIsReal
<1> QED BY <1>1, <1>2, AnswerIsSound

LEMMA DryRunIsSound ==
    ASSUME NEW l, NEW all, lane = l => DocumentsAreValid(all), Ordinary(all.plan),
           all.attempt.status = "succeeded", all.attempt.monitor = "dry_run",
           all.receipt.outcome = "dry_run"
    PROVE  Sound(l, Answer(all, "untouched", FALSE))
<1>1. EscalationIsTotal(all) /\ ChangeIsApproved(all)
  BY DEF EscalationIsTotal, ChangeIsApproved, Ordinary
<1>2. ASSUME result.state = "untouched", result.error = FALSE
      PROVE  DryRunIsHarmless(all) /\ FailureIsAdmitted(all) /\ SuccessIsReal(all)
  BY <1>2 DEF DryRunIsHarmless, FailureIsAdmitted, SuccessIsReal
<1> QED BY <1>1, <1>2, AnswerIsSound

\* A run that failed, with an error, and says of a rollback what has become of it.
LEMMA FailedIsSound ==
    ASSUME NEW l, NEW all, lane = l => DocumentsAreValid(all),
           all.plan.status # "escalated",
           all.plan.approval = FALSE \/ all.attempt.approver = "approved_goravel_source_patch",
           all.attempt.status \in {"failed", "rolled_back"},
           all.attempt.monitor \in {"failed", "rolled_back", "rollback_failed"},
           all.receipt.outcome \in {"failed", "rolled_back", "rollback_failed",
                                    "failed_rolled_back", "failed_rollback_failed"},
           NEW state,
           \/ all.attempt.monitor = "rolled_back"
           \/ all.receipt.outcome \in {"rolled_back", "failed_rolled_back"}
           => state = "restored"
    PROVE  Sound(l, Answer(all, state, TRUE))
<1>1. EscalationIsTotal(all)
  BY DEF EscalationIsTotal
<1>2. ASSUME result.state = state, result.error = TRUE
      PROVE  DryRunIsHarmless(all) /\ FailureIsAdmitted(all) /\ SuccessIsReal(all)
  BY <1>2 DEF DryRunIsHarmless, FailureIsAdmitted, SuccessIsReal
<1>3. ChangeIsApproved(all)
  BY DEF ChangeIsApproved, NotExecuted
<1> QED BY <1>1, <1>2, <1>3, AnswerIsSound

-----------------------------------------------------------------------------
(* The lanes that are started by a log                                     *)

LEMMA ConfigFailureSound ==
    ASSUME NEW l, NEW i, NEW restored \in BOOLEAN PROVE Sound(l, ConfigFailure(i, restored))
<1> DEFINE all == Documents(i, ConfigDiagnosis, VerificationFailedPlan(ConfigPlan("running")),
                            VerificationFailedAttempt(restored),
                            VerificationFailedReceipt(restored))
           state == IF restored THEN "restored" ELSE "changed"
<1>1. CASE ~ ResultValid(all)
  BY <1>1, RefusedIsSound DEF ConfigFailure
<1>2. CASE ResultValid(all)
  <2>1. ConfigFailure(i, restored) = Answer(all, state, TRUE)
    BY <1>2 DEF ConfigFailure
  <2>2. /\ all.plan.status = "failed" /\ all.plan.approval = FALSE
        /\ all.attempt.status = "failed"
        /\ all.attempt.monitor = IF restored THEN "rolled_back" ELSE "rollback_failed"
        /\ all.receipt.outcome = IF restored THEN "failed_rolled_back"
                                             ELSE "failed_rollback_failed"
    BY DEF Documents, VerificationFailedPlan, ConfigPlan, VerificationFailedAttempt,
           VerificationFailedReceipt, Plan, Attempt, Receipt
  <2>3. DocumentsAreValid(all)
    BY <1>2, AllValid
  <2> HIDE DEF all
  <2>4. CASE restored
    BY <2>1, <2>2, <2>3, <2>4, FailedIsSound
  <2>5. CASE ~ restored
    BY <2>1, <2>2, <2>3, <2>5, FailedIsSound
  <2> QED BY <2>4, <2>5
<1> QED BY <1>1, <1>2

LEMMA ConfigSound ==
    ASSUME NEW l, NEW s, NEW f \in ConfigFacts PROVE Sound(l, ConfigRun(s, f))
<1> DEFINE i == ConfigInvestigation(s)
           all == Documents(i, ConfigDiagnosis, ConfigPlan("succeeded"), ConfigAttempt,
                            ConfigReceipt)
<1>1. Sound(l, ConfigBlocked(i))
  BY EscalatedIsSound, ValidatedIsSound DEF ConfigBlocked
<1>2. Sound(l, Validated(all, "changed"))
  <2>1. /\ Ordinary(all.plan) /\ all.attempt.status = "succeeded"
        /\ all.attempt.monitor = "healthy" /\ all.receipt.outcome = "succeeded"
    BY DEF Ordinary, Documents, ConfigPlan, ConfigAttempt, ConfigReceipt, Plan, Attempt,
           Receipt
  <2> HIDE DEF all
  <2> QED BY <2>1, AllValid, SucceededIsSound, ValidatedIsSound
<1> HIDE DEF i
<1>3. Sound(l, ConfigExecution(i, f))
  <2>1. CASE ~ (InvestigationValid(i) /\ DiagnosisValid(ConfigDiagnosis)
                   /\ PlanValid(ConfigPlan("approved")))
    BY <2>1, RefusedIsSound DEF ConfigExecution
  <2>2. CASE /\ InvestigationValid(i) /\ DiagnosisValid(ConfigDiagnosis)
             /\ PlanValid(ConfigPlan("approved"))
    <3>1. f.end \in ConfigEnds
      BY DEF ConfigFacts
    <3>2. CASE f.end = "verified"
      BY <2>2, <3>2, <1>2 DEF ConfigExecution
    <3>3. CASE f.end \in {"rolled_back", "rollback_failed"}
      BY <2>2, <3>3, ConfigFailureSound DEF ConfigExecution
    <3>4. CASE f.end \in {"not_written", "half_written", "hook_failed", "hook_undo_failed"}
      BY <2>2, <3>4, RefusedIsSound DEF ConfigExecution
    <3> QED BY <3>1, <3>2, <3>3, <3>4 DEF ConfigEnds
  <2> QED BY <2>1, <2>2
<1> QED BY <1>1, <1>3 DEF ConfigRun, i

LEMMA ReadinessConfigSound ==
    ASSUME NEW l, NEW s, NEW f \in ConfigFacts PROVE Sound(l, ResolveConfigDrift(s, f))
<1> DEFINE run == ConfigRun(s, [f EXCEPT !.descriptor = TRUE])
<1>1. [f EXCEPT !.descriptor = TRUE] \in ConfigFacts
  BY DEF ConfigFacts
<1>2. Sound(l, run)
  BY <1>1, ConfigSound
<1> HIDE DEF run
<1>3. Sound(l, [Refused(run.state) EXCEPT !.response = "failed"])
  BY RefusedIsSound, EndedIsSound DEF Ended
<1>4. Sound(l, [run EXCEPT !.response = "resolved"])
  BY <1>2, EndedIsSound DEF Ended
<1> QED BY <1>3, <1>4 DEF ResolveConfigDrift, run

LEMMA RestartSound ==
    ASSUME NEW l, NEW s, NEW f \in RestartFacts PROVE Sound(l, RestartRun(s, f))
<1> DEFINE i == RestartInvestigation(s)
           all == Documents(i, RestartDiagnosis, RestartPlan("succeeded"), RestartAttempt,
                            RestartReceipt)
<1>1. Sound(l, RestartBlocked(i))
  BY EscalatedIsSound, ValidatedIsSound DEF RestartBlocked
<1>2. Sound(l, Validated(all, "changed"))
  <2>1. /\ Ordinary(all.plan) /\ all.attempt.status = "succeeded"
        /\ all.attempt.monitor = "healthy" /\ all.receipt.outcome = "succeeded"
    BY DEF Ordinary, Documents, RestartPlan, RestartAttempt, RestartReceipt, Plan, Attempt,
           Receipt
  <2> HIDE DEF all
  <2> QED BY <2>1, AllValid, SucceededIsSound, ValidatedIsSound
<1> QED BY <1>1, <1>2, RefusedIsSound DEF RestartRun

LEMMA LoghubSound ==
    ASSUME NEW l, NEW s, NEW f \in LoghubFacts PROVE Sound(l, LoghubRun(s, f))
  BY EscalatedIsSound, ValidatedIsSound DEF LoghubRun

\* An analysis of Goravel that is not executed.
LEMMA AnalysisSound ==
    ASSUME NEW l, NEW i, NEW d, NEW plan, InvestigationValid(i), DiagnosisValid(d),
           PlanValid(plan), NEW error
    PROVE  Sound(l, Answer(Documents(i, d, plan, NotExecuted, NotExecuted), "untouched", error))
<1> DEFINE all == Documents(i, d, plan, NotExecuted, NotExecuted)
<1>1. /\ all.investigation = i /\ all.diagnosis = d /\ all.plan = plan
      /\ all.attempt = NotExecuted /\ all.receipt = NotExecuted
  BY DEF Documents
<1> HIDE DEF all
<1>2. DocumentsAreValid(all)
  BY <1>1 DEF DocumentsAreValid, PlanValid
<1>3. /\ EscalationIsTotal(all) /\ DryRunIsHarmless(all) /\ FailureIsAdmitted(all)
      /\ SuccessIsReal(all)
  BY <1>1 DEF EscalationIsTotal, DryRunIsHarmless, FailureIsAdmitted, SuccessIsReal
<1>4. ASSUME result.state = "untouched" PROVE ChangeIsApproved(all)
  BY <1>4 DEF ChangeIsApproved
<1> QED BY <1>2, <1>3, <1>4, AnswerIsSound DEF all

LEMMA GoravelPatchSound ==
    ASSUME NEW l, NEW i, NEW d, NEW plan, InvestigationValid(i), DiagnosisValid(d),
           PlanValid(plan), plan.status # "escalated" \/ plan.risk = "blocked",
           NEW f \in GoravelFacts
    PROVE  Sound(l, ExecutePanicPatch(Documents(i, d, plan, NotExecuted, NotExecuted), f))
<1> DEFINE analysis == Documents(i, d, plan, NotExecuted, NotExecuted)
           all == [analysis EXCEPT !.attempt = GoravelAttempt(f.end),
                                   !.receipt = GoravelReceipt(f.end)]
<1> SUFFICES Sound(l, ExecutePanicPatch(analysis, f))
  OBVIOUS
<1>0. analysis.plan = plan
  BY DEF Documents
<1>1. CASE analysis.plan.risk = "blocked" \/ ~ f.located
  BY <1>1, AnalysisSound DEF ExecutePanicPatch
<1>2. CASE ~ (analysis.plan.risk = "blocked" \/ ~ f.located)
  <2>2. plan.status # "escalated"
    BY <1>0, <1>2
  <2>3. /\ all.investigation = i /\ all.diagnosis = d /\ all.plan = plan
        /\ all.attempt = GoravelAttempt(f.end) /\ all.receipt = GoravelReceipt(f.end)
    <3>1. analysis = Documents(i, d, plan, NotExecuted, NotExecuted)
      OBVIOUS
    <3>2. all = [analysis EXCEPT !.attempt = GoravelAttempt(f.end),
                                 !.receipt = GoravelReceipt(f.end)]
      OBVIOUS
    <3> HIDE DEF analysis, all
    <3> QED BY <3>1, <3>2 DEF Documents
  <2>1. ExecutePanicPatch(analysis, f) =
           IF AttemptValid(all.attempt) /\ ReceiptValid(all.receipt)
           THEN Answer(all, EditState(f.end), f.end # "verified") ELSE Refused(EditState(f.end))
    BY <1>2 DEF ExecutePanicPatch
  <2> HIDE DEF all, analysis
  <2>4. CASE ~ (AttemptValid(all.attempt) /\ ReceiptValid(all.receipt))
    BY <2>1, <2>4, RefusedIsSound
  <2>5. CASE AttemptValid(all.attempt) /\ ReceiptValid(all.receipt)
    <3>1. ExecutePanicPatch(analysis, f) = Answer(all, EditState(f.end), f.end # "verified")
      BY <2>1, <2>5
    <3>2. DocumentsAreValid(all)
      BY <2>3, <2>5 DEF DocumentsAreValid, PlanValid
    <3>3. CASE f.end = "verified"
      <4>1. /\ all.attempt.status = "succeeded" /\ all.attempt.monitor = "healthy"
            /\ all.attempt.approver = "approved_goravel_source_patch"
            /\ all.receipt.outcome = "succeeded" /\ EditState(f.end) = "changed"
        BY <2>3, <3>3 DEF GoravelAttempt, GoravelReceipt, Attempt, Receipt, EditState
      <4>2. EscalationIsTotal(all) /\ ChangeIsApproved(all)
        BY <2>2, <2>3, <4>1 DEF EscalationIsTotal, ChangeIsApproved, NotExecuted
      <4>3. ASSUME result.state = "changed", result.error = FALSE
            PROVE  DryRunIsHarmless(all) /\ FailureIsAdmitted(all) /\ SuccessIsReal(all)
        BY <4>1, <4>3 DEF DryRunIsHarmless, FailureIsAdmitted, SuccessIsReal
      <4> QED BY <3>1, <3>2, <3>3, <4>1, <4>2, <4>3, AnswerIsSound
    <3>4. CASE f.end = "rolled_back"
      <4>1. /\ all.attempt.status = "rolled_back" /\ all.attempt.monitor = "rolled_back"
            /\ all.attempt.approver = "approved_goravel_source_patch"
            /\ all.receipt.outcome = "rolled_back" /\ EditState(f.end) = "restored"
        BY <2>3, <3>4 DEF GoravelAttempt, GoravelReceipt, Attempt, Receipt, EditState
      <4> QED BY <2>2, <2>3, <3>1, <3>2, <3>4, <4>1, FailedIsSound
    <3>5. CASE f.end \in {"not_written", "half_written", "rollback_failed"}
      <4>1. /\ all.attempt.status = "failed" /\ all.attempt.monitor = "failed"
            /\ all.attempt.approver = "approved_goravel_source_patch"
            /\ all.receipt.outcome = "failed"
        BY <2>3, <3>5 DEF GoravelAttempt, GoravelReceipt, Attempt, Receipt
      <4> QED BY <2>2, <2>3, <3>1, <3>2, <3>5, <4>1, FailedIsSound
    <3> QED BY <3>3, <3>4, <3>5 DEF GoravelFacts, GoravelEnds
  <2> QED BY <2>4, <2>5
<1> QED BY <1>1, <1>2

LEMMA GoravelSound ==
    ASSUME NEW l, NEW group, NEW f \in GoravelFacts PROVE Sound(l, GoravelRun(group, f))
<1> DEFINE safe == AnalyzePanicPatchSafety(f.panics)
           i == GoravelInvestigation(group)
           d == GoravelDiagnosis(safe)
           plan == GoravelPlan(safe)
           analysis == Documents(i, d, plan, NotExecuted, NotExecuted)
<1>1. /\ analysis.investigation = i /\ analysis.diagnosis = d /\ analysis.plan = plan
  BY DEF Documents
<1>2. plan.status # "escalated" \/ plan.risk = "blocked"
  BY DEF GoravelPlan, BlockedPlan, Plan
<1> HIDE DEF i, d, plan
<1>3. CASE f.routed /\ InvestigationValid(i) /\ DiagnosisValid(d) /\ PlanValid(plan)
  <2>1. Sound(l, Answer(analysis, "untouched", FALSE))
    BY <1>3, AnalysisSound
  <2>2. Sound(l, ExecutePanicPatch(analysis, f))
    BY <1>2, <1>3, GoravelPatchSound
  <2> QED BY <1>1, <1>3, <2>1, <2>2, RefusedIsSound DEF GoravelRun, i, d, plan
<1>4. CASE ~ (f.routed /\ InvestigationValid(i) /\ DiagnosisValid(d) /\ PlanValid(plan))
  BY <1>1, <1>4, RefusedIsSound DEF GoravelRun, i, d, plan
<1> QED BY <1>3, <1>4

-----------------------------------------------------------------------------
(* The lanes that are started by a policy.  Some of their documents are    *)
(* handed out unvalidated.                                                 *)

\* The documents of a run that succeeded, or that would have.
Report(i, d, plan, approver, done) ==
    Documents(i, d, plan,
              Attempt("succeeded", approver, IF done THEN "healthy" ELSE "dry_run"),
              Receipt(IF done THEN "succeeded" ELSE "dry_run"))

LEMMA ReportBuilt ==
    ASSUME NEW i, InvestigationValid(i), NEW d, DiagnosisValid(d), NEW plan, PlanValid(plan),
           NEW approver, approver # "", NEW done \in BOOLEAN
    PROVE  ResultValid(Report(i, d, plan, approver, done))
<1> DEFINE monitor == IF done THEN "healthy" ELSE "dry_run"
           outcome == IF done THEN "succeeded" ELSE "dry_run"
           attempt == Attempt("succeeded", approver, monitor)
           all == Documents(i, d, plan, attempt, Receipt(outcome))
<1>1. AttemptValid(attempt)
  BY AttemptBuilt DEF RemediationStatuses
<1>2. ReceiptValid(Receipt(outcome))
  BY ReceiptBuilt
<1> HIDE DEF attempt, outcome
<1>3. ResultValid(all)
  BY <1>1, <1>2 DEF ResultValid, Documents
<1> QED BY <1>3 DEF Report, attempt, outcome

LEMMA ReportIsSound ==
    ASSUME NEW l, NEW i, NEW d, NEW plan, Ordinary(plan), NEW approver, NEW done \in BOOLEAN,
           ResultValid(Report(i, d, plan, approver, done)),
           NEW state,
           IF done THEN state = "changed" \/ (l \in LocalLanes /\ state = "untouched")
                   ELSE state = "untouched"
    PROVE  Sound(l, Answer(Report(i, d, plan, approver, done), state, FALSE))
<1> DEFINE all == Report(i, d, plan, approver, done)
<1>1. /\ all.plan = plan /\ all.attempt.status = "succeeded"
      /\ all.attempt.monitor = IF done THEN "healthy" ELSE "dry_run"
      /\ all.receipt.outcome = IF done THEN "succeeded" ELSE "dry_run"
  BY DEF Report, Documents, Attempt, Receipt
<1> HIDE DEF all
<1>2. DocumentsAreValid(all)
  BY AllValid DEF all
<1>3. CASE done
  BY <1>1, <1>2, <1>3, SucceededIsSound DEF all
<1>4. CASE ~ done
  BY <1>1, <1>2, <1>4, DryRunIsSound DEF all
<1> QED BY <1>3, <1>4

LEMMA OrdinaryPlan ==
    ASSUME NEW risk, NEW status, status # "escalated", NEW rollback
    PROVE  Ordinary(Plan(risk, FALSE, status, rollback))
  BY DEF Ordinary, Plan

LEMMA LowRisk == "low_risk" \in Admissible \ {"blocked"}
  BY DEF Admissible, Safety

LEMMA BlockedBuilt ==
    ASSUME NEW i, InvestigationValid(i), NEW d, DiagnosisValid(d)
    PROVE  ResultValid(Blocked(i, d))
<1>1. PlanValid(BlockedPlan)
  BY PlanBuilt, RollbackPlanBuilt
  DEF BlockedPlan, Admissible, Safety, RollbackTypes, RemediationStatuses
<1>2. AttemptValid(EscalatedAttempt) /\ ReceiptValid(EscalatedReceipt)
  BY AttemptBuilt, ReceiptBuilt DEF EscalatedAttempt, EscalatedReceipt, RemediationStatuses
<1> QED BY <1>1, <1>2 DEF ResultValid, Blocked, Documents

LEMMA EnvDiagnosed == DiagnosisValid(EnvDiagnosis)
<1> DEFINE d == EnvDiagnosis
<1>1. /\ d.blank = {} /\ d.status = "complete" /\ d.confidence = 80
      /\ d.safety = "low_risk" /\ d.evidence = EnvEvidence /\ d.patch = {}
      /\ d.rollback = {} /\ d.recommendations = {Recommendation("low_risk", 80)}
  BY DEF EnvDiagnosis, NotFixable
<1>2. RecommendationValid(Recommendation("low_risk", 80))
  BY RecommendationBuilt, LowRisk DEF Confident
<1>3. "complete" \in DiagnosisStatuses /\ Confident(80) /\ "low_risk" \in Safety
  BY DEF DiagnosisStatuses, Confident, Safety
<1>4. EnvEvidence # {} /\ \A e \in EnvEvidence : EvidenceValid(e)
  BY EvidenceBuilt DEF EnvEvidence, EvidenceTypes
<1> HIDE DEF d
<1>5. DiagnosisValid(d)
  BY <1>1, <1>2, <1>3, <1>4 DEF DiagnosisValid
<1> QED BY <1>5 DEF d

LEMMA EnvSound == ASSUME NEW f \in EnvFacts PROVE Sound("env", EnvRun(f))
<1> DEFINE plan == Plan("low_risk", FALSE, "approved", EnvRollbackPlan)
           approver == "auto_approved_non_secret_env_defaults"
<1>1. PlanValid(plan)
  BY PlanBuilt, RollbackPlanBuilt, LowRisk
  DEF EnvRollbackPlan, RollbackTypes, RemediationStatuses
<1>2. Ordinary(plan)
  BY OrdinaryPlan
<1> HIDE DEF plan
<1>3. ASSUME NEW done \in BOOLEAN
      PROVE  /\ EnvReport(done) = Report(Recently, EnvDiagnosis, plan, approver, done)
             /\ ResultValid(EnvReport(done))
  <2>1. EnvReport(done) = Report(Recently, EnvDiagnosis, plan, approver, done)
    BY DEF EnvReport, Report, plan
  <2> QED BY <1>1, <2>1, ReportBuilt, RecentlyBuilt, EnvDiagnosed
<1>4. /\ Sound("env", Answer(EnvReport(TRUE), "untouched", FALSE))
      /\ Sound("env", Answer(EnvReport(TRUE), "changed", FALSE))
      /\ Sound("env", Answer(EnvReport(FALSE), "untouched", FALSE))
  BY <1>2, <1>3, ReportIsSound DEF LocalLanes
<1>5. Sound("env", Answer(EnvBlocked, "untouched", FALSE))
  <2>1. DiagnosisValid(NotFixable("blocked_by_safety", EnvEvidence, 86))
    BY DiagnosisBuilt, EvidenceBuilt
    DEF EnvEvidence, EvidenceTypes, DiagnosisStatuses, Confident
  <2> QED BY <2>1, BlockedBuilt, RecentlyBuilt, EscalatedIsSound DEF EnvBlocked
<1>6. /\ Sound("env", Validated(EnvReport(TRUE), "changed"))
      /\ Sound("env", Validated(EnvReport(FALSE), "untouched"))
  BY <1>4, ValidatedIsSound
<1>7. CASE f.findings \in {"none", "secret"} \/ ~ f.apply \/ ~ f.path
  BY <1>4, <1>5, <1>6, <1>7 DEF EnvRun, EnvFacts
<1>8. CASE f.findings = "defaults" /\ f.apply /\ f.path
  <2>1. EnvRun(f) \in {Refused("untouched"), Validated(EnvReport(TRUE), "changed"),
                       Refused(f.end)}
    BY <1>8 DEF EnvRun
  <2> QED BY <1>6, <2>1, RefusedIsSound
<1> QED BY <1>7, <1>8 DEF EnvFacts

LEMMA PermissionSound ==
    ASSUME NEW f \in PermissionFacts PROVE Sound("permissions", PermissionRun(f))
<1> DEFINE l == "permissions"
           d == Diagnosed({Evidence("config")}, 84, Recommendation("low_risk", 82),
                          PatchPlan("runtime_setting", "low_risk"), PermissionRollbackPlan)
           plan == Plan("low_risk", FALSE, "approved", PermissionRollbackPlan)
           approver == "auto_approved_low_risk_permission_repair"
<1>1. Ordinary(plan)
  BY OrdinaryPlan
<1> HIDE DEF plan, d
<1>2. /\ PermissionReport("dry_run") = Report(Recently, d, plan, approver, FALSE)
      /\ PermissionReport("succeeded") = Report(Recently, d, plan, approver, TRUE)
  BY DEF PermissionReport, Report, plan, d
<1>3. /\ ResultValid(PermissionReport("dry_run"))
            => Sound(l, Answer(PermissionReport("dry_run"), "untouched", FALSE))
      /\ Sound(l, Validated(PermissionReport("succeeded"), "changed"))
  BY <1>1, <1>2, ReportIsSound, ValidatedIsSound
<1>4. Sound(l, Validated(PermissionBlocked, "untouched"))
  BY EscalatedIsSound, ValidatedIsSound DEF PermissionBlocked
<1>5. Sound(l, Validated(NothingToRepair, "untouched"))
  <2> DEFINE report == PermissionReport("dry_run")
             all == [report EXCEPT !.attempt.monitor = "healthy",
                                   !.receipt.outcome = "succeeded"]
             attempt == Attempt("succeeded", approver, "dry_run")
  <2>1. report = Documents(Recently, d, plan, attempt, Receipt("dry_run"))
    BY <1>2 DEF Report
  <2> HIDE DEF report, attempt
  <2>2. /\ all.plan = plan /\ all.attempt = [attempt EXCEPT !.monitor = "healthy"]
        /\ all.receipt = [Receipt("dry_run") EXCEPT !.outcome = "succeeded"]
    BY <2>1 DEF Documents
  <2>3. NothingToRepair = all
    BY DEF NothingToRepair, report
  <2> HIDE DEF all
  <2>4. /\ all.attempt.status = "succeeded" /\ all.attempt.monitor = "healthy"
        /\ all.receipt.outcome = "succeeded"
    BY <2>2 DEF attempt, Attempt, Receipt
  <2> QED BY <1>1, <2>2, <2>3, <2>4, SucceededIsSound, AllValid, ValidatedIsSound DEF LocalLanes
<1>6. CASE ~ f.policy \/ ~ ResultValid(PermissionReport("dry_run")) \/ ~ f.apply \/ ~ f.operations
  BY <1>3, <1>4, <1>5, <1>6, RefusedIsSound DEF PermissionRun
<1>7. CASE f.policy /\ ResultValid(PermissionReport("dry_run")) /\ f.apply /\ f.operations
  <2>1. PermissionRun(f) \in {Refused("untouched"), Refused(f.end),
                              Validated(PermissionReport("succeeded"), "changed")}
    BY <1>7 DEF PermissionRun
  <2> QED BY <1>3, <2>1, RefusedIsSound
<1> QED BY <1>6, <1>7

\* The texts of the readiness lane are blank together, if there is no change.
LEMMA TextsBlank ==
    ASSUME NEW text
    PROVE  /\ BlankFields([before |-> text, after |-> text]) = {} <=> text # ""
           /\ BlankFields([before |-> text, after |-> text, action |-> text]) = {} <=> text # ""
<1>1. /\ DOMAIN [before |-> text, after |-> text] = {"before", "after"}
      /\ \A k \in {"before", "after"} : [before |-> text, after |-> text][k] = text
  OBVIOUS
<1>2. /\ DOMAIN [before |-> text, after |-> text, action |-> text]
            = {"before", "after", "action"}
      /\ \A k \in {"before", "after", "action"} :
            [before |-> text, after |-> text, action |-> text][k] = text
  OBVIOUS
<1> QED BY <1>1, <1>2 DEF BlankFields

\* Without an investigation and a diagnosis, and with texts that are blank or not.
LEMMA ReadinessValid ==
    ASSUME lane = "readiness_permissions", NEW all,
           all.plan.blank = {} =>
               /\ PlanValid(all.plan) /\ AttemptValid(all.attempt) /\ ReceiptValid(all.receipt),
           AttemptValid(all.attempt)
    PROVE  DocumentsAreValid(all)
  BY DEF DocumentsAreValid

\* The documents, for the texts that are blank in the plan and in the receipt.
ReadinessDocuments(two, three) ==
    [investigation |-> "none", diagnosis |-> "none",
     plan |-> [blank |-> two, risk |-> "low_risk", approval |-> FALSE, status |-> "succeeded",
               rollback |-> RollbackPlan("reverse_patch", "low_risk")],
     attempt |-> [blank |-> {}, status |-> "succeeded",
                  approver |-> "auto-approved-readiness-permission-drift", started |-> TRUE,
                  monitor |-> "healthy"],
     receipt |-> [blank |-> three, outcome |-> "succeeded"]]

LEMMA ResolutionIs ==
    ASSUME NEW changes \in BOOLEAN
    PROVE  \E two, three :
              /\ ResolutionContracts(changes) = ReadinessDocuments(two, three)
              /\ two = {} <=> changes
              /\ three = {} <=> changes
<1> DEFINE text == ChangeSummary(changes)
           two == BlankFields([before |-> text, after |-> text])
           three == BlankFields([before |-> text, after |-> text, action |-> text])
           rollback == RollbackPlan("reverse_patch", "low_risk")
           plan == [Plan("low_risk", FALSE, "succeeded", rollback) EXCEPT !.blank = two]
           attempt == Attempt("succeeded", "auto-approved-readiness-permission-drift", "healthy")
           receipt == [Receipt("succeeded") EXCEPT !.blank = three]
<1>1. text = "" <=> ~ changes
  BY DEF ChangeSummary
<1>2. (two = {} <=> changes) /\ (three = {} <=> changes)
  BY <1>1, TextsBlank
<1>3. ResolutionContracts(changes) = Documents("none", "none", plan, attempt, receipt)
  BY DEF ResolutionContracts
<1> HIDE DEF two, three, rollback
<1>4. plan = [blank |-> two, risk |-> "low_risk", approval |-> FALSE,
              status |-> "succeeded", rollback |-> rollback]
  <2>1. plan = [Plan("low_risk", FALSE, "succeeded", rollback) EXCEPT !.blank = two]
    OBVIOUS
  <2> HIDE DEF plan
  <2> QED BY <2>1 DEF Plan
<1>6. receipt = [blank |-> three, outcome |-> "succeeded"]
  BY DEF Receipt
<1>5. ResolutionContracts(changes) = ReadinessDocuments(two, three)
  <2> HIDE DEF plan, receipt
  <2> QED BY <1>3, <1>4, <1>6 DEF ReadinessDocuments, Documents, rollback, Attempt
<1> QED BY <1>2, <1>5

LEMMA ReadinessSound ==
    ASSUME NEW f \in ReadinessFacts
    PROVE  Sound("readiness_permissions", ResolvePermissionDrift(f))
<1> DEFINE l == "readiness_permissions"
           resolved == ResolutionContracts(f.changes)
           repaired == IF f.changes THEN "changed" ELSE "untouched"
<1>1. f.changes \in BOOLEAN
  BY DEF ReadinessFacts
<1>2. PICK two, three : /\ resolved = ReadinessDocuments(two, three)
                        /\ two = {} <=> f.changes
                        /\ three = {} <=> f.changes
  BY <1>1, ResolutionIs
<1>3. RollbackPlanValid(RollbackPlan("reverse_patch", "low_risk"))
  BY RollbackPlanBuilt, LowRisk DEF RollbackTypes
<1> HIDE DEF resolved
<1>4. ASSUME NEW all, all = resolved \/ all = RestartEvidence(resolved)
      PROVE  Sound(l, Answer(all, repaired, FALSE))
  <2>1. /\ resolved.plan.blank = two /\ resolved.plan.risk = "low_risk"
        /\ resolved.plan.approval = FALSE /\ resolved.plan.status = "succeeded"
        /\ resolved.plan.rollback = RollbackPlan("reverse_patch", "low_risk")
        /\ resolved.attempt.blank = {} /\ resolved.attempt.started = TRUE
        /\ resolved.attempt.approver = "auto-approved-readiness-permission-drift"
        /\ resolved.attempt.status = "succeeded" /\ resolved.attempt.monitor = "healthy"
        /\ resolved.receipt.outcome = "succeeded" /\ resolved.receipt.blank = three
    BY <1>2 DEF ReadinessDocuments
  <2>2. /\ all.plan = resolved.plan /\ all.attempt = resolved.attempt
        /\ all.receipt.outcome = "succeeded"
        /\ f.changes => all.receipt.blank = {}
    <3>1. CASE all = resolved
      BY <1>2, <2>1, <3>1
    <3>2. CASE all = [resolved EXCEPT !.receipt.blank = @ \ {"action"}]
      <4>1. /\ all.plan = resolved.plan /\ all.attempt = resolved.attempt
            /\ all.receipt.outcome = "succeeded"
            /\ all.receipt.blank = three \ {"action"}
        BY <1>2, <3>2 DEF ReadinessDocuments
      <4> QED BY <1>2, <4>1
    <3> QED BY <1>4, <3>1, <3>2 DEF RestartEvidence
  <2>3. f.changes => PlanValid(all.plan) /\ ReceiptValid(all.receipt)
    BY <1>2, <1>3, <2>1, <2>2
    DEF PlanValid, ReceiptValid, Safety, RemediationStatuses, NeedsApproval
  <2>4. AttemptValid(all.attempt)
    BY <2>1, <2>2 DEF AttemptValid, RemediationStatuses
  <2>5. lane = l => DocumentsAreValid(all)
    BY <1>2, <2>1, <2>2, <2>3, <2>4, ReadinessValid
  <2>6. Ordinary(all.plan) /\ l \in LocalLanes
    BY <2>1, <2>2 DEF Ordinary, LocalLanes
  <2> QED BY <2>1, <2>2, <2>5, <2>6, SucceededIsSound
<1>5. ASSUME NEW restored \in BOOLEAN, NEW state, restored => state = "restored"
      PROVE  Sound(l, Answer(RollbackContracts(f.changes, restored), state, TRUE))
  <2> DEFINE all == RollbackContracts(f.changes, restored)
             end == IF restored THEN "rolled_back" ELSE "failed"
             undone == IF restored THEN "rolled_back" ELSE "rollback_failed"
  <2>1. /\ all.plan.blank = two /\ all.plan.risk = "low_risk" /\ all.plan.approval = FALSE
        /\ all.plan.status = end
        /\ all.plan.rollback = RollbackPlan("reverse_patch", "low_risk")
        /\ all.attempt.blank = {} /\ all.attempt.started = TRUE
        /\ all.attempt.approver = "auto-approved-readiness-permission-drift"
        /\ all.attempt.status = end /\ all.attempt.monitor = undone
        /\ all.receipt.outcome = undone /\ all.receipt.blank = three \ {"action"}
    <3> HIDE DEF end, undone
    <3>1. all = [resolved EXCEPT !.plan.status = end, !.attempt.status = end,
                    !.attempt.monitor = undone, !.receipt.outcome = undone,
                    !.receipt.blank = @ \ {"action"}]
      BY DEF RollbackContracts, resolved, end, undone
    <3> HIDE DEF all
    <3>2. /\ resolved.plan = ReadinessDocuments(two, three).plan
          /\ all.plan = [resolved.plan EXCEPT !.status = end]
          /\ resolved.attempt = ReadinessDocuments(two, three).attempt
          /\ all.attempt = [resolved.attempt EXCEPT !.status = end, !.monitor = undone]
          /\ resolved.receipt = ReadinessDocuments(two, three).receipt
          /\ all.receipt = [resolved.receipt EXCEPT !.outcome = undone, !.blank = @ \ {"action"}]
      BY <1>2, <3>1 DEF ReadinessDocuments
    <3> HIDE DEF all
    <3>3. /\ all.plan.blank = two /\ all.plan.risk = "low_risk" /\ all.plan.approval = FALSE
          /\ all.plan.status = end
          /\ all.plan.rollback = RollbackPlan("reverse_patch", "low_risk")
      BY <3>2 DEF ReadinessDocuments
    <3>4. /\ all.attempt.blank = {} /\ all.attempt.started = TRUE
          /\ all.attempt.approver = "auto-approved-readiness-permission-drift"
          /\ all.attempt.status = end /\ all.attempt.monitor = undone
      BY <3>2 DEF ReadinessDocuments
    <3>5. all.receipt.outcome = undone /\ all.receipt.blank = three \ {"action"}
      BY <3>2 DEF ReadinessDocuments
    <3> QED BY <3>3, <3>4, <3>5
  <2> HIDE DEF all
  <2>2. f.changes => PlanValid(all.plan) /\ ReceiptValid(all.receipt)
    BY <1>2, <1>3, <2>1
    DEF PlanValid, ReceiptValid, Safety, RemediationStatuses, NeedsApproval
  <2>3. AttemptValid(all.attempt)
    BY <2>1 DEF AttemptValid, RemediationStatuses
  <2>4. lane = l => DocumentsAreValid(all)
    BY <1>2, <2>1, <2>2, <2>3, ReadinessValid
  <2>5. Sound(l, Answer(all, state, TRUE))
    BY <1>5, <2>1, <2>4, FailedIsSound
  <2> QED BY <2>5 DEF all
<1>6. CASE f.end = "repair_failed"
  BY <1>6, RefusedIsSound, EndedIsSound DEF ResolvePermissionDrift
<1>7. CASE f.end = "verified"
  BY <1>7, <1>4, EndedIsSound DEF ResolvePermissionDrift, resolved
<1>8. CASE f.end = "verified_after_restart"
  BY <1>8, <1>4, EndedIsSound DEF ResolvePermissionDrift, resolved
<1>9. CASE f.end = "restored"
  BY <1>9, <1>5, EndedIsSound DEF ResolvePermissionDrift
<1>10. CASE f.end = "broken"
  BY <1>10, <1>5, EndedIsSound DEF ResolvePermissionDrift
<1> QED BY <1>6, <1>7, <1>8, <1>9, <1>10 DEF ReadinessFacts

-----------------------------------------------------------------------------
(* Laravel                                                                 *)

LEMMA StubSound == ASSUME NEW l, NEW f \in LaravelFacts PROVE Sound(l, StubRun(f))
<1> DEFINE dry == Documents(StubInvestigation, StubDiagnosis, StubPlan, SkippedAttempt,
                            DryRunReceipt)
           done == Documents(StubInvestigation, StubDiagnosis, StubPlan, SucceededAttempt,
                             StubReceipt)
<1>1. Ordinary(StubPlan)
  BY OrdinaryPlan DEF StubPlan
<1>2. /\ dry = Report(StubInvestigation, StubDiagnosis, StubPlan,
                      "dry_run_no_approval_required", FALSE)
      /\ done = Report(StubInvestigation, StubDiagnosis, StubPlan,
                       "auto_approved_low_risk_laravel", TRUE)
  BY DEF Report, SkippedAttempt, DryRunReceipt, SucceededAttempt, StubReceipt
<1> HIDE DEF dry, done
<1>3. CASE ~ (InvestigationValid(StubInvestigation) /\ DiagnosisValid(StubDiagnosis)
                 /\ PlanValid(StubPlan))
  BY <1>3, RefusedIsSound DEF StubRun
<1>4. CASE /\ InvestigationValid(StubInvestigation) /\ DiagnosisValid(StubDiagnosis)
           /\ PlanValid(StubPlan)
  <2>1. Sound(l, Answer(dry, "untouched", FALSE))
    BY <1>1, <1>2, <1>4, ReportBuilt, ReportIsSound
  <2>2. Sound(l, Validated(done, "changed"))
    BY <1>1, <1>2, ReportIsSound, ValidatedIsSound
  <2>3. StubRun(f) \in {Answer(dry, "untouched", FALSE), Validated(done, "changed"),
                        Refused(f.end)}
    BY <1>4 DEF StubRun, dry, done
  <2> QED BY <2>1, <2>2, <2>3, RefusedIsSound
<1> QED BY <1>3, <1>4

\* The documents say the same of an escalation, whatever is left of the target.
LEMMA UnsupportedSound ==
    ASSUME NEW issues, NEW probed, NEW state
    PROVE  Sound("laravel", UnsupportedLaravel(issues, probed, state))
<1>1. \A i, d : Documents(i, d, ManualReviewPlan, LaravelEscalatedAttempt,
                          LaravelEscalatedReceipt) = Blocked(i, d)
  BY DEF Blocked, ManualReviewPlan, BlockedPlan, LaravelEscalatedAttempt, EscalatedAttempt,
         LaravelEscalatedReceipt, EscalatedReceipt
<1> QED BY <1>1, EscalatedIsSound, ValidatedIsSound DEF UnsupportedLaravel

LEMMA AgentSound ==
    ASSUME NEW l, NEW issues, NEW probed, NEW applied \in BOOLEAN
    PROVE  Sound(l, AgentReport(issues, probed, applied))
<1> DEFINE state == IF applied THEN "changed" ELSE "untouched"
           i == GenericInvestigation
           d == AgentDiagnosis(issues, probed)
           all == Documents(i, d, AgentPlan(applied), AgentAttempt(applied),
                            AgentReceipt(applied))
<1>1. Ordinary(AgentPlan(applied))
  BY OrdinaryPlan DEF AgentPlan
<1> HIDE DEF i, d
<1>2. all = Report(i, d, AgentPlan(applied), "external_agent_enabled", applied)
  BY DEF Report, AgentAttempt, AgentReceipt
<1> HIDE DEF all
<1>3. ResultValid(all) => Sound(l, Answer(all, state, FALSE))
  BY <1>1, <1>2, ReportIsSound
<1> QED BY <1>3, ValidatedIsSound DEF AgentReport, all, i, d

LEMMA ExternalAgentSound ==
    ASSUME NEW issues, NEW f \in LaravelFacts, f.agent # "none"
    PROVE  Sound("laravel", MaybeRunExternalAgent(issues, f))
<1>1. f.agent \in AgentEnds
  BY DEF LaravelFacts
<1>2. CASE f.agent = "no_patch"
  BY <1>2, UnsupportedSound DEF MaybeRunExternalAgent
<1>3. CASE f.agent = "verified"
  BY <1>3, AgentSound DEF MaybeRunExternalAgent
<1>4. CASE f.agent \in {"torn", "restored", "stuck"}
  <2>1. f.apply
    BY <1>4 DEF LaravelFacts
  <2> QED BY <1>4, <2>1, UnsupportedSound DEF MaybeRunExternalAgent
<1> QED BY <1>1, <1>2, <1>3, <1>4 DEF AgentEnds

LEMMA LaravelSound ==
    ASSUME NEW selected \in BOOLEAN, NEW issues, NEW f \in LaravelFacts
    PROVE  Sound("laravel", LaravelRun(selected, issues, f))
  BY StubSound, RefusedIsSound, UnsupportedSound, ExternalAgentSound DEF LaravelRun

-----------------------------------------------------------------------------
(* Every run                                                               *)

\* What a run has handed out is the answer of its lane, for some signal and some facts.
Answered ==
    \/ result = NoResult
    \/ result = Refused("untouched")
    \/ /\ lane = "config"
       /\ \E s : \E f \in ConfigFacts : result = ConfigRun(s, f)
    \/ /\ lane = "readiness_config"
       /\ \E s : \E f \in ConfigFacts : result = ResolveConfigDrift(s, f)
    \/ /\ lane = "restart"
       /\ \E s : \E f \in RestartFacts : result = RestartRun(s, f)
    \/ /\ lane = "goravel"
       /\ \E s : \E f \in GoravelFacts : result = GoravelRun(s, f)
    \/ /\ lane = "loghub"
       /\ \E s : \E f \in LoghubFacts : result = LoghubRun(s, f)
    \/ lane = "env" /\ \E f \in EnvFacts : result = EnvRun(f)
    \/ lane = "permissions" /\ \E f \in PermissionFacts : result = PermissionRun(f)
    \/ /\ lane = "readiness_permissions"
       /\ \E f \in ReadinessFacts : result = ResolvePermissionDrift(f)
    \/ /\ lane = "laravel"
       /\ \E issues : \E selected \in BOOLEAN : \E f \in LaravelFacts :
             result = LaravelRun(selected, issues, f)

LEMMA AnswersAreSound == Answered => ReportsAreSound
<1>1. ASSUME NEW answer, Sound(lane, answer), result = answer PROVE ReportsAreSound
  BY <1>1 DEF Sound
<1>2. CASE result = NoResult
  BY <1>2 DEF ReportsAreSound, Reported
<1>3. CASE result = Refused("untouched")
  BY <1>1, <1>3, RefusedIsSound
<1>4. CASE lane = "config" /\ \E s : \E f \in ConfigFacts : result = ConfigRun(s, f)
  BY <1>1, <1>4, ConfigSound
<1>5. CASE /\ lane = "readiness_config"
           /\ \E s : \E f \in ConfigFacts : result = ResolveConfigDrift(s, f)
  BY <1>1, <1>5, ReadinessConfigSound
<1>6. CASE lane = "restart" /\ \E s : \E f \in RestartFacts : result = RestartRun(s, f)
  BY <1>1, <1>6, RestartSound
<1>7. CASE lane = "goravel" /\ \E s : \E f \in GoravelFacts : result = GoravelRun(s, f)
  BY <1>1, <1>7, GoravelSound
<1>8. CASE lane = "loghub" /\ \E s : \E f \in LoghubFacts : result = LoghubRun(s, f)
  BY <1>1, <1>8, LoghubSound
<1>9. CASE lane = "env" /\ \E f \in EnvFacts : result = EnvRun(f)
  BY <1>1, <1>9, EnvSound
<1>10. CASE lane = "permissions" /\ \E f \in PermissionFacts : result = PermissionRun(f)
  BY <1>1, <1>10, PermissionSound
<1>11. CASE /\ lane = "readiness_permissions"
            /\ \E f \in ReadinessFacts : result = ResolvePermissionDrift(f)
  BY <1>1, <1>11, ReadinessSound
<1>12. CASE /\ lane = "laravel"
            /\ \E issues : \E selected \in BOOLEAN : \E f \in LaravelFacts :
                  result = LaravelRun(selected, issues, f)
  BY <1>1, <1>12, LaravelSound
<1> QED
  BY <1>2, <1>3, <1>4, <1>5, <1>6, <1>7, <1>8, <1>9, <1>10, <1>11, <1>12 DEF Answered

\* The documents of every lane, at each of its exits, are valid and agree with one another:
\* for any logs, thresholds, targets and limits, and whatever signal the run was started by.
\* They are true of what has become of the target, with one exception: an escalation of
\* Laravel after an external agent, which may have left a patch behind, says nothing true
\* or false of the target here, and its receipt denies the patch.
THEOREM ReportsSound == Spec => []ReportsAreSound
<1>1. Init => Answered
  BY DEF Init, Answered
<1>2. Answered /\ [Next]_vars => Answered'
  <2> SUFFICES ASSUME Answered, [Next]_vars PROVE Answered'
    OBVIOUS
  <2>1. CASE UNCHANGED vars
    BY <2>1 DEF vars, Answered
  <2>2. CASE UNCHANGED <<lane, result>>
    BY <2>2 DEF Answered
  <2>3. CASE Detect \/ Examine
    BY <2>2, <2>3 DEF Detect, Examine
  <2>4. CASE FindNothing
    BY <2>4 DEF FindNothing, Answered
  <2>5. CASE \E f \in ConfigFacts : Ends("config", ConfigRun(signal, f))
    BY <2>5 DEF Ends, Answered
  <2>6. CASE \E f \in ConfigFacts : Ends("readiness_config", ResolveConfigDrift(signal, f))
    BY <2>6 DEF Ends, Answered
  <2>7. CASE \E f \in RestartFacts : Ends("restart", RestartRun(signal, f))
    BY <2>7 DEF Ends, Answered
  <2>8. CASE \E f \in GoravelFacts : Ends("goravel", GoravelRun(signal, f))
    BY <2>8 DEF Ends, Answered
  <2>9. CASE \E f \in LoghubFacts : Ends("loghub", LoghubRun(signal, f))
    BY <2>9 DEF Ends, Answered
  <2>10. CASE \E f \in EnvFacts : Ends("env", EnvRun(f))
    BY <2>10 DEF Ends, Answered
  <2>11. CASE \E f \in PermissionFacts : Ends("permissions", PermissionRun(f))
    BY <2>11 DEF Ends, Answered
  <2>12. CASE \E f \in ReadinessFacts :
                 Ends("readiness_permissions", ResolvePermissionDrift(f))
    BY <2>12 DEF Ends, Answered
  <2>13. CASE \E f \in LaravelFacts :
                 Ends("laravel", LaravelRun(signal.selected # NoClass, IssueKinds, f))
    <3>1. PICK f \in LaravelFacts :
                 Ends("laravel", LaravelRun(signal.selected # NoClass, IssueKinds, f))
      BY <2>13
    <3>2. (signal.selected # NoClass) \in BOOLEAN
      OBVIOUS
    <3> QED BY <3>1, <3>2 DEF Ends, Answered
  <2> QED
    BY <2>1, <2>3, <2>4, <2>5, <2>6, <2>7, <2>8, <2>9, <2>10, <2>11, <2>12, <2>13 DEF Next
<1> QED BY <1>1, <1>2, AnswersAreSound, PTL DEF Spec

-----------------------------------------------------------------------------
(* The stub                                                                *)

LEMMA LeastExists ==
    ASSUME NEW S \in SUBSET Nat, S # {} PROVE \E m \in S : \A i \in S : m <= i
<1> DEFINE R == {pair \in Nat \X Nat : pair[1] < pair[2]}
<1>1. IsWellFoundedOn(R, Nat)
  BY NatLessThanWellFounded DEF OpToRel
<1>2. \A i, j \in Nat : i < j => <<i, j>> \in R
  OBVIOUS
<1> HIDE DEF R
<1>3. PICK m \in S : \A i \in S : <<i, m>> \notin R
  BY <1>1, WFMin
<1>4. ASSUME NEW i \in S PROVE m <= i
  <2>1. i \in Nat /\ m \in Nat /\ ~ (i < m)
    BY <1>2, <1>3
  <2> QED BY <2>1
<1> QED BY <1>4

\* The class that is chosen can be stubbed, is the one of the log if that can, and is none
\* only if none can.
LEMMA SelectedIs ==
    ASSUME NEW logged, NEW scanned \in SUBSET (Nat \ {NoClass}), NEW existing
    PROVE  LET missing == MergeMissingClasses(logged, scanned)
               selected == SelectAutoStubbableClass(logged, missing, existing)
           IN /\ selected # NoClass =>
                    selected \in missing /\ IsSafeToStub(selected, existing)
              /\ logged \in missing /\ IsSafeToStub(logged, existing) => selected = logged
              /\ selected = NoClass => \A class \in missing : ~ IsSafeToStub(class, existing)
<1> DEFINE missing == MergeMissingClasses(logged, scanned)
           selected == SelectAutoStubbableClass(logged, missing, existing)
           safe == {class \in missing : IsSafeToStub(class, existing)}
<1>1. \A class \in missing : class = logged \/ class \in scanned
  BY DEF MergeMissingClasses
<1>2. NoClass \notin missing
  BY DEF MergeMissingClasses
<1> HIDE DEF missing
<1>3. ASSUME safe # {} PROVE \E class \in safe : ComesFirst(logged, class, safe)
  <2>1. CASE logged \in safe
    BY <2>1 DEF ComesFirst
  <2>2. CASE logged \notin safe
    <3>1. safe \in SUBSET Nat
      BY <1>1, <2>2
    <3> QED BY <1>3, <2>2, <3>1, LeastExists DEF ComesFirst
  <2> QED BY <2>1, <2>2
<1>4. CASE safe = {}
  <2>1. selected = NoClass
    BY <1>4 DEF SelectAutoStubbableClass
  <2>2. \A class \in missing : ~ IsSafeToStub(class, existing)
    BY <1>4
  <2> HIDE DEF selected
  <2>3. /\ selected # NoClass => selected \in missing /\ IsSafeToStub(selected, existing)
        /\ logged \in missing /\ IsSafeToStub(logged, existing) => selected = logged
        /\ selected = NoClass => \A class \in missing : ~ IsSafeToStub(class, existing)
    BY <2>1, <2>2
  <2> QED BY <2>3 DEF selected, missing
<1>5. CASE safe # {}
  <2>1. selected = CHOOSE class \in safe : ComesFirst(logged, class, safe)
    BY <1>5 DEF SelectAutoStubbableClass
  <2> HIDE DEF selected
  <2>2. selected \in safe /\ ComesFirst(logged, selected, safe)
    BY <1>3, <1>5, <2>1
  <2>3. selected # NoClass
    BY <1>2, <2>2
  <2>4. logged \in missing /\ IsSafeToStub(logged, existing) => selected = logged
    BY <2>2 DEF ComesFirst
  <2>5. /\ selected # NoClass => selected \in missing /\ IsSafeToStub(selected, existing)
        /\ logged \in missing /\ IsSafeToStub(logged, existing) => selected = logged
        /\ selected = NoClass => \A class \in missing : ~ IsSafeToStub(class, existing)
    BY <2>2, <2>3, <2>4
  <2> QED BY <2>5 DEF selected, missing
<1> QED BY <1>4, <1>5

\* Whichever files the uses of a class are in, its stub answers those whose name is known,
\* and the others unless what is seen makes the method an instance method.
LEMMA StubAnswersUses ==
    ASSUME NEW class, NEW use \in target.uses, use.class = class
    PROVE  \/ StubAnswers(BuildCompatibilityStub(InferMissingClassUsages(class, target.uses)),
                          use)
           \/ use.name = "unknown" /\ SeemsInstanceMethod(class)
<1> DEFINE uses == target.uses
           methods == InferMissingClassUsages(class, uses)
           Seen(call) == \E u \in uses : u.class = class /\ u.name # "unknown" /\ u.call = call
<1>1. /\ methods.static <=> Seen("static")
      /\ methods.instance <=> Seen("assigned")
      /\ methods.static \in BOOLEAN /\ methods.instance \in BOOLEAN
  <2>1. ASSUME NEW file
        PROVE  /\ InferMethodsFromContent(UsesIn(file, class, uses)).static <=>
                     \E u \in UsesIn(file, class, uses) : u.name # "unknown" /\ u.call = "static"
               /\ InferMethodsFromContent(UsesIn(file, class, uses)).instance <=>
                     \E u \in UsesIn(file, class, uses) : u.name # "unknown" /\ u.call = "assigned"
    BY DEF InferMethodsFromContent
  <2>2. /\ methods.static =
              \E file \in {u.file : u \in uses} :
                  InferMethodsFromContent(UsesIn(file, class, uses)).static
        /\ methods.instance =
              \E file \in {u.file : u \in uses} :
                  InferMethodsFromContent(UsesIn(file, class, uses)).instance
    BY DEF InferMissingClassUsages
  <2> HIDE DEF methods
  <2>3. ASSUME NEW call
        PROVE  Seen(call) <=>
                  \E file \in {u.file : u \in uses} :
                      \E u \in UsesIn(file, class, uses) : u.name # "unknown" /\ u.call = call
    BY DEF UsesIn
  <2>4. methods.static <=> Seen("static")
    BY <2>1, <2>2, <2>3
  <2>5. methods.instance <=> Seen("assigned")
    BY <2>1, <2>2, <2>3
  <2> QED BY <2>2, <2>4, <2>5
<1>2. BuildCompatibilityStub(methods).m = "instance" => methods.instance /\ ~ methods.static
  <2> HIDE DEF methods
  <2> QED BY <1>1 DEF BuildCompatibilityStub
<1>3. ASSUME use.call = "static", BuildCompatibilityStub(methods).m = "instance"
      PROVE  use.name = "unknown" /\ SeemsInstanceMethod(class)
  <2>1. Seen("assigned") /\ ~ Seen("static")
    BY <1>1, <1>2, <1>3
  <2> QED BY <1>3, <2>1 DEF SeemsInstanceMethod
<1> HIDE DEF methods
<1> QED BY <1>3 DEF StubAnswers, methods

\* For any log and source, a stub is written for a class that may have one, and for the
\* class of the log if it is one.  It answers every call by a name that the code knows, and
\* those that the code does not see but for a static call of what seems an instance method.
THEOREM StubFits == Spec => []StubFitsTheFailure
<1> DEFINE Examined == lane = "laravel" =>
                          /\ target \in LaravelTargets
                          /\ signal \in {NoSignal, Triage(target)}
<1>1. Init => Examined
  BY DEF Init, LogLanes, HttpLanes, LocalLanes
<1>2. Examined /\ [Next]_vars => Examined'
  <2> SUFFICES ASSUME Examined, [Next]_vars PROVE Examined'
    OBVIOUS
  <2>1. CASE UNCHANGED <<lane, target, signal>>
    BY <2>1
  <2>2. CASE Detect
    BY <2>2 DEF Detect, LogLanes, HttpLanes
  <2>3. CASE Examine
    BY <2>3 DEF Examine
  <2> QED BY <2>1, <2>2, <2>3 DEF Next, Ends, FindNothing, vars
<1>3. Examined => StubFitsTheFailure
  <2> SUFFICES ASSUME target \in LaravelTargets, signal = Triage(target)
               PROVE  StubFitsTheFailure
    BY DEF StubFitsTheFailure
  <2> DEFINE logged == ParseMissingClassFromLogs(target.log)
             scanned == ScanMissingAppClasses(target.uses, target.existing)
             missing == MergeMissingClasses(logged, scanned)
             selected == SelectAutoStubbableClass(logged, missing, target.existing)
  <2>1. /\ signal.selected = selected
        /\ signal.stub = BuildCompatibilityStub(InferMissingClassUsages(selected, target.uses))
    BY DEF Triage
  <2> HIDE DEF logged
  <2>2. scanned \in SUBSET (Nat \ {NoClass})
    BY IncidentsAssumption DEF IncidentsAssumption, ScanMissingAppClasses
  <2>3. ASSUME NEW class
        PROVE  IsSafeToStub(class, target.existing) /\ class # NoClass <=> Stubbable(class)
    BY DEF IsSafeToStub, ExpectedClassPath, Stubbable
  <2>4. logged \in missing <=> logged # NoClass
    BY <2>2 DEF MergeMissingClasses
  <2>5. ASSUME NEW use \in target.uses, LooksLikeClassUsage(use), Stubbable(use.class)
        PROVE  use.class \in missing
    BY <2>5 DEF MergeMissingClasses, ScanMissingAppClasses, Stubbable, ExpectedClassPath
  <2>6. /\ selected # NoClass => selected \in missing /\ IsSafeToStub(selected, target.existing)
        /\ logged \in missing /\ IsSafeToStub(logged, target.existing) => selected = logged
        /\ selected = NoClass =>
              \A class \in missing : ~ IsSafeToStub(class, target.existing)
    BY <2>2, SelectedIs
  <2> HIDE DEF scanned, missing, selected
  <2>7. \A use \in target.uses :
           use.class = selected =>
               \/ StubAnswers(signal.stub, use)
               \/ use.name = "unknown" /\ SeemsInstanceMethod(selected)
    BY <2>1, StubAnswersUses
  <2> QED BY <2>1, <2>3, <2>4, <2>5, <2>6, <2>7 DEF StubFitsTheFailure, logged
<1> QED BY <1>1, <1>2, <1>3, PTL DEF Spec

-----------------------------------------------------------------------------
(* Filters                                                                 *)

LEMMA IntervalIs ==
    ASSUME NEW n \in Nat PROVE IsFiniteSet(1 .. n) /\ Cardinality(1 .. n) = n
<1>1. 1 \in Int /\ n \in Int
  OBVIOUS
<1>2. /\ IsFiniteSet(1 .. n)
      /\ Cardinality(1 .. n) = IF 1 > n THEN 0 ELSE n - 1 + 1
  BY <1>1, FS_Interval, Zenon
<1> QED BY <1>2

\* The number of members up to each one tells them apart, and is 1 for the first.
LEMMA RanksAreOneToOne ==
    ASSUME NEW P, IsFiniteSet(P), NEW upTo \in [P -> SUBSET P],
           \A i \in P : i \in upTo[i],
           \A i, j \in P : i # j => \/ upTo[i] \subseteq upTo[j] /\ j \notin upTo[i]
                                    \/ upTo[j] \subseteq upTo[i] /\ i \notin upTo[j]
    PROVE  /\ Cardinality(P) \in Nat
           /\ [i \in P |-> Cardinality(upTo[i])] \in Bijection(P, 1 .. Cardinality(P))
           /\ \A i, j \in P : Cardinality(upTo[i]) < Cardinality(upTo[j])
                                 => upTo[i] \subseteq upTo[j] /\ j \notin upTo[i]
<1> DEFINE n == Cardinality(P)
           rank == [i \in P |-> Cardinality(upTo[i])]
<1>1. n \in Nat
  BY FS_CardinalityType
<1>2. \A i \in P : /\ IsFiniteSet(upTo[i]) /\ Cardinality(upTo[i]) \in Nat
                   /\ Cardinality(upTo[i]) <= n
  BY FS_Subset, FS_CardinalityType
<1>3. ASSUME NEW i \in P, NEW j \in P, upTo[i] \subseteq upTo[j], j \notin upTo[i]
      PROVE  Cardinality(upTo[i]) < Cardinality(upTo[j])
  <2>1. /\ Cardinality(upTo[i]) <= Cardinality(upTo[j])
        /\ Cardinality(upTo[j]) = Cardinality(upTo[i]) => upTo[j] = upTo[i]
    BY <1>2, <1>3, FS_Subset
  <2> QED BY <1>2, <1>3, <2>1
<1>4. \A i \in P : Cardinality(upTo[i]) >= 1
  <2> SUFFICES ASSUME NEW i \in P PROVE Cardinality(upTo[i]) # 0
    BY <1>2
  <2> QED BY <1>2, FS_EmptySet
<1>5. rank \in [P -> 1 .. n]
  BY <1>1, <1>2, <1>4
<1>6. \A i, j \in P : rank[i] = rank[j] => i = j
  BY <1>2, <1>3
<1>7. rank \in Injection(P, 1 .. n)
  BY <1>5, <1>6, Fun_IsInj
<1>8. IsFiniteSet(1 .. n) /\ Cardinality(1 .. n) = n
  BY <1>1, IntervalIs
<1>9. rank \in Surjection(P, 1 .. n)
  BY <1>7, <1>8, FS_Injection
<1>10. rank \in Bijection(P, 1 .. n)
  BY <1>7, <1>9 DEF Bijection
<1>11. ASSUME NEW i \in P, NEW j \in P, Cardinality(upTo[i]) < Cardinality(upTo[j])
       PROVE  upTo[i] \subseteq upTo[j] /\ j \notin upTo[i]
  BY <1>2, <1>3, <1>11
<1> QED BY <1>1, <1>10, <1>11

\* A one-to-one image of a set has as many members.
LEMMA PartIsImage ==
    ASSUME NEW S, NEW T, NEW f \in Bijection(S, T), NEW Q \in SUBSET T
    PROVE  [k \in {k \in S : f[k] \in Q} |-> f[k]] \in Bijection({k \in S : f[k] \in Q}, Q)
<1> DEFINE R == {k \in S : f[k] \in Q}
           g == [k \in R |-> f[k]]
<1>1. /\ f \in [S -> T] /\ \A a, b \in S : f[a] = f[b] => a = b
      /\ \A t \in T : \E s \in S : f[s] = t
  BY Fun_BijectionProperties
<1>2. g \in [R -> Q] /\ \A a, b \in R : g[a] = g[b] => a = b
  BY <1>1
<1>3. \A t \in Q : \E s \in R : g[s] = t
  BY <1>1
<1> QED BY <1>2, <1>3, Fun_IsBij, Zenon

\* R is the part of S that f takes to Q.
IsPart(R, S, T, f, Q) ==
    /\ IsFiniteSet(T) /\ f \in Bijection(S, T) /\ Q \in SUBSET T
    /\ R \in SUBSET S /\ \A k \in S : k \in R <=> f[k] \in Q

LEMMA CountIs ==
    ASSUME NEW S, NEW T, NEW f, NEW Q, NEW R, IsPart(R, S, T, f, Q)
    PROVE  /\ IsFiniteSet(Q) /\ Cardinality(Q) \in Nat
           /\ IsFiniteSet(R) /\ Cardinality(R) = Cardinality(Q)
<1> USE DEF IsPart
<1>1. IsFiniteSet(Q) /\ Cardinality(Q) \in Nat
  BY FS_Subset, FS_CardinalityType
<1>2. R = {k \in S : f[k] \in Q}
  OBVIOUS
<1>3. ExistsBijection(R, Q)
  BY <1>2, PartIsImage DEF ExistsBijection
<1>4. ExistsBijection(Q, R)
  BY <1>3, Fun_ExistsBijSymmetric
<1> QED BY <1>1, <1>4, FS_Bijection

\* A filter keeps the elements of its places, each once, in their order.
KeptAt(s, places, f) ==
    /\ f \in Bijection(1 .. Cardinality(places), places)
    /\ Kept(s, places) = [k \in 1 .. Cardinality(places) |-> s[f[k]]]
    /\ \A i, j \in 1 .. Cardinality(places) : i < j => f[i] < f[j]

UpTo(places, i) == {j \in places : j <= i}

\* The k-th of some places is the one with k of them up to it.
LEMMA PlacesAreRanked ==
    ASSUME NEW places \in SUBSET Nat, IsFiniteSet(places)
    PROVE  /\ Cardinality(places) \in Nat
           /\ \A i \in places : Cardinality(UpTo(places, i)) \in 1 .. Cardinality(places)
           /\ \A k \in 1 .. Cardinality(places) :
                 \E i \in places : Cardinality(UpTo(places, i)) = k
           /\ \A i, j \in places :
                 Cardinality(UpTo(places, i)) = Cardinality(UpTo(places, j)) => i = j
           /\ \A i, j \in places :
                 Cardinality(UpTo(places, i)) < Cardinality(UpTo(places, j)) => i < j
<1> DEFINE n == Cardinality(places)
           upTo == [i \in places |-> UpTo(places, i)]
           rank == [i \in places |-> Cardinality(upTo[i])]
<1>1. \A i \in places : upTo[i] \subseteq places /\ \A j \in places : j \in upTo[i] <=> j <= i
  BY DEF UpTo
<1>2. upTo \in [places -> SUBSET places]
  BY DEF UpTo
<1>3. \A i \in places : upTo[i] = UpTo(places, i)
  OBVIOUS
<1> HIDE DEF upTo
<1>4. \A i \in places : i \in upTo[i]
  BY <1>1
<1>5. \A i, j \in places : i # j => \/ upTo[i] \subseteq upTo[j] /\ j \notin upTo[i]
                                    \/ upTo[j] \subseteq upTo[i] /\ i \notin upTo[j]
  <2>1. ASSUME NEW i \in places, NEW j \in places, i < j
        PROVE  upTo[i] \subseteq upTo[j] /\ j \notin upTo[i]
    <3>1. i \in Nat /\ j \in Nat /\ \A k \in places : k \in Nat
      OBVIOUS
    <3>2. \A k \in places : k <= i => k <= j
      BY <2>1, <3>1
    <3>3. ~ (j <= i)
      BY <2>1, <3>1
    <3> QED BY <1>1, <3>2, <3>3
  <2>2. \A i, j \in places : i < j \/ j < i \/ i = j
    OBVIOUS
  <2> QED BY <2>1, <2>2
<1>6. /\ n \in Nat /\ rank \in Bijection(places, 1 .. n)
      /\ \A i, j \in places : Cardinality(upTo[i]) < Cardinality(upTo[j])
                                 => upTo[i] \subseteq upTo[j] /\ j \notin upTo[i]
  BY <1>2, <1>4, <1>5, RanksAreOneToOne, Zenon
<1>7. \A i \in places : rank[i] = Cardinality(UpTo(places, i))
  BY <1>3
<1> HIDE DEF rank, n
<1>8. /\ \A a, b \in places : rank[a] = rank[b] => a = b
      /\ \A k \in 1 .. n : \E i \in places : rank[i] = k
      /\ rank \in [places -> 1 .. n]
  <2>1. rank \in Bijection(places, 1 .. n)
    BY <1>6
  <2>2. rank \in [places -> 1 .. n]
    BY <2>1, Fun_BijectionProperties, Zenon
  <2>3. \A a, b \in places : rank[a] = rank[b] => a = b
    BY <2>1, Fun_BijectionProperties, Zenon
  <2>4. \A k \in 1 .. n : \E i \in places : rank[i] = k
    BY <2>1 DEF Bijection, Surjection
  <2> QED BY <2>2, <2>3, <2>4
<1>9. \A i, j \in places : Cardinality(upTo[i]) < Cardinality(upTo[j]) => i < j
  BY <1>1, <1>6
<1> QED BY <1>3, <1>6, <1>7, <1>8, <1>9 DEF n

LEMMA KeptIs ==
    ASSUME NEW s, NEW places \in SUBSET Nat, IsFiniteSet(places)
    PROVE  Cardinality(places) \in Nat /\ \E f : KeptAt(s, places, f)
<1> DEFINE n == Cardinality(places)
           Nth(k) == CHOOSE i \in places : Cardinality(UpTo(places, i)) = k
           f == [k \in 1 .. n |-> Nth(k)]
<1>1. \A k \in 1 .. n : Nth(k) \in places /\ Cardinality(UpTo(places, Nth(k))) = k
  BY PlacesAreRanked
<1>2. \A k \in 1 .. n : f[k] = Nth(k)
  OBVIOUS
<1>3. Kept(s, places) = [k \in 1 .. n |-> s[Nth(k)]]
  BY DEF Kept, UpTo
<1>4. f \in [1 .. n -> places]
  BY <1>1
<1> HIDE DEF f, Nth
<1>5. \A k \in 1 .. n : f[k] \in places /\ Cardinality(UpTo(places, f[k])) = k
  BY <1>1, <1>2
<1>6. n \in Nat
  BY PlacesAreRanked
<1> HIDE DEF n
<1> DEFINE rank(i) == Cardinality(UpTo(places, i))
<1>r. /\ \A i \in places : rank(i) \in 1 .. n
      /\ \A i, j \in places : rank(i) = rank(j) => i = j
      /\ \A i, j \in places : rank(i) < rank(j) => i < j
      /\ \A k \in 1 .. n : f[k] \in places /\ rank(f[k]) = k
  BY <1>5, PlacesAreRanked DEF n
<1> HIDE DEF rank
<1>7. \A a, b \in 1 .. n : f[a] = f[b] => a = b
  BY <1>5
<1>8. \A i \in places : \E k \in 1 .. n : f[k] = i
  <2> TAKE i \in places
  <2>1. rank(i) \in 1 .. n
    BY <1>r
  <2>2. f[rank(i)] \in places /\ rank(f[rank(i)]) = rank(i)
    BY <1>r, <2>1
  <2>3. f[rank(i)] = i
    BY <1>r, <2>2
  <2> QED BY <2>1, <2>3
<1>9. f \in Bijection(1 .. n, places)
  BY <1>4, <1>7, <1>8, Fun_IsBij, Zenon
<1>10. \A i, j \in 1 .. n : i < j => f[i] < f[j]
  <2> TAKE i, j \in 1 .. n
  <2>1. f[i] \in places /\ f[j] \in places /\ rank(f[i]) = i /\ rank(f[j]) = j
    BY <1>r
  <2>2. rank(f[i]) < rank(f[j]) => f[i] < f[j]
    BY <1>r, <2>1
  <2> QED BY <2>1, <2>2
<1>11. KeptAt(s, places, f)
  <2>1. Kept(s, places) = [k \in 1 .. n |-> s[f[k]]]
    <3>1. \A k \in 1 .. n : s[Nth(k)] = s[f[k]]
      BY <1>2
    <3> QED BY <1>3, <3>1, Zenon
  <2> QED BY <1>9, <1>10, <2>1 DEF KeptAt, n
<1> QED BY <1>6, <1>11 DEF n

-----------------------------------------------------------------------------
(* Sorts                                                                   *)

InOrder(o) == \A i, j \in DOMAIN o : i < j => o[i].at <= o[j].at

LEMMA SortIs ==
    ASSUME NEW s, NEW n \in Nat, DOMAIN s = 1 .. n, NEW o \in ByTime(s)
    PROVE  /\ \E p \in Bijection(1 .. n, 1 .. n) : o = [k \in 1 .. n |-> s[p[k]]]
           /\ InOrder(o)
  BY DEF ByTime, InOrder

\* Any entries can be put in the order of their instants.
LEMMA SortExists ==
    ASSUME NEW s, NEW n \in Nat, DOMAIN s = 1 .. n, \A k \in 1 .. n : s[k].at \in Nat
    PROVE  ByTime(s) # {}
<1> DEFINE P == 1 .. n
           Before(i, j) == s[i].at < s[j].at \/ (s[i].at = s[j].at /\ i <= j)
           upTo == [i \in P |-> {j \in P : Before(j, i)}]
           rank == [i \in P |-> Cardinality(upTo[i])]
<1>1. IsFiniteSet(P) /\ Cardinality(P) = n
  BY IntervalIs
<1>2. upTo \in [P -> SUBSET P] /\ \A i, j \in P : j \in upTo[i] <=> Before(j, i)
  OBVIOUS
<1> HIDE DEF upTo
<1>3. \A i \in P : i \in upTo[i]
  BY <1>2
<1>4. \A i, j \in P : i # j => \/ upTo[i] \subseteq upTo[j] /\ j \notin upTo[i]
                               \/ upTo[j] \subseteq upTo[i] /\ i \notin upTo[j]
  <2>1. ASSUME NEW i \in P, NEW j \in P, i # j, Before(i, j)
        PROVE  upTo[i] \subseteq upTo[j] /\ j \notin upTo[i]
    <3>1. \A k \in P : Before(k, i) => Before(k, j)
      BY <2>1
    <3>2. ~ Before(j, i)
      BY <2>1
    <3> QED BY <1>2, <3>1, <3>2
  <2>2. \A i, j \in P : i # j => Before(i, j) \/ Before(j, i)
    OBVIOUS
  <2> HIDE DEF Before, P
  <2> QED BY <2>1, <2>2
<1>5. /\ rank \in Bijection(P, 1 .. n)
      /\ \A i, j \in P : Cardinality(upTo[i]) < Cardinality(upTo[j])
                            => upTo[i] \subseteq upTo[j] /\ j \notin upTo[i]
  <2> HIDE DEF P
  <2> QED BY <1>1, <1>2, <1>3, <1>4, RanksAreOneToOne, Zenon
<1>6. \A i \in P : rank[i] = Cardinality(upTo[i])
  OBVIOUS
<1> HIDE DEF rank
<1> DEFINE p == [k \in 1 .. n |-> CHOOSE i \in P : rank[i] = k]
<1>7. /\ rank \in [P -> 1 .. n]
      /\ \A k \in 1 .. n : \E i \in P : rank[i] = k
      /\ \A i, j \in P : rank[i] = rank[j] => i = j
  <2>1. rank \in [P -> 1 .. n] /\ \A i, j \in P : rank[i] = rank[j] => i = j
    BY <1>5 DEF Bijection, Injection, IsInjective
  <2> QED BY <1>5, <2>1 DEF Bijection, Surjection
<1>8. \A k \in 1 .. n : p[k] \in P /\ rank[p[k]] = k
  BY <1>7
<1>9. p \in [1 .. n -> P]
  BY <1>8
<1> HIDE DEF p
<1>10. p \in Bijection(1 .. n, 1 .. n)
  <2>1. \A a, b \in 1 .. n : p[a] = p[b] => a = b
    BY <1>8
  <2>2. \A i \in 1 .. n : \E k \in 1 .. n : p[k] = i
    <3> TAKE i \in 1 .. n
    <3>1. rank[i] \in 1 .. n
      BY <1>7
    <3>2. p[rank[i]] = i
      BY <1>7, <1>8, <3>1
    <3> QED BY <3>1, <3>2
  <2> QED BY <1>9, <2>1, <2>2, Fun_IsBij, Zenon
<1> DEFINE o == [k \in 1 .. n |-> s[p[k]]]
<1>11. \A i, j \in 1 .. n : i < j => o[i].at <= o[j].at
  <2> SUFFICES ASSUME NEW i \in 1 .. n, NEW j \in 1 .. n, i < j
               PROVE  s[p[i]].at <= s[p[j]].at
    OBVIOUS
  <2>1. p[i] \in P /\ p[j] \in P /\ rank[p[i]] = i /\ rank[p[j]] = j
    BY <1>8
  <2>2. p[j] \notin upTo[p[i]]
    BY <1>5, <1>6, <2>1
  <2>3. ~ Before(p[j], p[i])
    BY <1>2, <2>1, <2>2
  <2> QED BY <2>1, <2>3
<1>12. o \in ByTime(s)
  BY <1>10, <1>11 DEF ByTime
<1> QED BY <1>12

\* o has the entries of these places, each once, in the order of their instants.
Arranged(o, entries, places) ==
    /\ IsFiniteSet(places) /\ Cardinality(places) \in Nat
    /\ \E b \in Bijection(1 .. Cardinality(places), places) :
          o = [k \in 1 .. Cardinality(places) |-> entries[b[k]]]
    /\ InOrder(o)

\* The places of the failures of one kind.
Places(entries, chosen, key) == {k \in chosen : HttpFailureKey(entries[k]) = key}

\* The failures that the code groups and sorts are those of one kind.
LEMMA KindsAreSorted ==
    ASSUME NEW entries, NEW m \in Nat, DOMAIN entries = 1 .. m,
           \A k \in 1 .. m : entries[k].at \in Nat,
           NEW chosen \in SUBSET (1 .. m), NEW key
    PROVE  LET failures == Kept(entries, chosen)
               places == Places(entries, chosen, key)
           IN /\ ByTime(Group(failures, key)) # {}
              /\ \A o \in ByTime(Group(failures, key)) : Arranged(o, entries, places)
              /\ {HttpFailureKey(failures[k]) : k \in DOMAIN failures}
                    = {HttpFailureKey(entries[k]) : k \in chosen}
<1> USE DEF Places
<1> DEFINE failures == Kept(entries, chosen)
           places == {k \in chosen : HttpFailureKey(entries[k]) = key}
           c == Cardinality(chosen)
<1>1. IsFiniteSet(1 .. m)
  BY FS_Interval
<1>2. IsFiniteSet(chosen) /\ chosen \in SUBSET Nat
  <2>1. IsFiniteSet(chosen)
    BY <1>1, FS_Subset
  <2> QED BY <2>1
<1>3. IsFiniteSet(places) /\ Cardinality(places) \in Nat
  BY <1>2, FS_Subset, FS_CardinalityType
<1>4. c \in Nat /\ \E f : KeptAt(entries, chosen, f)
  BY <1>2, KeptIs
<1>5. PICK f : KeptAt(entries, chosen, f)
  BY <1>4
<1> HIDE DEF c
<1>6. /\ f \in Bijection(1 .. c, chosen)
      /\ failures = [k \in 1 .. c |-> entries[f[k]]]
  BY <1>5 DEF KeptAt, c
<1>7. /\ f \in [1 .. c -> chosen]
      /\ \A i \in chosen : \E k \in 1 .. c : f[k] = i
  BY <1>6 DEF Bijection, Injection, Surjection
<1> HIDE DEF failures
<1>8. /\ DOMAIN failures = 1 .. c
      /\ \A k \in 1 .. c : failures[k] = entries[f[k]] /\ f[k] \in chosen
  BY <1>6, <1>7
<1>9. {HttpFailureKey(failures[k]) : k \in DOMAIN failures}
         = {HttpFailureKey(entries[k]) : k \in chosen}
  <2>1. \A x \in {HttpFailureKey(failures[k]) : k \in DOMAIN failures} :
           x \in {HttpFailureKey(entries[k]) : k \in chosen}
    BY <1>8
  <2>2. \A x \in {HttpFailureKey(entries[k]) : k \in chosen} :
           x \in {HttpFailureKey(failures[k]) : k \in DOMAIN failures}
    BY <1>7, <1>8
  <2> QED BY <2>1, <2>2
<1> DEFINE kind == {k \in 1 .. c : HttpFailureKey(failures[k]) = key}
           group == Group(failures, key)
           n == Cardinality(kind)
<1>10. kind = {k \in 1 .. c : f[k] \in places}
  BY <1>8
<1>11. kind \in SUBSET Nat /\ IsFiniteSet(kind) /\ n = Cardinality(places)
  <2>1. places \in SUBSET chosen
    OBVIOUS
  <2> HIDE DEF places, kind
  <2>2. IsPart(kind, 1 .. c, chosen, f, places)
    BY <1>2, <1>6, <1>10, <2>1 DEF IsPart
  <2>3. IsFiniteSet(kind) /\ n = Cardinality(places)
    BY <2>2, CountIs
  <2> QED BY <2>3 DEF kind
<1>12. group = Kept(failures, kind)
  BY <1>8 DEF Group
<1>13. n \in Nat /\ \E h : KeptAt(failures, kind, h)
  <2> HIDE DEF kind
  <2> QED BY <1>11, KeptIs
<1>14. PICK h : KeptAt(failures, kind, h)
  BY <1>13
<1> HIDE DEF group, n, kind
<1>15. /\ h \in Bijection(1 .. n, kind)
       /\ group = [k \in 1 .. n |-> failures[h[k]]]
  BY <1>12, <1>14 DEF KeptAt, n
<1>16. h \in [1 .. n -> kind] /\ \A k \in kind : k \in 1 .. c
  BY <1>15 DEF Bijection, Injection, kind
<1> DEFINE part == [k \in kind |-> f[k]]
           b == [k \in 1 .. n |-> part[h[k]]]
<1>17. part \in Bijection(kind, places)
  <2>1. places \in SUBSET chosen
    OBVIOUS
  <2> HIDE DEF places
  <2> QED BY <1>6, <1>10, <2>1, PartIsImage
<1>18. b \in Bijection(1 .. n, places)
  <2> HIDE DEF part, places
  <2> QED BY <1>15, <1>17, Fun_BijTransitive
<1>19. /\ DOMAIN group = 1 .. n
       /\ \A k \in 1 .. n : group[k] = entries[b[k]] /\ b[k] \in places
  <2>1. b \in [1 .. n -> places]
    BY <1>18 DEF Bijection, Injection
  <2> QED BY <1>8, <1>15, <1>16, <2>1
<1> HIDE DEF b, part
<1>20. \A k \in 1 .. n : group[k].at \in Nat
  BY <1>19
<1>21. ByTime(group) # {}
  BY <1>13, <1>19, <1>20, SortExists
<1>22. ASSUME NEW o \in ByTime(group) PROVE Arranged(o, entries, places)
  <2>1. InOrder(o) /\ \E p \in Bijection(1 .. n, 1 .. n) : o = [k \in 1 .. n |-> group[p[k]]]
    BY <1>13, <1>19, SortIs
  <2>2. PICK p \in Bijection(1 .. n, 1 .. n) : o = [k \in 1 .. n |-> group[p[k]]]
    BY <2>1
  <2> DEFINE q == [k \in 1 .. n |-> b[p[k]]]
  <2>3. q \in Bijection(1 .. n, places)
    <3> HIDE DEF places
    <3> QED BY <1>18, Fun_BijTransitive
  <2>4. \A k \in 1 .. n : p[k] \in 1 .. n
    BY DEF Bijection, Injection
  <2>5. o = [k \in 1 .. n |-> entries[q[k]]]
    BY <1>19, <2>2, <2>4
  <2> HIDE DEF q, places
  <2>6. \E r \in Bijection(1 .. n, places) : o = [k \in 1 .. n |-> entries[r[k]]]
    BY <2>3, <2>5
  <2> QED BY <1>3, <1>11, <2>1, <2>6 DEF Arranged
<1> QED BY <1>9, <1>21, <1>22 DEF group, failures

-----------------------------------------------------------------------------
(* Windows                                                                 *)

LEMMA LengthIs ==
    ASSUME NEW m \in Nat, NEW W, W = [k \in 1 .. m |-> W[k]]
    PROVE  W \in Seq({W[k] : k \in 1 .. m}) /\ Len(W) = m /\ DOMAIN W = 1 .. m
<1> DEFINE S == {W[k] : k \in 1 .. m}
<1>1. W \in [1 .. m -> S]
  OBVIOUS
<1> HIDE DEF S
<1>2. W \in Seq(S) /\ Len(W) = m
  BY <1>1
<1> QED BY <1>1, <1>2 DEF S

\* The places of the entries that are in the window which opens with the i-th.
Inside(o, i, w) == {k \in DOMAIN o : k >= i /\ (o[i].at = 0 \/ o[k].at - o[i].at <= w)}

WindowAt(W, o, i, w, g) ==
    /\ g \in Bijection(1 .. Cardinality(Inside(o, i, w)), Inside(o, i, w))
    /\ W = [k \in 1 .. Cardinality(Inside(o, i, w)) |-> o[g[k]]]
    /\ \A k, l \in 1 .. Cardinality(Inside(o, i, w)) : k < l => g[k] < g[l]

IsWindow(W, o, i, w) ==
    /\ IsFiniteSet(Inside(o, i, w)) /\ Cardinality(Inside(o, i, w)) \in Nat
    /\ Len(W) = Cardinality(Inside(o, i, w))
    /\ \E g : WindowAt(W, o, i, w, g)

LEMMA InsideIsFinite ==
    ASSUME NEW o, NEW n \in Nat, DOMAIN o = 1 .. n, NEW i, NEW w
    PROVE  /\ IsFiniteSet(Inside(o, i, w)) /\ Cardinality(Inside(o, i, w)) \in Nat
           /\ Cardinality(Inside(o, i, w)) <= n
<1>1. IsFiniteSet(1 .. n) /\ Cardinality(1 .. n) = n
  BY IntervalIs
<1>2. Inside(o, i, w) \in SUBSET (1 .. n)
  BY DEF Inside
<1> QED BY <1>1, <1>2, FS_Subset, FS_CardinalityType

LEMMA WindowIs ==
    ASSUME NEW o, NEW n \in Nat, DOMAIN o = 1 .. n, NEW i, NEW w, NEW W, NEW g,
           WindowAt(W, o, i, w, g)
    PROVE  IsWindow(W, o, i, w)
<1>1. /\ IsFiniteSet(Inside(o, i, w)) /\ Cardinality(Inside(o, i, w)) \in Nat
  BY InsideIsFinite
<1>2. Len(W) = Cardinality(Inside(o, i, w))
  BY <1>1, LengthIs DEF WindowAt
<1> QED BY <1>1, <1>2 DEF IsWindow

\* The window that the code collects holds the entries of these places: the Goravel adapter's.
LEMMA GoravelWindowIs ==
    ASSUME NEW o, NEW n \in Nat, DOMAIN o = 1 .. n, Len(o) = n, NEW i \in 1 .. n, NEW w,
           o[i].at # 0
    PROVE  IsWindow(Kept(o, {k \in i .. Len(o) : o[k].at - o[i].at <= w}), o, i, w)
<1> DEFINE places == {k \in i .. Len(o) : o[k].at - o[i].at <= w}
<1>1. places = Inside(o, i, w)
  BY DEF Inside
<1>2. places \in SUBSET Nat
  OBVIOUS
<1> HIDE DEF places
<1>3. IsFiniteSet(places)
  BY <1>1, InsideIsFinite
<1>4. PICK g : KeptAt(o, places, g)
  BY <1>2, <1>3, KeptIs
<1>5. WindowAt(Kept(o, places), o, i, w, g)
  BY <1>1, <1>4 DEF KeptAt, WindowAt
<1> QED BY <1>5, WindowIs DEF places

\* And that of the engine, which numbers them from the first of the window.
LEMMA HTTPWindowIs ==
    ASSUME NEW S, NEW o \in Seq(S), NEW n \in Nat, DOMAIN o = 1 .. n, Len(o) = n,
           NEW i \in 1 .. n, NEW w
    PROVE  IsWindow(CollectHTTPWindow(SubSeq(o, i, Len(o)), w), o, i, w)
<1> DEFINE s == SubSeq(o, i, Len(o))
           l == n - i + 1
           places == {k \in DOMAIN s : s[1].at = 0 \/ s[k].at - s[1].at <= w}
           inside == Inside(o, i, w)
           shift == [k \in places |-> k + i - 1]
<1>1. /\ l \in Nat /\ DOMAIN s = 1 .. l /\ s[1] = o[i]
      /\ \A k \in 1 .. l : s[k] = o[k + i - 1]
  OBVIOUS
<1>2. CollectHTTPWindow(s, w) = Kept(s, places)
  BY DEF CollectHTTPWindow
<1> HIDE DEF s
<1>3. IsFiniteSet(places) /\ places \in SUBSET Nat
  <2>1. IsFiniteSet(1 .. l) /\ places \in SUBSET (1 .. l)
    BY <1>1, FS_Interval
  <2> HIDE DEF places
  <2>2. IsFiniteSet(places)
    BY <2>1, FS_Subset
  <2> QED BY <2>1, <2>2
<1>4. \A k \in 1 .. l : k \in places <=> k + i - 1 \in inside
  BY <1>1 DEF Inside
<1>5. \A k \in inside : k \in i .. n
  BY DEF Inside
<1>6. \A k \in places : k \in 1 .. l
  BY <1>1
<1> HIDE DEF places, inside
<1>7. shift \in Bijection(places, inside)
  <2>1. shift \in [places -> inside]
    BY <1>4, <1>6
  <2>2. \A a, b \in places : shift[a] = shift[b] => a = b
    BY <1>6
  <2>3. \A k \in inside : \E a \in places : shift[a] = k
    <3> TAKE k \in inside
    <3>1. k \in i .. n /\ k - i + 1 \in 1 .. l /\ (k - i + 1) + i - 1 = k
      BY <1>5
    <3>2. k - i + 1 \in places
      BY <1>4, <3>1
    <3> QED BY <3>1, <3>2
  <2> QED BY <2>1, <2>2, <2>3, Fun_IsBij, Zenon
<1>8. \A k \in places : shift[k] = k + i - 1
  OBVIOUS
<1> HIDE DEF shift
<1>9. Cardinality(inside) = Cardinality(places)
  BY <1>3, <1>7, FS_Bijection DEF ExistsBijection
<1> DEFINE m == Cardinality(places)
<1>10. PICK f : KeptAt(s, places, f)
  BY <1>3, KeptIs
<1> HIDE DEF m
<1>11. /\ f \in Bijection(1 .. m, places)
       /\ Kept(s, places) = [k \in 1 .. m |-> s[f[k]]]
       /\ \A j, k \in 1 .. m : j < k => f[j] < f[k]
  BY <1>10 DEF KeptAt, m
<1> DEFINE g == [k \in 1 .. m |-> shift[f[k]]]
<1>12. g \in Bijection(1 .. m, inside)
  <2>1. f \in Bijection(1 .. m, places)
    BY <1>11
  <2> QED BY <1>7, <2>1, Fun_BijTransitive
<1>13. \A k \in 1 .. m : f[k] \in places
  BY <1>11 DEF Bijection, Injection
<1>14. \A k \in 1 .. m : s[f[k]] = o[g[k]]
  BY <1>1, <1>6, <1>8, <1>13
<1>15. \A j, k \in 1 .. m : j < k => g[j] < g[k]
  BY <1>6, <1>8, <1>11, <1>13
<1>16. Kept(s, places) = [k \in 1 .. m |-> o[g[k]]]
  BY <1>11, <1>14
<1> HIDE DEF g
<1>17. WindowAt(Kept(s, places), o, i, w, g)
  BY <1>9, <1>12, <1>15, <1>16 DEF WindowAt, m, inside
<1>18. IsWindow(Kept(s, places), o, i, w)
  BY <1>17, WindowIs
<1> QED BY <1>2, <1>18 DEF s

-----------------------------------------------------------------------------
(* Counts of windows                                                       *)

\* The places of the entries in an interval.
Span(o, from, to) == {k \in DOMAIN o : o[k].at \in from .. to}

\* A sorted sequence of entries with instants.
Timeline(o, n) ==
    /\ n \in Nat /\ DOMAIN o = 1 .. n /\ Len(o) = n
    /\ \A k \in 1 .. n : o[k].at \in Nat
    /\ InOrder(o)

\* The i-th is the first from which on there are enough of them in its window.
OpensFirst(o, i, w, least) ==
    /\ i \in DOMAIN o /\ Cardinality(Inside(o, i, w)) >= least
    /\ \A j \in DOMAIN o : Cardinality(Inside(o, j, w)) >= least => i <= j

\* Before the entry that opens the first window none has its instant, so that the window
\* holds all entries of its interval, and not only those that come later in the sequence.
LEMMA FirstIsWhole ==
    ASSUME NEW o, NEW n, Timeline(o, n), NEW w \in Int, NEW least \in Int,
           NEW i, OpensFirst(o, i, w, least), o[i].at # 0
    PROVE  Inside(o, i, w) = Span(o, o[i].at, o[i].at + w)
<1> USE DEF Timeline
<1>1. i \in 1 .. n /\ o[i].at \in Nat
  BY DEF OpensFirst
<1>2. \A k, l \in 1 .. n : k < l => o[k].at <= o[l].at
  BY DEF InOrder
<1>3. ASSUME NEW k \in Inside(o, i, w) PROVE k \in Span(o, o[i].at, o[i].at + w)
  <2>1. k \in 1 .. n /\ k >= i /\ o[k].at - o[i].at <= w /\ o[k].at \in Nat
    BY <1>1 DEF Inside
  <2>2. o[i].at <= o[k].at
    BY <1>1, <1>2, <2>1
  <2>3. o[k].at \in o[i].at .. o[i].at + w
    BY <1>1, <2>1, <2>2
  <2> QED BY <2>1, <2>3 DEF Span
<1>4. ASSUME NEW k \in Span(o, o[i].at, o[i].at + w) PROVE k \in Inside(o, i, w)
  <2>1. /\ k \in 1 .. n /\ o[k].at \in Nat
        /\ o[i].at <= o[k].at /\ o[k].at - o[i].at <= w
    BY <1>1 DEF Span
  <2>2. CASE k >= i
    BY <2>1, <2>2 DEF Inside
  <2>3. CASE k < i
    <3>1. o[k].at = o[i].at
      BY <1>1, <1>2, <2>1, <2>3
    <3>2. Inside(o, i, w) \subseteq Inside(o, k, w)
      BY <1>1, <2>1, <2>3, <3>1 DEF Inside
    <3>3. /\ IsFiniteSet(Inside(o, k, w))
          /\ Cardinality(Inside(o, i, w)) \in Nat /\ Cardinality(Inside(o, k, w)) \in Nat
      BY InsideIsFinite
    <3>4. Cardinality(Inside(o, i, w)) <= Cardinality(Inside(o, k, w))
      BY <3>2, <3>3, FS_Subset
    <3>5. i <= k
      BY <2>1, <3>3, <3>4 DEF OpensFirst
    <3> QED BY <1>1, <2>1, <2>3, <3>5
  <2> QED BY <1>1, <2>1, <2>2, <2>3
<1> QED BY <1>3, <1>4

\* If no window has enough entries, no interval that opens with an entry has.
LEMMA NoneIsRepeated ==
    ASSUME NEW o, NEW n, Timeline(o, n), NEW w \in Int, NEW least \in Int,
           \A j \in 1 .. n : ~ (Cardinality(Inside(o, j, w)) >= least),
           NEW i \in 1 .. n
    PROVE  ~ (Cardinality(Span(o, o[i].at, o[i].at + w)) >= least)
<1> USE DEF Timeline
<1> DEFINE Same == {k \in 1 .. n : o[k].at = o[i].at}
<1>1. Same \in SUBSET Nat /\ Same # {}
  OBVIOUS
<1>2. PICK q \in Same : \A k \in Same : q <= k
  BY <1>1, LeastExists
<1>3. q \in 1 .. n /\ o[q].at = o[i].at /\ o[i].at \in Nat
  OBVIOUS
<1>4. \A k, l \in 1 .. n : k < l => o[k].at <= o[l].at
  BY DEF InOrder
<1>5. ASSUME NEW k \in Span(o, o[i].at, o[i].at + w) PROVE k \in Inside(o, q, w)
  <2>1. /\ k \in 1 .. n /\ o[k].at \in Nat
        /\ o[q].at <= o[k].at /\ o[k].at - o[q].at <= w
    BY <1>3 DEF Span
  <2>2. ~ (k < q)
    <3> SUFFICES ASSUME k < q PROVE FALSE
      OBVIOUS
    <3>1. o[k].at = o[i].at
      BY <1>3, <1>4, <2>1
    <3>2. q <= k
      BY <1>2, <2>1, <3>1
    <3> QED BY <1>3, <2>1, <3>2
  <2> QED BY <1>3, <2>1, <2>2 DEF Inside
<1>6. /\ IsFiniteSet(Inside(o, q, w)) /\ Cardinality(Inside(o, q, w)) \in Nat
  BY InsideIsFinite
<1>7. /\ IsFiniteSet(Span(o, o[i].at, o[i].at + w))
      /\ Cardinality(Span(o, o[i].at, o[i].at + w)) <= Cardinality(Inside(o, q, w))
  BY <1>5, <1>6, FS_Subset
<1>8. Cardinality(Span(o, o[i].at, o[i].at + w)) \in Nat
  BY <1>7, FS_CardinalityType
<1> QED BY <1>3, <1>6, <1>7, <1>8

\* Without a timestamp everything is in the first window.
LEMMA UntimedIsWhole ==
    ASSUME NEW o, NEW n, Timeline(o, n), NEW w, NEW k \in 1 .. n, o[k].at = 0
    PROVE  1 \in 1 .. n /\ Cardinality(Inside(o, 1, w)) = n
<1> USE DEF Timeline
<1>1. 1 \in 1 .. n /\ o[1].at \in Nat
  OBVIOUS
<1>2. o[1].at = 0
  BY <1>1 DEF InOrder
<1>3. Inside(o, 1, w) = 1 .. n
  BY <1>2 DEF Inside
<1> QED BY <1>1, <1>3, IntervalIs

Among(entries, places, from, to) == {k \in places : entries[k].at \in from .. to}

Elements(o, n) == {o[k] : k \in 1 .. n}

\* What an arrangement has.
LEMMA ArrangedIs ==
    ASSUME NEW o, NEW entries, NEW places, Arranged(o, entries, places),
           \A k \in places : entries[k].at \in Nat
    PROVE  /\ Timeline(o, Cardinality(places))
           /\ o \in Seq(Elements(o, Cardinality(places)))
           /\ \A k \in 1 .. Cardinality(places) : \E j \in places : o[k] = entries[j]
           /\ \A j \in places : \E k \in 1 .. Cardinality(places) : o[k] = entries[j]
           /\ \A from, to :
                 Cardinality(Span(o, from, to)) = Cardinality(Among(entries, places, from, to))
<1> DEFINE n == Cardinality(places)
<1>1. n \in Nat /\ IsFiniteSet(places) /\ InOrder(o)
  BY DEF Arranged
<1>2. PICK b \in Bijection(1 .. n, places) : o = [k \in 1 .. n |-> entries[b[k]]]
  BY DEF Arranged
<1> HIDE DEF n
<1>3. /\ \A k \in 1 .. n : b[k] \in places
      /\ \A j \in places : \E k \in 1 .. n : b[k] = j
  BY DEF Bijection, Injection, Surjection
<1>4. DOMAIN o = 1 .. n /\ \A k \in 1 .. n : o[k] = entries[b[k]]
  BY <1>2
<1>5. o = [k \in 1 .. n |-> o[k]]
  BY <1>2
<1>6. o \in Seq(Elements(o, n)) /\ Len(o) = n
  BY <1>1, <1>5, LengthIs DEF Elements
<1>7. Timeline(o, n)
  BY <1>1, <1>3, <1>4, <1>6 DEF Timeline
<1>8. ASSUME NEW from, NEW to
      PROVE  Cardinality(Span(o, from, to)) = Cardinality(Among(entries, places, from, to))
  <2> DEFINE Q == Among(entries, places, from, to)
             R == Span(o, from, to)
  <2>1. R \in SUBSET (1 .. n) /\ Q \in SUBSET places
    BY <1>4 DEF Span, Among
  <2>2. \A k \in 1 .. n : k \in R <=> b[k] \in Q
    BY <1>3, <1>4 DEF Span, Among
  <2> HIDE DEF Q, R
  <2>3. IsPart(R, 1 .. n, places, b, Q)
    BY <1>1, <2>1, <2>2 DEF IsPart
  <2>4. Cardinality(R) = Cardinality(Q)
    BY <2>3, CountIs
  <2> QED BY <2>4 DEF Q, R
<1> QED BY <1>3, <1>4, <1>6, <1>7, <1>8 DEF n

\* X has the last elements of W.
IsTail(X, W, x) ==
    /\ x \in 1 .. Len(W) /\ Len(X) = x /\ DOMAIN X = 1 .. x
    /\ \A k \in 1 .. x : X[k] = W[Len(W) - x + k]

LEMMA LastOfIsTail ==
    ASSUME NEW S, NEW W \in Seq(S), Len(W) >= 1, NEW limit \in Nat \ {0}
    PROVE  \E x : IsTail(LastOf(W, limit), W, x)
<1>1. CASE Len(W) <= limit
  <2>1. LastOf(W, limit) = W
    BY <1>1 DEF LastOf
  <2>2. IsTail(W, W, Len(W))
    BY DEF IsTail
  <2> QED BY <2>1, <2>2
<1>2. CASE ~ (Len(W) <= limit)
  <2>1. LastOf(W, limit) = SubSeq(W, Len(W) - limit + 1, Len(W))
    BY <1>2 DEF LastOf
  <2>2. IsTail(SubSeq(W, Len(W) - limit + 1, Len(W)), W, limit)
    BY <1>2 DEF IsTail
  <2> QED BY <2>1, <2>2
<1> QED BY <1>1, <1>2

\* Fewer failures come after a quoted one than are quoted.
LEMMA LastAreQuoted ==
    ASSUME NEW o, NEW n, Timeline(o, n), NEW w \in Int, NEW i \in 1 .. n, NEW W,
           IsWindow(W, o, i, w), Inside(o, i, w) = Span(o, o[i].at, o[i].at + w),
           NEW X, NEW x, IsTail(X, W, x), NEW k \in 1 .. x
    PROVE  Cardinality(Span(o, X[k].at + 1, o[i].at + w)) < x
<1> DEFINE inside == Inside(o, i, w)
           m == Cardinality(inside)
           after == Span(o, X[k].at + 1, o[i].at + w)
<1>1. /\ m \in Nat /\ IsFiniteSet(inside) /\ Len(W) = m
  BY DEF IsWindow
<1>2. PICK g : WindowAt(W, o, i, w, g)
  BY DEF IsWindow
<1>3. /\ g \in Bijection(1 .. m, inside)
      /\ W = [p \in 1 .. m |-> o[g[p]]]
      /\ \A p, q \in 1 .. m : p < q => g[p] < g[q]
  BY <1>2 DEF WindowAt
<1>4. /\ \A p \in 1 .. m : g[p] \in inside
      /\ inside \subseteq 1 .. n
  BY <1>3 DEF Bijection, Injection, Inside, Timeline
<1>5. inside = Span(o, o[i].at, o[i].at + w)
  OBVIOUS
<1> HIDE DEF m, inside
<1> DEFINE q == m - x + k
<1>6. q \in 1 .. m /\ m - q = x - k /\ x \in 1 .. m /\ k \in 1 .. x
  BY <1>1 DEF IsTail
<1>7. X[k] = o[g[q]]
  BY <1>1, <1>3, <1>6 DEF IsTail
<1> HIDE DEF q
<1>8. /\ \A p \in 1 .. n : o[p].at \in Nat
      /\ \A p, r \in 1 .. n : p < r => o[p].at <= o[r].at
      /\ DOMAIN o = 1 .. n /\ n \in Nat
  BY DEF Timeline, InOrder
<1>9. g[q] \in inside /\ g[q] \in 1 .. n
  BY <1>4, <1>6
<1>10. X[k].at \in Nat /\ o[i].at <= X[k].at
  BY <1>5, <1>7, <1>8, <1>9 DEF Span
<1>11. after \in SUBSET inside
  BY <1>5, <1>8, <1>10 DEF Span
<1> DEFINE R == {p \in 1 .. m : g[p] \in after}
<1>12. \A p \in R : p \in q + 1 .. m
  <2> SUFFICES ASSUME NEW p \in 1 .. m, g[p] \in after PROVE p \in q + 1 .. m
    OBVIOUS
  <2>1. g[p] \in 1 .. n /\ o[g[p]].at > o[g[q]].at
    BY <1>4, <1>7, <1>8, <1>9, <1>10 DEF Span
  <2>2. ~ (p < q)
    <3> SUFFICES ASSUME p < q PROVE FALSE
      OBVIOUS
    <3>1. g[p] < g[q]
      BY <1>3, <1>6
    <3> QED BY <1>8, <1>9, <2>1, <3>1
  <2>3. p # q
    BY <1>8, <1>9, <2>1
  <2> QED BY <1>6, <2>2, <2>3
<1>13. IsPart(R, 1 .. m, inside, g, after)
  BY <1>1, <1>3, <1>11 DEF IsPart
<1> HIDE DEF R, after
<1>14. Cardinality(after) = Cardinality(R)
  BY <1>13, CountIs
<1>15. /\ IsFiniteSet(q + 1 .. m)
       /\ Cardinality(q + 1 .. m) = IF q + 1 > m THEN 0 ELSE m - (q + 1) + 1
  BY <1>1, <1>6, FS_Interval
<1>16. Cardinality(R) <= Cardinality(q + 1 .. m)
  BY <1>12, <1>15, FS_Subset
<1>17. Cardinality(q + 1 .. m) = x - k
  BY <1>1, <1>6, <1>15
<1>18. Cardinality(R) \in Nat
  BY <1>13, CountIs
<1>19. Cardinality(R) < x
  BY <1>6, <1>16, <1>17, <1>18
<1> QED BY <1>14, <1>19 DEF after

-----------------------------------------------------------------------------
(* Signals                                                                 *)

\* The signal is made of the window that opens first.
MadeOf(sig, o, t, i, W) ==
    /\ IsWindow(W, o, i, t.window) /\ OpensFirst(o, i, t.window, t.minCount)
    /\ sig.key = HttpFailureKey(W[1]) /\ sig.count = Len(W)
    /\ \/ /\ sig.kind = "http_failure" /\ sig.excerpts = RawExcerpts(W)
          /\ sig.start = SignalWindow(W[1].at, W[Len(W)].at).start
          /\ sig.end = SignalWindow(W[1].at, W[Len(W)].at).end
       \/ /\ sig.kind = "goravel_route_failure" /\ sig.excerpts = W
          /\ sig.start = W[1].at /\ sig.end = W[Len(W)].at

NothingRepeated(o, t) ==
    \A j \in DOMAIN o : ~ (Cardinality(Inside(o, j, t.window)) >= t.minCount)

LEMMA FirstExists ==
    ASSUME NEW n \in Nat, NEW enough \in SUBSET (1 .. n), enough # {}
    PROVE  LET first == CHOOSE i \in enough : \A j \in enough : i <= j
           IN first \in enough /\ \A j \in enough : first <= j
<1>1. enough \in SUBSET Nat
  OBVIOUS
<1>2. \E i \in enough : \A j \in enough : i <= j
  BY <1>1, LeastExists
<1> QED BY <1>2

\* The signal of one kind of failures, if it has one: the engine's and the Goravel adapter's.
LEMMA SignalOfIs ==
    ASSUME NEW S, NEW o \in Seq(S), NEW n, Timeline(o, n), NEW t
    PROVE  \/ SignalOf(o, t) = NoSignal /\ NothingRepeated(o, t)
           \/ \E i, W : MadeOf(SignalOf(o, t), o, t, i, W)
<1> DEFINE Window(i) == CollectHTTPWindow(SubSeq(o, i, Len(o)), t.window)
           enough == {i \in DOMAIN o : Len(Window(i)) >= t.minCount}
           first == CHOOSE i \in enough : \A j \in enough : i <= j
           W == Window(first)
           interval == SignalWindow(W[1].at, W[Len(W)].at)
           made == [kind |-> "http_failure", service |-> OrElse(t.service, "", W[1].service),
                    key |-> HttpFailureKey(W[1]), count |-> Len(W),
                    start |-> interval.start, end |-> interval.end,
                    excerpts |-> RawExcerpts(W)]
<1>1. SignalOf(o, t) = IF enough = {} THEN NoSignal ELSE made
  BY DEF SignalOf
<1>2. n \in Nat /\ DOMAIN o = 1 .. n /\ Len(o) = n
  BY DEF Timeline
<1>3. \A i \in 1 .. n : IsWindow(Window(i), o, i, t.window)
  BY <1>2, HTTPWindowIs
<1>4. \A i \in 1 .. n : Len(Window(i)) = Cardinality(Inside(o, i, t.window))
  BY <1>3 DEF IsWindow
<1> HIDE DEF Window
<1>5. \A i \in 1 .. n :
         i \in enough <=> Cardinality(Inside(o, i, t.window)) >= t.minCount
  BY <1>2, <1>4
<1>6. enough \in SUBSET (1 .. n)
  BY <1>2
<1> HIDE DEF enough
<1>7. CASE enough = {}
  <2>1. SignalOf(o, t) = NoSignal
    BY <1>1, <1>7
  <2>2. NothingRepeated(o, t)
    BY <1>2, <1>5, <1>7 DEF NothingRepeated
  <2> QED BY <2>1, <2>2
<1>8. CASE enough # {}
  <2>1. first \in enough /\ \A j \in enough : first <= j
    BY <1>2, <1>6, <1>8, FirstExists
  <2> HIDE DEF first
  <2>2. first \in 1 .. n /\ OpensFirst(o, first, t.window, t.minCount)
    BY <1>2, <1>5, <1>6, <2>1 DEF OpensFirst
  <2>3. IsWindow(W, o, first, t.window)
    BY <1>3, <2>2
  <2> HIDE DEF W, interval
  <2>4. /\ made.key = HttpFailureKey(W[1]) /\ made.count = Len(W)
        /\ made.kind = "http_failure" /\ made.excerpts = RawExcerpts(W)
        /\ made.start = interval.start /\ made.end = interval.end
    OBVIOUS
  <2>5. SignalOf(o, t) = made
    BY <1>1, <1>8
  <2> HIDE DEF made
  <2>6. MadeOf(made, o, t, first, W)
    BY <2>2, <2>3, <2>4 DEF MadeOf, interval
  <2> QED BY <2>5, <2>6
<1> QED BY <1>7, <1>8

LEMMA FailureGroupIs ==
    ASSUME NEW o, NEW n, Timeline(o, n), \A k \in 1 .. n : o[k].at # 0, NEW t
    PROVE  \/ FailureGroup(o, t) = NoSignal /\ NothingRepeated(o, t)
           \/ \E i, W : MadeOf(FailureGroup(o, t), o, t, i, W)
<1> DEFINE Window(i) == Kept(o, {k \in i .. Len(o) : o[k].at - o[i].at <= t.window})
           enough == {i \in DOMAIN o : Len(Window(i)) >= t.minCount}
           first == CHOOSE i \in enough : \A j \in enough : i <= j
           W == Window(first)
           made == [kind |-> "goravel_route_failure", service |-> t.service,
                    key |-> HttpFailureKey(W[1]), count |-> Len(W),
                    start |-> W[1].at, end |-> W[Len(W)].at, excerpts |-> W]
<1>1. FailureGroup(o, t) = IF enough = {} THEN NoSignal ELSE made
  BY DEF FailureGroup
<1>2. n \in Nat /\ DOMAIN o = 1 .. n /\ Len(o) = n
  BY DEF Timeline
<1>3. \A i \in 1 .. n : IsWindow(Window(i), o, i, t.window)
  BY <1>2, GoravelWindowIs
<1>4. \A i \in 1 .. n : Len(Window(i)) = Cardinality(Inside(o, i, t.window))
  BY <1>3 DEF IsWindow
<1> HIDE DEF Window
<1>5. \A i \in 1 .. n :
         i \in enough <=> Cardinality(Inside(o, i, t.window)) >= t.minCount
  BY <1>2, <1>4
<1>6. enough \in SUBSET (1 .. n)
  BY <1>2
<1> HIDE DEF enough
<1>7. CASE enough = {}
  <2>1. FailureGroup(o, t) = NoSignal
    BY <1>1, <1>7
  <2>2. NothingRepeated(o, t)
    BY <1>2, <1>5, <1>7 DEF NothingRepeated
  <2> QED BY <2>1, <2>2
<1>8. CASE enough # {}
  <2>1. first \in enough /\ \A j \in enough : first <= j
    BY <1>2, <1>6, <1>8, FirstExists
  <2> HIDE DEF first
  <2>2. first \in 1 .. n /\ OpensFirst(o, first, t.window, t.minCount)
    BY <1>2, <1>5, <1>6, <2>1 DEF OpensFirst
  <2>3. IsWindow(W, o, first, t.window)
    BY <1>3, <2>2
  <2> HIDE DEF W
  <2>4. /\ made.key = HttpFailureKey(W[1]) /\ made.count = Len(W)
        /\ made.kind = "goravel_route_failure" /\ made.excerpts = W
        /\ made.start = W[1].at /\ made.end = W[Len(W)].at
    OBVIOUS
  <2>5. FailureGroup(o, t) = made
    BY <1>1, <1>8
  <2> HIDE DEF made
  <2>6. MadeOf(made, o, t, first, W)
    BY <2>2, <2>3, <2>4 DEF MadeOf
  <2> QED BY <2>5, <2>6
<1> QED BY <1>7, <1>8

\* The window of a signal has an entry, and the first is the one it opens with.
LEMMA FirstOfWindow ==
    ASSUME NEW o, NEW n, Timeline(o, n), NEW w \in Int, NEW least \in Int, w >= 0 \/ least > 0,
           NEW i, NEW W, IsWindow(W, o, i, w), OpensFirst(o, i, w, least)
    PROVE  /\ i \in 1 .. n /\ Len(W) \in 1 .. n /\ Len(W) >= least /\ DOMAIN W = 1 .. Len(W)
           /\ W \in Seq(Elements(W, Len(W)))
           /\ W[1] = o[i] /\ o[i].at <= W[Len(W)].at
           /\ o[i].at # 0 => W[Len(W)].at - o[i].at <= w /\ w >= 0
           /\ \A k \in 1 .. Len(W) : \E j \in 1 .. n : W[k] = o[j]
           /\ \A k \in Inside(o, i, w) : o[k].at <= W[Len(W)].at
<1> DEFINE inside == Inside(o, i, w)
           m == Cardinality(inside)
<1>1. /\ m \in Nat /\ IsFiniteSet(inside) /\ Len(W) = m /\ m >= least /\ i \in 1 .. n
      /\ m <= n
  BY InsideIsFinite DEF IsWindow, OpensFirst, Timeline
<1>2. PICK g : WindowAt(W, o, i, w, g)
  BY DEF IsWindow
<1>3. /\ g \in Bijection(1 .. m, inside)
      /\ W = [p \in 1 .. m |-> o[g[p]]]
      /\ \A p, q \in 1 .. m : p < q => g[p] < g[q]
  BY <1>2 DEF WindowAt
<1>4. /\ \A p \in 1 .. m : g[p] \in inside
      /\ \A k \in inside : \E p \in 1 .. m : g[p] = k
  BY <1>3 DEF Bijection, Injection, Surjection
<1>5. /\ \A p \in 1 .. n : o[p].at \in Nat
      /\ \A p, r \in 1 .. n : p < r => o[p].at <= o[r].at
      /\ DOMAIN o = 1 .. n /\ n \in Nat
  BY DEF Timeline, InOrder
<1>6. \A k \in inside : /\ k \in 1 .. n /\ k >= i
                        /\ o[i].at = 0 \/ o[k].at - o[i].at <= w
  BY <1>5 DEF Inside
<1>7. \A k \in inside : o[i].at <= o[k].at
  <2> TAKE k \in inside
  <2> QED BY <1>1, <1>5, <1>6
<1>8. o[i].at = 0 \/ w >= 0 => i \in inside
  BY <1>1, <1>5 DEF Inside
<1>9. inside # {}
  <2>1. CASE w >= 0
    BY <1>8, <2>1
  <2>2. CASE least > 0
    <3>1. m # 0
      BY <1>1, <2>2
    <3> QED BY <3>1, FS_EmptySet
  <2> QED BY <2>1, <2>2
<1>10. o[i].at # 0 => w >= 0
  <2> SUFFICES ASSUME o[i].at # 0 PROVE w >= 0
    OBVIOUS
  <2>1. PICK k \in inside : TRUE
    BY <1>9
  <2>2. k \in 1 .. n /\ o[k].at - o[i].at <= w /\ o[i].at <= o[k].at
    BY <1>6, <1>7
  <2> QED BY <1>1, <1>5, <2>2
<1>11. i \in inside
  BY <1>8, <1>10
<1>12. m >= 1
  <2>1. m # 0
    BY <1>1, <1>9, FS_EmptySet
  <2> QED BY <1>1, <2>1
<1> HIDE DEF m, inside
<1>13. g[1] = i
  <2>1. PICK p \in 1 .. m : g[p] = i
    BY <1>4, <1>11
  <2>2. g[1] \in inside /\ g[1] >= i /\ g[1] \in Nat
    BY <1>1, <1>4, <1>6, <1>12
  <2>3. p = 1 \/ g[1] < g[p]
    BY <1>1, <1>3, <1>12
  <2> QED BY <1>1, <2>1, <2>2, <2>3
<1>14. /\ W[1] = o[i] /\ W[m] = o[g[m]] /\ DOMAIN W = 1 .. m
       /\ \A k \in 1 .. m : W[k] = o[g[k]]
  BY <1>1, <1>3, <1>12, <1>13
<1>15. g[m] \in inside
  BY <1>1, <1>4, <1>12
<1>16. \A k \in inside : o[k].at <= W[m].at
  <2> TAKE k \in inside
  <2>1. PICK p \in 1 .. m : g[p] = k
    BY <1>4
  <2>2. p = m \/ g[p] < g[m]
    BY <1>1, <1>3, <1>12
  <2> QED BY <1>5, <1>6, <1>14, <1>15, <2>1, <2>2
<1>17. \A k \in 1 .. m : \E j \in 1 .. n : W[k] = o[j]
  BY <1>4, <1>6, <1>14
<1>18. W = [k \in 1 .. m |-> W[k]]
  BY <1>3
<1>19. W \in Seq(Elements(W, m))
  BY <1>1, <1>18, LengthIs DEF Elements
<1>20. o[i].at # 0 => W[m].at - o[i].at <= w
  BY <1>6, <1>14, <1>15
<1>21. o[i].at <= W[m].at
  BY <1>7, <1>14, <1>15
<1>22. \A k \in Inside(o, i, w) : o[k].at <= W[m].at
  BY <1>16 DEF inside
<1> QED BY <1>1, <1>10, <1>12, <1>14, <1>17, <1>19, <1>20, <1>21, <1>22

\* The entries of the log are numbered and have an instant, and the threshold is in range.
Readable ==
    /\ \E m \in Nat : DOMAIN Entries = 1 .. m
    /\ \A k \in DOMAIN Entries : Entries[k].at \in Nat
    /\ Threshold.minCount \in Int /\ Threshold.window \in Int \ {0}
    /\ Threshold.window >= 0 \/ Threshold.minCount > 0

\* The signal is that of some kind of failures.
SignalOfKind(key, o, i, W) ==
    Arranged(o, Entries, Failures(key)) /\ MadeOf(signal, o, Threshold, i, W)

\* o has the n failures of a kind, and as many of them in each interval.
Charted(o, key, n) ==
    /\ Timeline(o, n)
    /\ \A k \in 1 .. n : \E j \in Failures(key) : o[k] = Entries[j]
    /\ \A j \in Failures(key) : \E k \in 1 .. n : o[k] = Entries[j]
    /\ \A from, to : Cardinality(Span(o, from, to)) = Cardinality(Within(key, from, to))

LEMMA KindIs ==
    ASSUME Readable, NEW key, NEW o, Arranged(o, Entries, Failures(key))
    PROVE  Charted(o, key, Cardinality(Failures(key)))
<1> DEFINE entries == Entries
           places == Failures(key)
<1>1. \A k \in places : entries[k].at \in Nat
  BY DEF Readable, Failures
<1>2. Arranged(o, entries, places)
  OBVIOUS
<1> HIDE DEF entries, places
<1>3. /\ Timeline(o, Cardinality(places))
      /\ \A k \in 1 .. Cardinality(places) : \E j \in places : o[k] = entries[j]
      /\ \A j \in places : \E k \in 1 .. Cardinality(places) : o[k] = entries[j]
      /\ \A from, to :
            Cardinality(Span(o, from, to)) = Cardinality(Among(entries, places, from, to))
  BY <1>1, <1>2, ArrangedIs
<1>4. \A from, to : Within(key, from, to) = Among(entries, places, from, to)
  BY DEF Within, Among, places, entries
<1>5. \A from, to : Cardinality(Span(o, from, to)) = Cardinality(Within(key, from, to))
  BY <1>3, <1>4
<1> QED BY <1>3, <1>5 DEF Charted, places, entries

\* Such a signal is what SignalIsRepeated asks for.
LEMMA KindIsRepeated ==
    ASSUME Readable, NEW key, NEW o, NEW i, NEW W, SignalOfKind(key, o, i, W)
    PROVE  /\ signal.key = key
           /\ Repeated(key)
           /\ \A k \in DOMAIN signal.excerpts :
                 \E j \in Failures(key) : signal.excerpts[k] = Entries[j]
           /\ signal.kind = "http_failure" => signal.start < signal.end
           /\ Timed(key) => SignalIsOfItsWindow
           /\ signal.count <= Cardinality(Failures(key))
<1> DEFINE n == Cardinality(Failures(key))
           w == Threshold.window
           least == Threshold.minCount
           m == Len(W)
<1>1. /\ Arranged(o, Entries, Failures(key)) /\ MadeOf(signal, o, Threshold, i, W)
      /\ w \in Int /\ w # 0 /\ least \in Int /\ (w >= 0 \/ least > 0)
  BY DEF SignalOfKind, Readable
<1>2. /\ Timeline(o, n)
      /\ \A k \in 1 .. n : \E j \in Failures(key) : o[k] = Entries[j]
      /\ \A j \in Failures(key) : \E k \in 1 .. n : o[k] = Entries[j]
      /\ \A from, to : Cardinality(Span(o, from, to)) = Cardinality(Within(key, from, to))
  <2>1. Charted(o, key, n)
    BY <1>1, KindIs
  <2> QED BY <2>1 DEF Charted
<1>3. /\ IsWindow(W, o, i, w) /\ OpensFirst(o, i, w, least)
      /\ signal.key = HttpFailureKey(W[1]) /\ signal.count = m
  BY <1>1 DEF MadeOf
<1> HIDE DEF n, w, least
<1>4. /\ i \in 1 .. n /\ m \in 1 .. n /\ m >= least /\ DOMAIN W = 1 .. m
      /\ W \in Seq(Elements(W, m))
      /\ W[1] = o[i] /\ o[i].at <= W[m].at
      /\ o[i].at # 0 => W[m].at - o[i].at <= w /\ w >= 0
      /\ \A k \in 1 .. m : \E j \in 1 .. n : W[k] = o[j]
      /\ \A k \in Inside(o, i, w) : o[k].at <= W[m].at
  BY <1>1, <1>2, <1>3, FirstOfWindow
<1>5. /\ n \in Nat /\ DOMAIN o = 1 .. n /\ \A k \in 1 .. n : o[k].at \in Nat
      /\ o[i].at \in Nat /\ W[m].at \in Nat
  <2>1. /\ n \in Nat /\ DOMAIN o = 1 .. n /\ \A k \in 1 .. n : o[k].at \in Nat
    BY <1>2 DEF Timeline
  <2>2. m \in 1 .. m
    BY <1>4, <2>1
  <2>3. PICK j \in 1 .. n : W[m] = o[j]
    BY <1>4, <2>2
  <2> QED BY <1>4, <2>1, <2>3
<1>6. \A j \in Failures(key) : HttpFailureKey(Entries[j]) = key
  BY DEF Failures
<1>7. signal.key = key
  BY <1>2, <1>3, <1>4, <1>6
<1>8. \E x : IsTail(signal.excerpts, W, x)
  <2>1. CASE signal.excerpts = RawExcerpts(W)
    <3>1. ExcerptLimit \in Nat \ {0}
      BY SignalsAssumption DEF SignalsAssumption
    <3> DEFINE S == Elements(W, m)
    <3>2. W \in Seq(S) /\ Len(W) >= 1
      BY <1>4
    <3> HIDE DEF S
    <3>3. \E x : IsTail(LastOf(W, ExcerptLimit), W, x)
      BY <3>1, <3>2, LastOfIsTail
    <3> QED BY <2>1, <3>3 DEF RawExcerpts
  <2>2. CASE signal.excerpts = W
    <3>1. IsTail(W, W, m)
      BY <1>4 DEF IsTail
    <3> QED BY <2>2, <3>1
  <2> QED BY <1>1, <2>1, <2>2 DEF MadeOf
<1>9. PICK x : IsTail(signal.excerpts, W, x)
  BY <1>8
<1>10. /\ x \in 1 .. m /\ DOMAIN signal.excerpts = 1 .. x /\ Len(signal.excerpts) = x
       /\ \A k \in 1 .. x : signal.excerpts[k] = W[m - x + k]
  BY <1>9 DEF IsTail
<1>11. \A k \in DOMAIN signal.excerpts : \E j \in Failures(key) : signal.excerpts[k] = Entries[j]
  <2> TAKE k \in DOMAIN signal.excerpts
  <2>1. m - x + k \in 1 .. m /\ signal.excerpts[k] = W[m - x + k]
    <3>1. k \in 1 .. x /\ x \in 1 .. m /\ m \in Nat
      BY <1>4, <1>5, <1>10
    <3>2. m - x + k \in 1 .. m
      BY <3>1
    <3> QED BY <1>10, <3>1, <3>2
  <2>2. PICK p \in 1 .. n : signal.excerpts[k] = o[p]
    BY <1>4, <2>1
  <2> QED BY <1>2, <2>2
<1>12. /\ signal.kind = "http_failure" => signal.start < signal.end
       /\ o[i].at # 0 => /\ signal.start = o[i].at
                         /\ signal.end - signal.start <= w
                         /\ W[m].at <= signal.end
  <2>1. CASE /\ signal.start = SignalWindow(W[1].at, W[m].at).start
             /\ signal.end = SignalWindow(W[1].at, W[m].at).end
    <3>1. Now \in Nat
      BY SignalsAssumption DEF SignalsAssumption
    <3> DEFINE from == OrElse(o[i].at, 0, Now)
    <3>2. from \in Nat /\ (o[i].at # 0 => from = o[i].at)
      BY <1>5, <3>1 DEF OrElse
    <3>3. /\ signal.start = from
          /\ signal.end = IF W[m].at <= from THEN from + 1 ELSE W[m].at
      BY <1>4, <2>1 DEF SignalWindow
    <3> HIDE DEF from
    <3>4. signal.start < signal.end
      BY <1>5, <3>2, <3>3
    <3>5. ASSUME o[i].at # 0
          PROVE  signal.end - signal.start <= w /\ W[m].at <= signal.end
      <4>1. w >= 1 /\ W[m].at - o[i].at <= w /\ from = o[i].at
        BY <1>1, <1>4, <3>2, <3>5
      <4> QED BY <1>1, <1>4, <1>5, <3>2, <3>3, <4>1
    <3> QED BY <3>2, <3>3, <3>4, <3>5
  <2>2. CASE /\ signal.kind = "goravel_route_failure"
             /\ signal.start = W[1].at /\ signal.end = W[m].at
    BY <1>4, <1>5, <2>2
  <2> QED BY <1>1, <2>1, <2>2 DEF MadeOf
<1>13. Cardinality(Inside(o, i, w)) = m
  BY <1>3 DEF IsWindow
<1>14. ASSUME Timed(key)
       PROVE  /\ o[i].at # 0
              /\ Inside(o, i, w) = Span(o, o[i].at, o[i].at + w)
              /\ m = Cardinality(Since(key, o[i].at))
  <2>1. o[i].at # 0
    BY <1>2, <1>4, <1>14 DEF Timed
  <2>2. Inside(o, i, w) = Span(o, o[i].at, o[i].at + w)
    BY <1>1, <1>2, <1>3, <2>1, FirstIsWhole
  <2> QED BY <1>2, <1>13, <2>1, <2>2 DEF Since, w
<1>15. Repeated(key)
  <2>1. PICK j \in Failures(key) : o[i] = Entries[j]
    BY <1>2, <1>4
  <2>2. CASE Timed(key)
    <3>1. Cardinality(Since(key, Entries[j].at)) >= least
      BY <1>4, <1>14, <2>1, <2>2
    <3> QED BY <2>1, <2>2, <3>1 DEF Repeated, least
  <2>3. CASE ~ Timed(key)
    <3>1. n >= least
      BY <1>1, <1>4, <1>5
    <3> QED BY <2>3, <3>1 DEF Repeated, least, n
  <2> QED BY <2>2, <2>3
<1>16. ASSUME Timed(key) PROVE SignalIsOfItsWindow
  <2>1. /\ signal.start = o[i].at /\ signal.end - signal.start <= w
        /\ signal.count = Cardinality(Since(signal.key, signal.start))
    BY <1>3, <1>7, <1>12, <1>14, <1>16
  <2>2. ASSUME NEW k \in Since(key, o[i].at) PROVE Entries[k].at <= signal.end
    <3>1. k \in Failures(key) /\ Entries[k].at \in o[i].at .. o[i].at + w
      BY <2>2 DEF Since, Within, w
    <3>2. PICK p \in 1 .. n : o[p] = Entries[k]
      BY <1>2, <3>1
    <3>3. p \in Inside(o, i, w)
      BY <1>5, <1>14, <1>16, <3>1, <3>2 DEF Span
    <3>4. o[p].at <= W[m].at /\ W[m].at <= signal.end
      BY <1>4, <1>12, <1>14, <1>16, <3>3
    <3>5. o[p].at \in Nat /\ signal.end \in Int
      <4>1. signal.end = W[m].at \/ signal.end = o[i].at + 1
        BY <1>1, <1>4, <1>14, <1>16 DEF MadeOf, SignalWindow, OrElse
      <4> QED BY <1>5, <4>1
    <3> QED BY <1>5, <3>2, <3>4, <3>5
  <2>3. ASSUME NEW k \in DOMAIN signal.excerpts
        PROVE  Cardinality(Within(key, signal.excerpts[k].at + 1, o[i].at + w))
                  < Len(signal.excerpts)
    <3>1. Cardinality(Span(o, signal.excerpts[k].at + 1, o[i].at + w)) < x
      BY <1>1, <1>2, <1>3, <1>4, <1>9, <1>10, <1>14, <1>16, LastAreQuoted
    <3> QED BY <1>2, <1>10, <3>1
  <2> QED BY <1>7, <2>1, <2>2, <2>3 DEF SignalIsOfItsWindow, w
<1>17. signal.count <= n
  BY <1>3, <1>4
<1> QED BY <1>7, <1>11, <1>12, <1>15, <1>16, <1>17 DEF n

\* A kind of failures without a signal is not repeated.
LEMMA KindIsNotRepeated ==
    ASSUME Readable, NEW key, NEW o, Arranged(o, Entries, Failures(key)),
           NothingRepeated(o, Threshold)
    PROVE  ~ Repeated(key)
<1> DEFINE n == Cardinality(Failures(key))
           w == Threshold.window
           least == Threshold.minCount
<1>1. /\ Timeline(o, n)
      /\ \A k \in 1 .. n : \E j \in Failures(key) : o[k] = Entries[j]
      /\ \A j \in Failures(key) : \E k \in 1 .. n : o[k] = Entries[j]
      /\ \A from, to : Cardinality(Span(o, from, to)) = Cardinality(Within(key, from, to))
  <2>1. Charted(o, key, n)
    BY KindIs
  <2> HIDE DEF n
  <2> QED BY <2>1 DEF Charted
<1>2. w \in Int /\ least \in Int
  BY DEF Readable
<1> HIDE DEF n
<1>3. \A j \in 1 .. n : ~ (Cardinality(Inside(o, j, w)) >= least)
  BY <1>1 DEF NothingRepeated, Timeline
<1> HIDE DEF w, least
<1>4. CASE Timed(key)
  <2>1. ASSUME NEW k \in Failures(key) PROVE ~ (Cardinality(Since(key, Entries[k].at)) >= least)
    <3>1. PICK i \in 1 .. n : o[i] = Entries[k]
      BY <1>1
    <3>2. ~ (Cardinality(Span(o, o[i].at, o[i].at + w)) >= least)
      BY <1>1, <1>2, <1>3, NoneIsRepeated
    <3> QED BY <1>1, <3>1, <3>2 DEF Since, w
  <2> QED BY <1>4, <2>1 DEF Repeated, least
<1>5. CASE ~ Timed(key)
  <2>1. PICK j \in Failures(key) : Entries[j].at = 0
    BY <1>5 DEF Timed
  <2>2. PICK k \in 1 .. n : o[k].at = 0
    BY <1>1, <2>1
  <2>3. 1 \in 1 .. n /\ Cardinality(Inside(o, 1, w)) = n
    BY <1>1, <2>2, UntimedIsWhole
  <2>4. ~ (n >= least)
    BY <1>3, <2>3
  <2> QED BY <1>5, <2>4 DEF Repeated, least, n
<1> QED BY <1>4, <1>5

-----------------------------------------------------------------------------
(* What a lane reads                                                       *)

\* A threshold has neither a zero count nor a zero window once its defaults are filled in,
\* and is then left alone.
LEMMA DefaultsAreFilled ==
    ASSUME NEW t, IsThreshold(t)
    PROVE  LET u == WithDefaults(t)
           IN /\ u.minCount \in Int /\ u.window \in Int \ {0}
              /\ u.window >= 0 \/ u.minCount > 0
              /\ WithDefaults(u) = u
<1> DEFINE u == WithDefaults(t)
           class == IF t.class = 0 /\ t.code > 0 THEN Class(t.code) ELSE t.class
           fields == {"service", "method", "route", "code", "class", "minCount", "window"}
<1>1. DefaultWindow \in Nat \ {0}
  BY SignalsAssumption DEF SignalsAssumption
<1>2. /\ DOMAIN t = fields
      /\ t.code \in Int /\ t.class \in Int /\ t.minCount \in Int /\ t.window \in Int
      /\ t.minCount >= 0 \/ t.window >= 0
  BY DEF IsThreshold
<1>3. u = [t EXCEPT !.minCount = OrElse(t.minCount, 0, 3),
                    !.window = OrElse(t.window, 0, DefaultWindow), !.class = class]
  BY DEF WithDefaults
<1> HIDE DEF u, class
<1>4. /\ u.minCount = OrElse(t.minCount, 0, 3) /\ u.window = OrElse(t.window, 0, DefaultWindow)
      /\ u.class = class /\ u.code = t.code
      /\ u = [f \in fields |-> u[f]]
  BY <1>2, <1>3
<1>5. /\ u.minCount \in Int /\ u.window \in Int \ {0} /\ u.minCount # 0
      /\ u.window >= 0 \/ u.minCount > 0
  BY <1>1, <1>2, <1>4 DEF OrElse
<1>6. (IF u.class = 0 /\ u.code > 0 THEN Class(u.code) ELSE u.class) = u.class
  BY <1>4 DEF class
<1>7. OrElse(u.minCount, 0, 3) = u.minCount /\ OrElse(u.window, 0, DefaultWindow) = u.window
  BY <1>5 DEF OrElse
<1>8. WithDefaults(u) = [u EXCEPT !.minCount = u.minCount, !.window = u.window,
                                  !.class = u.class]
  BY <1>6, <1>7 DEF WithDefaults
<1>9. WithDefaults(u) = u
  BY <1>4, <1>8
<1> QED BY <1>5, <1>9 DEF u

LEMMA ThresholdIs ==
    ASSUME NEW l \in HttpLanes \cup {"goravel"}, NEW t, IsThreshold(t)
    PROVE  \E raw : IsThreshold(raw) /\ ThresholdOf(l, t) = WithDefaults(raw)
<1>1. ASSUME NEW u, IsThreshold(u) PROVE IsThreshold(NormalizeOptions(u))
  BY <1>1 DEF IsThreshold, NormalizeOptions
<1>2. IsThreshold(NormalizeOptions(ReadinessThreshold(t)))
  <2>1. IsThreshold(ReadinessThreshold(t))
    BY DEF IsThreshold, ReadinessThreshold
  <2> QED BY <1>1, <2>1
<1>3. IsThreshold(RestartOptions(t))
  BY DEF IsThreshold, RestartOptions
<1>4. l \in {"config", "readiness_config", "restart", "goravel"}
  BY DEF HttpLanes
<1> QED BY <1>1, <1>2, <1>3, <1>4 DEF ThresholdOf

LEMMA LinesAreKept ==
    ASSUME NEW log \in Seq(LogLine), NEW places \in SUBSET DOMAIN log
    PROVE  \E m \in Nat :
              /\ DOMAIN Kept(log, places) = 1 .. m
              /\ \A k \in 1 .. m : \E j \in places : Kept(log, places)[k] = log[j]
<1>1. Len(log) \in Nat /\ DOMAIN log = 1 .. Len(log)
  OBVIOUS
<1>2. IsFiniteSet(1 .. Len(log)) /\ places \in SUBSET (1 .. Len(log))
  BY <1>1, IntervalIs
<1>3. IsFiniteSet(places) /\ places \in SUBSET Nat
  BY <1>1, <1>2, FS_Subset
<1>4. PICK f : KeptAt(log, places, f)
  BY <1>3, KeptIs
<1>5. Cardinality(places) \in Nat
  BY <1>3, FS_CardinalityType
<1>6. \A k \in 1 .. Cardinality(places) : f[k] \in places
  BY <1>4 DEF KeptAt, Bijection, Injection
<1>7. Kept(log, places) = [k \in 1 .. Cardinality(places) |-> log[f[k]]]
  BY <1>4 DEF KeptAt
<1> QED BY <1>5, <1>6, <1>7

\* What is read has instants, and in the Goravel adapter no zero ones.
LEMMA PairsAreRead ==
    ASSUME NEW log \in Seq(LogLine)
    PROVE  \E m \in Nat : /\ DOMAIN ParseKeyValueHTTPLogs(log) = 1 .. m
                          /\ \A k \in 1 .. m : ParseKeyValueHTTPLogs(log)[k].at \in Nat
<1> DEFINE Entry(line) == IF line.kind = "pairs" THEN PairsEntry(line)
                                                  ELSE ParseCommonAccessLog(line)
           places == {k \in DOMAIN log : log[k].kind \in {"pairs", "access"}}
           lines == Kept(log, places)
<1>1. ParseKeyValueHTTPLogs(log) = [k \in DOMAIN lines |-> Entry(lines[k])]
  BY DEF ParseKeyValueHTTPLogs
<1>2. places \in SUBSET DOMAIN log
  OBVIOUS
<1>3. \A j \in places : log[j].at \in Nat
  <2> SUFFICES ASSUME NEW j \in DOMAIN log PROVE log[j].at \in Nat
    OBVIOUS
  <2>1. log[j] \in LogLine
    OBVIOUS
  <2> QED BY <2>1 DEF LogLine
<1> HIDE DEF places
<1>4. PICK m \in Nat : /\ DOMAIN lines = 1 .. m
                       /\ \A k \in 1 .. m : \E j \in places : lines[k] = log[j]
  BY <1>2, LinesAreKept
<1> HIDE DEF lines
<1>5. \A k \in 1 .. m : lines[k].at \in Nat
  BY <1>3, <1>4
<1>6. \A k \in 1 .. m : Entry(lines[k]).at \in Nat
  BY <1>5 DEF PairsEntry, ParseCommonAccessLog
<1> HIDE DEF Entry
<1> QED BY <1>1, <1>4, <1>6

LEMMA AccessesAreRead ==
    ASSUME NEW log \in Seq(LogLine)
    PROVE  \E m \in Nat : /\ DOMAIN ParseAccessLog(log) = 1 .. m
                          /\ \A k \in 1 .. m : ParseAccessLog(log)[k].at \in Nat \ {0}
<1> DEFINE places == {k \in DOMAIN log : log[k].kind = "goravel" /\ log[k].at # 0}
           lines == Kept(log, places)
<1>1. ParseAccessLog(log) = [k \in DOMAIN lines |-> PairsEntry(lines[k])]
  BY DEF ParseAccessLog
<1>2. places \in SUBSET DOMAIN log
  OBVIOUS
<1>3. \A j \in places : log[j].at \in Nat \ {0}
  <2> SUFFICES ASSUME NEW j \in DOMAIN log PROVE log[j].at \in Nat
    OBVIOUS
  <2>1. log[j] \in LogLine
    OBVIOUS
  <2> QED BY <2>1 DEF LogLine
<1> HIDE DEF places
<1>4. PICK m \in Nat : /\ DOMAIN lines = 1 .. m
                       /\ \A k \in 1 .. m : \E j \in places : lines[k] = log[j]
  BY <1>2, LinesAreKept
<1> HIDE DEF lines
<1>5. \A k \in 1 .. m : lines[k].at \in Nat \ {0}
  BY <1>3, <1>4
<1>6. \A k \in 1 .. m : PairsEntry(lines[k]).at \in Nat \ {0}
  BY <1>5 DEF PairsEntry
<1> QED BY <1>1, <1>4, <1>6

-----------------------------------------------------------------------------
(* What a lane finds                                                       *)

\* Entries, the places of the failures among them, and a threshold.
IsReadable(entries, m, chosen, t) ==
    /\ m \in Nat /\ DOMAIN entries = 1 .. m /\ \A k \in 1 .. m : entries[k].at \in Nat
    /\ chosen \in SUBSET (1 .. m)
    /\ t.minCount \in Int /\ t.window \in Int \ {0} /\ (t.window >= 0 \/ t.minCount > 0)

IsSignal(sig, entries, chosen, t) ==
    \E key, o, i, W : Arranged(o, entries, Places(entries, chosen, key)) /\ MadeOf(sig, o, t, i, W)

IsSilent(entries, chosen, t, key) ==
    \E o : Arranged(o, entries, Places(entries, chosen, key)) /\ NothingRepeated(o, t)

\* Each is the signal of some kind of failures, and there is one if some kind has one.
AreSignals(signals, entries, chosen, t) ==
    /\ \A s \in signals : IsSignal(s, entries, chosen, t)
    /\ signals = {} => \A k \in chosen : IsSilent(entries, chosen, t, HttpFailureKey(entries[k]))

LEMMA KindIsArranged ==
    ASSUME NEW entries, NEW m, NEW chosen, NEW t, IsReadable(entries, m, chosen, t), NEW key,
           NEW o \in ByTime(Group(Kept(entries, chosen), key))
    PROVE  LET n == Cardinality(Places(entries, chosen, key))
           IN /\ Arranged(o, entries, Places(entries, chosen, key))
              /\ Timeline(o, n) /\ o \in Seq(Elements(o, n)) /\ n <= m
              /\ \A k \in 1 .. n : \E j \in chosen : o[k] = entries[j]
<1> DEFINE places == Places(entries, chosen, key)
<1>1. /\ m \in Nat /\ DOMAIN entries = 1 .. m /\ \A k \in 1 .. m : entries[k].at \in Nat
      /\ chosen \in SUBSET (1 .. m)
  BY DEF IsReadable
<1>2. Arranged(o, entries, places)
  BY <1>1, KindsAreSorted
<1>3. places \in SUBSET (1 .. m) /\ places \in SUBSET chosen
  BY <1>1 DEF Places
<1>4. \A k \in places : entries[k].at \in Nat
  BY <1>1, <1>3
<1>5. Cardinality(places) <= m
  BY <1>1, <1>3, IntervalIs, FS_Subset
<1> HIDE DEF places
<1>6. /\ Timeline(o, Cardinality(places)) /\ o \in Seq(Elements(o, Cardinality(places)))
      /\ \A k \in 1 .. Cardinality(places) : \E j \in places : o[k] = entries[j]
  BY <1>2, <1>4, ArrangedIs
<1> QED BY <1>2, <1>3, <1>5, <1>6 DEF places

\* The signals of all kinds of failures, in the engine and in the Goravel adapter.
LEMMA HTTPSignalsAre ==
    ASSUME NEW entries, NEW m, NEW t,
           IsReadable(entries, m, {k \in DOMAIN entries : MatchesThreshold(entries[k], t)}, t)
    PROVE  LET chosen == {k \in DOMAIN entries : MatchesThreshold(entries[k], t)}
               failures == Kept(entries, chosen)
               keys == {HttpFailureKey(failures[k]) : k \in DOMAIN failures}
               signals == UNION {{SignalOf(o, t) : o \in ByTime(Group(failures, key))} :
                                    key \in keys}
           IN AreSignals(signals \ {NoSignal}, entries, chosen, t)
<1> DEFINE chosen == {k \in DOMAIN entries : MatchesThreshold(entries[k], t)}
           failures == Kept(entries, chosen)
           keys == {HttpFailureKey(failures[k]) : k \in DOMAIN failures}
           signals == UNION {{SignalOf(o, t) : o \in ByTime(Group(failures, key))} : key \in keys}
<1>1. IsReadable(entries, m, chosen, t)
  OBVIOUS
<1> HIDE DEF chosen
<1>2. \A key : /\ ByTime(Group(failures, key)) # {}
               /\ keys = {HttpFailureKey(entries[k]) : k \in chosen}
  BY <1>1, KindsAreSorted DEF IsReadable
<1>3. ASSUME NEW key, NEW o \in ByTime(Group(failures, key))
      PROVE  /\ Arranged(o, entries, Places(entries, chosen, key))
             /\ \/ SignalOf(o, t) = NoSignal /\ NothingRepeated(o, t)
                \/ \E i, W : MadeOf(SignalOf(o, t), o, t, i, W)
  <2> DEFINE n == Cardinality(Places(entries, chosen, key))
             S == Elements(o, n)
  <2>1. Arranged(o, entries, Places(entries, chosen, key)) /\ Timeline(o, n) /\ o \in Seq(S)
    BY <1>1, <1>3, KindIsArranged
  <2> HIDE DEF n, S
  <2> QED BY <2>1, SignalOfIs
<1> HIDE DEF failures, keys
<1>4. ASSUME NEW s \in signals \ {NoSignal} PROVE IsSignal(s, entries, chosen, t)
  <2>1. PICK key \in keys : \E o \in ByTime(Group(failures, key)) : s = SignalOf(o, t)
    OBVIOUS
  <2>2. PICK o \in ByTime(Group(failures, key)) : s = SignalOf(o, t)
    BY <2>1
  <2> QED BY <1>3, <1>4, <2>2 DEF IsSignal
<1>5. ASSUME signals \ {NoSignal} = {}, NEW k \in chosen
      PROVE  IsSilent(entries, chosen, t, HttpFailureKey(entries[k]))
  <2> DEFINE key == HttpFailureKey(entries[k])
  <2>1. key \in keys
    BY <1>2
  <2> HIDE DEF key
  <2>2. PICK o \in ByTime(Group(failures, key)) : TRUE
    BY <1>2
  <2>3. SignalOf(o, t) = NoSignal
    BY <1>5, <2>1
  <2>4. ~ \E i, W : MadeOf(NoSignal, o, t, i, W)
    BY DEF MadeOf, NoSignal
  <2>5. Arranged(o, entries, Places(entries, chosen, key)) /\ NothingRepeated(o, t)
    BY <1>3, <2>3, <2>4
  <2> QED BY <2>5 DEF IsSilent, key
<1> HIDE DEF signals
<1>6. AreSignals(signals \ {NoSignal}, entries, chosen, t)
  BY <1>4, <1>5 DEF AreSignals
<1> QED BY <1>6 DEF signals, keys, failures, chosen

LEMMA GoravelSignalsAre ==
    ASSUME NEW entries, NEW m, NEW t, \A k \in DOMAIN entries : entries[k].at # 0,
           IsReadable(entries, m, {k \in DOMAIN entries : entries[k].status >= 400}, t)
    PROVE  LET chosen == {k \in DOMAIN entries : entries[k].status >= 400}
               failures == Kept(entries, chosen)
               keys == {HttpFailureKey(failures[k]) : k \in DOMAIN failures}
               groups == UNION {{FailureGroup(o, t) : o \in ByTime(Group(failures, key))} :
                                   key \in keys}
           IN AreSignals(groups \ {NoSignal}, entries, chosen, t)
<1> DEFINE chosen == {k \in DOMAIN entries : entries[k].status >= 400}
           failures == Kept(entries, chosen)
           keys == {HttpFailureKey(failures[k]) : k \in DOMAIN failures}
           groups == UNION {{FailureGroup(o, t) : o \in ByTime(Group(failures, key))} :
                               key \in keys}
<1>1. IsReadable(entries, m, chosen, t) /\ \A k \in chosen : entries[k].at # 0
  OBVIOUS
<1> HIDE DEF chosen
<1>2. \A key : /\ ByTime(Group(failures, key)) # {}
               /\ keys = {HttpFailureKey(entries[k]) : k \in chosen}
  BY <1>1, KindsAreSorted DEF IsReadable
<1>3. ASSUME NEW key, NEW o \in ByTime(Group(failures, key))
      PROVE  /\ Arranged(o, entries, Places(entries, chosen, key))
             /\ \/ FailureGroup(o, t) = NoSignal /\ NothingRepeated(o, t)
                \/ \E i, W : MadeOf(FailureGroup(o, t), o, t, i, W)
  <2> DEFINE n == Cardinality(Places(entries, chosen, key))
  <2>1. /\ Arranged(o, entries, Places(entries, chosen, key)) /\ Timeline(o, n)
        /\ \A k \in 1 .. n : \E j \in chosen : o[k] = entries[j]
    BY <1>1, <1>3, KindIsArranged
  <2> HIDE DEF n
  <2>2. \A k \in 1 .. n : o[k].at # 0
    BY <1>1, <2>1
  <2> QED BY <2>1, <2>2, FailureGroupIs
<1> HIDE DEF failures, keys
<1>4. ASSUME NEW s \in groups \ {NoSignal} PROVE IsSignal(s, entries, chosen, t)
  <2>1. PICK key \in keys : \E o \in ByTime(Group(failures, key)) : s = FailureGroup(o, t)
    OBVIOUS
  <2>2. PICK o \in ByTime(Group(failures, key)) : s = FailureGroup(o, t)
    BY <2>1
  <2> QED BY <1>3, <1>4, <2>2 DEF IsSignal
<1>5. ASSUME groups \ {NoSignal} = {}, NEW k \in chosen
      PROVE  IsSilent(entries, chosen, t, HttpFailureKey(entries[k]))
  <2> DEFINE key == HttpFailureKey(entries[k])
  <2>1. key \in keys
    BY <1>2
  <2> HIDE DEF key
  <2>2. PICK o \in ByTime(Group(failures, key)) : TRUE
    BY <1>2
  <2>3. FailureGroup(o, t) = NoSignal
    BY <1>5, <2>1
  <2>4. ~ \E i, W : MadeOf(NoSignal, o, t, i, W)
    BY DEF MadeOf, NoSignal
  <2>5. Arranged(o, entries, Places(entries, chosen, key)) /\ NothingRepeated(o, t)
    BY <1>3, <2>3, <2>4
  <2> QED BY <2>5 DEF IsSilent, key
<1> HIDE DEF groups
<1>6. AreSignals(groups \ {NoSignal}, entries, chosen, t)
  BY <1>4, <1>5 DEF AreSignals
<1> QED BY <1>6 DEF groups, keys, failures, chosen

\* Among any signals there is one that may be the first.
LEMMA StrongestExists ==
    ASSUME NEW S, S # {}, NEW m \in Nat, \A s \in S : s.count \in 0 .. m /\ s.start \in Nat
    PROVE  Strongest(S) # {}
<1> DEFINE Missing == {m - s.count : s \in S}
<1>1. Missing \in SUBSET Nat /\ Missing # {}
  OBVIOUS
<1>2. PICK least \in Missing : \A i \in Missing : least <= i
  BY <1>1, LeastExists
<1>3. PICK a \in S : least = m - a.count
  BY <1>2
<1>4. \A s \in S : s.count <= a.count
  <2> TAKE s \in S
  <2>1. m - s.count \in Missing /\ s.count \in 0 .. m /\ a.count \in 0 .. m
    OBVIOUS
  <2>2. least <= m - s.count
    BY <1>2, <2>1
  <2> QED BY <1>3, <2>1, <2>2
<1> HIDE DEF Missing
<1> DEFINE Full == {s \in S : s.count = a.count}
           Starts == {s.start : s \in Full}
<1>5. Starts \in SUBSET Nat /\ Starts # {}
  <2>1. a.start \in Starts
    OBVIOUS
  <2> QED BY <2>1
<1>6. PICK first \in Starts : \A i \in Starts : first <= i
  BY <1>5, LeastExists
<1>7. PICK b \in Full : first = b.start
  BY <1>6
<1>8. ASSUME NEW s \in S
      PROVE  b.count > s.count \/ (b.count = s.count /\ b.start <= s.start)
  <2>1. b \in S /\ b.count = a.count /\ b.count \in 0 .. m /\ s.count \in 0 .. m
    BY <1>7
  <2>2. s.count <= a.count
    BY <1>4
  <2>3. CASE s.count = a.count
    <3>1. s.start \in Starts
      BY <2>3
    <3> QED BY <1>6, <1>7, <2>1, <2>3, <3>1
  <2>4. CASE s.count # a.count
    BY <2>1, <2>2, <2>4
  <2> QED BY <2>3, <2>4
<1>9. b \in S
  BY <1>7
<1> QED BY <1>8, <1>9 DEF Strongest

LEMMA SignalIsCounted ==
    ASSUME NEW entries, NEW m, NEW chosen, NEW t, IsReadable(entries, m, chosen, t), NEW s,
           IsSignal(s, entries, chosen, t)
    PROVE  s.count \in 0 .. m /\ s.start \in Nat
<1>1. /\ m \in Nat /\ DOMAIN entries = 1 .. m /\ \A k \in 1 .. m : entries[k].at \in Nat
      /\ chosen \in SUBSET (1 .. m)
      /\ t.minCount \in Int /\ t.window \in Int /\ (t.window >= 0 \/ t.minCount > 0)
  BY DEF IsReadable
<1>2. PICK key, o, i, W : /\ Arranged(o, entries, Places(entries, chosen, key))
                          /\ MadeOf(s, o, t, i, W)
  BY DEF IsSignal
<1> DEFINE places == Places(entries, chosen, key)
           n == Cardinality(places)
           w == t.window
           least == t.minCount
<1>3. places \in SUBSET (1 .. m)
  BY <1>1 DEF Places
<1>4. n <= m
  BY <1>1, <1>3, IntervalIs, FS_Subset
<1> HIDE DEF places
<1>5. \A k \in places : entries[k].at \in Nat
  BY <1>1, <1>3
<1>6. Timeline(o, n)
  BY <1>2, <1>5, ArrangedIs DEF places
<1> HIDE DEF n
<1>7. IsWindow(W, o, i, w) /\ OpensFirst(o, i, w, least) /\ s.count = Len(W)
  BY <1>2 DEF MadeOf
<1>8. w \in Int /\ least \in Int /\ (w >= 0 \/ least > 0)
  BY <1>1
<1> HIDE DEF w, least
<1>9. i \in 1 .. n /\ Len(W) \in 1 .. n /\ W[1] = o[i]
  BY <1>6, <1>7, <1>8, FirstOfWindow
<1>10. n \in Nat /\ o[i].at \in Nat
  BY <1>6, <1>9 DEF Timeline
<1>11. s.count \in 0 .. m
  BY <1>1, <1>4, <1>7, <1>9, <1>10
<1>12. s.start = OrElse(W[1].at, 0, Now) \/ s.start = W[1].at
  BY <1>2 DEF MadeOf, SignalWindow
<1>13. Now \in Nat
  BY SignalsAssumption DEF SignalsAssumption
<1>14. s.start \in Nat
  BY <1>9, <1>10, <1>12, <1>13 DEF OrElse
<1> QED BY <1>11, <1>14

\* The first of the sorted signals is one of them, and there is one if there are any.
LEMMA StrongestAreSignals ==
    ASSUME NEW entries, NEW m, NEW chosen, NEW t, IsReadable(entries, m, chosen, t), NEW S,
           AreSignals(S, entries, chosen, t)
    PROVE  AreSignals(Strongest(S), entries, chosen, t)
<1>1. Strongest(S) \in SUBSET S
  BY DEF Strongest
<1>2. Strongest(S) = {} => S = {}
  <2>1. m \in Nat
    BY DEF IsReadable
  <2>2. \A s \in S : s.count \in 0 .. m /\ s.start \in Nat
    BY SignalIsCounted DEF AreSignals
  <2> QED BY <2>1, <2>2, StrongestExists
<1> QED BY <1>1, <1>2 DEF AreSignals

-----------------------------------------------------------------------------
(* A run started by a log                                                  *)

\* Where the failures of any kind are.
Chosen == {k \in DOMAIN Entries : Failed(Entries[k])}

IsTarget ==
    lane \in LogLanes => target \in [log : Logs(lane), threshold : Thresholds(lane)]

LEMMA ThresholdIsFilled ==
    ASSUME IsTarget, lane \in HttpLanes \cup {"goravel"}
    PROVE  /\ Threshold.minCount \in Int /\ Threshold.window \in Int \ {0}
           /\ Threshold.window >= 0 \/ Threshold.minCount > 0
           /\ WithDefaults(Threshold) = Threshold
<1>1. lane \in LogLanes
  BY DEF LogLanes
<1>2. target.threshold \in Thresholds(lane)
  BY <1>1 DEF IsTarget
<1>3. IsThreshold(target.threshold)
  BY <1>2, IncidentsAssumption DEF IncidentsAssumption
<1> DEFINE t == Threshold
<1>4. PICK raw : IsThreshold(raw) /\ t = WithDefaults(raw)
  BY <1>3, ThresholdIs DEF Threshold
<1> HIDE DEF t
<1>5. /\ t.minCount \in Int /\ t.window \in Int \ {0}
      /\ t.window >= 0 \/ t.minCount > 0
      /\ WithDefaults(t) = t
  BY <1>4, DefaultsAreFilled
<1> QED BY <1>5 DEF t

LEMMA LogIsReadable ==
    ASSUME IsTarget, lane \in HttpLanes \cup {"goravel"}
    PROVE  /\ \E m : IsReadable(Entries, m, Chosen, Threshold)
           /\ lane = "goravel" => \A k \in DOMAIN Entries : Entries[k].at # 0
<1>1. lane \in LogLanes
  BY DEF LogLanes
<1>2. target.log \in Logs(lane)
  BY <1>1 DEF IsTarget
<1> DEFINE log == target.log
           entries == Entries
<1>3. log \in Seq(LogLine)
  BY <1>2, IncidentsAssumption DEF IncidentsAssumption
<1>4. entries = IF lane = "goravel" THEN ParseAccessLog(log) ELSE ParseKeyValueHTTPLogs(log)
  BY DEF Entries
<1> HIDE DEF log, entries
<1>5. PICK m \in Nat :
         /\ DOMAIN entries = 1 .. m /\ \A k \in 1 .. m : entries[k].at \in Nat
         /\ lane = "goravel" => \A k \in 1 .. m : entries[k].at # 0
  <2>1. CASE lane = "goravel"
    BY <1>3, <1>4, <2>1, AccessesAreRead
  <2>2. CASE lane # "goravel"
    BY <1>3, <1>4, <2>2, PairsAreRead
  <2> QED BY <2>1, <2>2
<1>6. Chosen \in SUBSET (1 .. m)
  BY <1>5 DEF Chosen, entries
<1>7. IsReadable(entries, m, Chosen, Threshold)
  BY <1>5, <1>6, ThresholdIsFilled DEF IsReadable
<1> QED BY <1>5, <1>7 DEF entries

LEMMA FoundIs ==
    ASSUME IsTarget, lane \in HttpLanes \cup {"goravel"}
    PROVE  AreSignals(Found, Entries, Chosen, Threshold)
<1> DEFINE entries == Entries
           t == Threshold
<1>1. PICK m : IsReadable(entries, m, Chosen, t)
  BY LogIsReadable
<1>2. WithDefaults(t) = t
  BY ThresholdIsFilled
<1>3. CASE lane \in HttpLanes
  <2>1. lane # "goravel"
    BY <1>3 DEF HttpLanes
  <2>2. Found = RepeatedHTTPFailures(entries, t)
    BY <1>3, <2>1 DEF Found, SignalsOf, Entries, Threshold, HttpLanes
  <2>3. Chosen = {k \in DOMAIN entries : MatchesThreshold(entries[k], t)}
    BY <2>1 DEF Chosen, Failed
  <2> HIDE DEF entries, t
  <2> DEFINE chosen == {k \in DOMAIN entries : MatchesThreshold(entries[k], t)}
             failures == Kept(entries, chosen)
             keys == {HttpFailureKey(failures[k]) : k \in DOMAIN failures}
             signals == UNION {{SignalOf(o, t) : o \in ByTime(Group(failures, key))} :
                                  key \in keys}
  <2>4. AreSignals(signals \ {NoSignal}, entries, chosen, t)
    BY <1>1, <2>3, HTTPSignalsAre
  <2>5. RepeatedHTTPFailures(entries, t) = Strongest(signals \ {NoSignal})
    BY <1>2 DEF RepeatedHTTPFailures
  <2>6. chosen = Chosen
    BY <2>3
  <2> HIDE DEF signals, chosen
  <2>7. AreSignals(Strongest(signals \ {NoSignal}), entries, chosen, t)
    BY <1>1, <2>4, <2>6, StrongestAreSignals
  <2> QED BY <2>2, <2>5, <2>6, <2>7 DEF entries, t
<1>4. CASE lane = "goravel"
  <2>1. Found = RepeatedFailures(entries, t)
    BY <1>4 DEF Found, SignalsOf, Entries, Threshold, HttpLanes
  <2>2. Chosen = {k \in DOMAIN entries : entries[k].status >= 400}
    BY <1>4 DEF Chosen, Failed
  <2>3. \A k \in DOMAIN entries : entries[k].at # 0
    BY <1>4, LogIsReadable
  <2> HIDE DEF entries, t
  <2> DEFINE chosen == {k \in DOMAIN entries : entries[k].status >= 400}
             failures == Kept(entries, chosen)
             keys == {HttpFailureKey(failures[k]) : k \in DOMAIN failures}
             groups == UNION {{FailureGroup(o, t) : o \in ByTime(Group(failures, key))} :
                                 key \in keys}
  <2>4. AreSignals(groups \ {NoSignal}, entries, chosen, t)
    BY <1>1, <2>2, <2>3, GoravelSignalsAre
  <2>5. RepeatedFailures(entries, t) = Strongest(groups \ {NoSignal})
    BY <1>2 DEF RepeatedFailures
  <2>6. chosen = Chosen
    BY <2>2
  <2> HIDE DEF groups, chosen
  <2>7. AreSignals(Strongest(groups \ {NoSignal}), entries, chosen, t)
    BY <1>1, <2>4, <2>6, StrongestAreSignals
  <2> QED BY <2>1, <2>5, <2>6, <2>7 DEF entries, t
<1> QED BY <1>3, <1>4

\* The run acts on a signal that was found, and refuses to only if none was.
FromTheLog ==
    /\ IsTarget
    /\ lane \in LogLanes => /\ signal # NoSignal => signal \in Found
                            /\ signal = NoSignal /\ result # NoResult => Found = {}

\* A run is started by a signal exactly if some kind of failure is repeated often enough
\* within the window, and the signal counts and quotes the failures of its window: for any
\* log, in any order of its lines, and any threshold.
THEOREM SignalRepeated == Spec => []SignalIsRepeated
<1>1. Init => FromTheLog
  BY DEF Init, FromTheLog, IsTarget, LogLanes, HttpLanes, LocalLanes
<1>2. FromTheLog /\ [Next]_vars => FromTheLog'
  <2> SUFFICES ASSUME FromTheLog, [Next]_vars PROVE FromTheLog'
    OBVIOUS
  <2> USE DEF FromTheLog, IsTarget
  <2>1. CASE UNCHANGED vars
    BY <2>1 DEF vars, Found
  <2>2. CASE Detect
    BY <2>2 DEF Detect, Found
  <2>3. CASE FindNothing
    BY <2>3 DEF FindNothing, Found
  <2>4. CASE Examine
    BY <2>4 DEF Examine, LogLanes, HttpLanes
  <2>5. ASSUME NEW l, NEW answer, Ends(l, answer) PROVE FromTheLog'
    BY <2>5 DEF Ends, Found, LogLanes, LocalLanes, HttpLanes
  <2> QED BY <2>1, <2>2, <2>3, <2>4, <2>5 DEF Next
<1>3. FromTheLog => SignalIsRepeated
  <2> SUFFICES ASSUME FromTheLog, lane \in HttpLanes \cup {"goravel"}
               PROVE  /\ signal = NoSignal /\ result # NoResult =>
                            \A k \in DOMAIN Entries : ~ Repeated(HttpFailureKey(Entries[k]))
                      /\ signal # NoSignal =>
                            /\ Repeated(signal.key)
                            /\ \A k \in DOMAIN signal.excerpts :
                                  \E j \in Failures(signal.key) : signal.excerpts[k] = Entries[j]
                            /\ signal.kind = "http_failure" => signal.start < signal.end
                            /\ IF Timed(signal.key) THEN SignalIsOfItsWindow
                               ELSE signal.count <= Cardinality(Failures(signal.key))
    BY DEF SignalIsRepeated
  <2>1. /\ lane \in LogLanes /\ IsTarget
        /\ signal # NoSignal => signal \in Found
        /\ signal = NoSignal /\ result # NoResult => Found = {}
    BY DEF FromTheLog, LogLanes
  <2>2. Readable
    <3>1. PICK m : IsReadable(Entries, m, Chosen, Threshold)
      BY <2>1, LogIsReadable
    <3> QED BY <3>1 DEF IsReadable, Readable
  <2>3. AreSignals(Found, Entries, Chosen, Threshold)
    BY <2>1, FoundIs
  <2>4. \A key : Places(Entries, Chosen, key) = Failures(key)
    BY DEF Places, Chosen, Failures
  <2>5. ASSUME signal # NoSignal
        PROVE  /\ Repeated(signal.key)
               /\ \A k \in DOMAIN signal.excerpts :
                     \E j \in Failures(signal.key) : signal.excerpts[k] = Entries[j]
               /\ signal.kind = "http_failure" => signal.start < signal.end
               /\ IF Timed(signal.key) THEN SignalIsOfItsWindow
                  ELSE signal.count <= Cardinality(Failures(signal.key))
    <3>1. IsSignal(signal, Entries, Chosen, Threshold)
      BY <2>1, <2>3, <2>5 DEF AreSignals
    <3>2. PICK key, o, i, W : /\ Arranged(o, Entries, Places(Entries, Chosen, key))
                              /\ MadeOf(signal, o, Threshold, i, W)
      BY <3>1 DEF IsSignal
    <3>3. SignalOfKind(key, o, i, W)
      BY <2>4, <3>2 DEF SignalOfKind
    <3> QED BY <2>2, <3>3, KindIsRepeated
  <2>6. ASSUME signal = NoSignal, result # NoResult, NEW k \in DOMAIN Entries
        PROVE  ~ Repeated(HttpFailureKey(Entries[k]))
    <3> DEFINE key == HttpFailureKey(Entries[k])
    <3> HIDE DEF key
    <3>1. ASSUME Failures(key) = {} PROVE ~ Repeated(key)
      BY <3>1 DEF Repeated, Timed
    <3>2. ASSUME Failures(key) # {} PROVE ~ Repeated(key)
      <4>1. PICK j \in Chosen : HttpFailureKey(Entries[j]) = key
        BY <3>2 DEF Failures, Chosen
      <4>2. IsSilent(Entries, Chosen, Threshold, key)
        BY <2>1, <2>3, <2>6, <4>1 DEF AreSignals
      <4>3. PICK o : /\ Arranged(o, Entries, Places(Entries, Chosen, key))
                     /\ NothingRepeated(o, Threshold)
        BY <4>2 DEF IsSilent
      <4>4. Arranged(o, Entries, Failures(key))
        BY <2>4, <4>3
      <4> QED BY <2>2, <4>3, <4>4, KindIsNotRepeated
    <3> QED BY <3>1, <3>2 DEF key
  <2> QED BY <2>5, <2>6
<1> QED BY <1>1, <1>2, <1>3, PTL DEF Spec
=============================================================================
