----------------------- MODULE ConfigRemediationProofs -----------------------
(***************************************************************************)
(* Theorems about ConfigRemediation for any number of runs, plans and keys *)
(* and every way in which runs share plans, keys and seconds.              *)
(***************************************************************************)
EXTENDS ConfigRemediation, TLAPS

-----------------------------------------------------------------------------
(* The inductive invariant                                                 *)

\* What a run will report, by where it is.
OutcomeFits ==
    \A r \in Runs :
        /\ pc[r] \in {"read", "claim", "backup", "fill backup", "patch", "fill config",
                      "hook", "verify", "succeed"} => outcome[r] = "none"
        /\ pc[r] \in {"restore", "fill restore"} =>
               outcome[r] \in {"error", "failed_rolled_back"}
        /\ pc[r] = "fail" =>
               outcome[r] \in {"error", "failed_rolled_back", "failed_rollback_failed"}

\* The plan of a run that got past the running transition has left the status that a
\* transition to running starts from, and no status leads back to it.
ExecutedLeftApproved ==
    \A r \in Tracked : Executed(r) => plan[PlanOf[r]] # "approved"

PlansInv ==
    /\ TypeOK
    /\ OutcomeFits
    /\ ExecutedLeftApproved
    /\ OneRunPerPlan
    /\ RunningPlanHasRun
    /\ PlanMatchesReport

\* What a run that no other run has disturbed knows of the files, by where it is.
FilesFit(r) ==
    /\ pc[r] = "read" => ~HasRead(r)
    /\ pc[r] \notin {"read", "done"} => HasRead(r)
    /\ outcome[r] \in {"succeeded", "failed_rolled_back"} => HasRead(r)
    /\ r \notin disturbed /\ HasRead(r) =>
         /\ pc[r] \in {"claim", "backup", "fill backup", "patch"} => file = raw[r]
         /\ pc[r] \in {"patch", "fill config", "hook", "verify", "restore", "fill restore",
                       "succeed"} => backup[StampOf[r]] = raw[r]
         /\ pc[r] \in {"hook", "verify", "succeed"} => file = Patched(r)
         /\ pc[r] = "fill restore" => buf[r] = raw[r]
         /\ pc[r] \in {"fail", "done"} => file = raw[r] \/ backup[StampOf[r]] = raw[r]
         /\ pc[r] \in {"fail", "done"} /\ outcome[r] = "failed_rolled_back" => file = raw[r]
         /\ outcome[r] = "succeeded" => file = Patched(r)

FilesInv == \A r \in Runs : FilesFit(r)

IInv == PlansInv /\ FilesInv

-----------------------------------------------------------------------------
(* Types                                                                   *)

LEMMA PatchedIsDocument ==
    ASSUME TypeOK, NEW r \in Runs, HasRead(r) PROVE Patched(r) \in Documents
  BY ConfigAssumption DEF TypeOK, HasRead, Patched, Contents, Documents

LEMMA TypeInit == Init => TypeOK
<1>. SUFFICES ASSUME Init PROVE TypeOK
  OBVIOUS
<1>1. file \in Contents /\ live \in Contents
  BY DEF Init, Contents, Documents
<1>2. \A p \in Plans : plan[p] \in RemediationStatuses
  BY DEF Init, RemediationStatuses, RemediationSuccessors
<1>. QED
  BY <1>1, <1>2 DEF Init, TypeOK, Contents, Labels, Outcomes, RemediationStatuses,
                    RemediationSuccessors

\* A transition of a plan takes it along an edge of the graph.
LEMMA RecordKeepsPlans ==
    ASSUME TypeOK, NEW r \in Runs, NEW from, NEW to \in RemediationStatuses,
           Record(r, from, to)
    PROVE  /\ plan' \in [Plans -> RemediationStatuses]
           /\ r \in Tracked => /\ plan[PlanOf[r]] = from
                               /\ plan' = [plan EXCEPT ![PlanOf[r]] = to]
           /\ r \notin Tracked => plan' = plan
<1>1. PlanOf[r] \in Plans
  BY DEF Plans
<1>. QED
  BY <1>1 DEF TypeOK, Record

\* The statuses that Run gives to plans.
LEMMA Statuses ==
    {"approved", "running", "failed", "succeeded", "escalated"} \subseteq RemediationStatuses
  BY DEF RemediationStatuses, RemediationSuccessors

\* A step that writes a config or a backup, or neither, keeps the types of the files.
LEMMA WritesKeepTypes ==
    ASSUME TypeOK, NEW r \in Runs, NEW content \in Contents,
           WriteConfig(r, content) \/ WriteBackup(r, content) \/ NoWrite
    PROVE  /\ file' \in Contents /\ live' \in Contents
           /\ backup' \in [Stamps -> Contents \cup {NoFile}]
           /\ disturbed' \subseteq Runs
  BY DEF TypeOK, WriteConfig, WriteBackup, Disturb, NoWrite

LEMMA TypeStep == TypeOK /\ OutcomeFits /\ FilesInv /\ [Next]_vars => TypeOK'
<1>. SUFFICES ASSUME TypeOK, OutcomeFits, FilesInv, [Next]_vars PROVE TypeOK'
  OBVIOUS
<1>. USE DEF Goto, GotoWith
<1>1. ASSUME NEW r \in Runs, Decline(r) \/ Read(r) \/ ClaimRefused(r)
      PROVE  TypeOK'
  BY <1>1 DEF Decline, Read, ClaimRefused, TypeOK, NoWrite, Labels, Outcomes
<1>2. ASSUME NEW r \in Runs, Claim(r) \/ ClaimUnanswered(r) PROVE TypeOK'
  <2>1. plan' \in [Plans -> RemediationStatuses]
    BY <1>2, Statuses, RecordKeepsPlans DEF Claim, ClaimUnanswered
  <2>. QED
    BY <1>2, <2>1 DEF Claim, ClaimUnanswered, TypeOK, NoWrite, Labels, Outcomes
<1>3. ASSUME NEW r \in Runs,
             OpenBackup(r) \/ FillBackup(r) \/ OpenConfig(r) \/ FillConfig(r)
      PROVE  TypeOK'
  <2>1. raw[r] \in Contents /\ Torn \in Contents
    BY DEF TypeOK, Contents
  <2>2. At(r, "fill config") => Patched(r) \in Contents
    BY PatchedIsDocument DEF At, FilesInv, FilesFit, Contents
  <2>3. \E content \in Contents : WriteConfig(r, content) \/ WriteBackup(r, content)
    BY <1>3, <2>1, <2>2 DEF OpenBackup, FillBackup, OpenConfig, FillConfig
  <2>. QED
    BY <1>3, <2>3, WritesKeepTypes
    DEF OpenBackup, FillBackup, OpenConfig, FillConfig, TypeOK, Labels
<1>4. ASSUME NEW r \in Runs,
             WriteFails(r) \/ Hook(r) \/ HookFails(r) \/ VerifyPasses(r) \/ VerifyFails(r)
      PROVE  TypeOK'
  BY <1>4 DEF WriteFails, Hook, HookFails, VerifyPasses, VerifyFails, TypeOK, NoWrite,
              Labels, Outcomes
<1>5. ASSUME NEW r \in Runs, OpenRestore(r) \/ FillRestore(r) PROVE TypeOK'
  <2>1. buf[r] \in Contents /\ Torn \in Contents
    BY DEF TypeOK, Contents
  <2>2. backup[StampOf[r]] # NoFile => backup[StampOf[r]] \in Contents
    BY DEF TypeOK, Stamps
  <2>3. \E content \in Contents : WriteConfig(r, content)
    BY <1>5, <2>1 DEF OpenRestore, FillRestore
  <2>. QED
    BY <1>5, <2>1, <2>2, <2>3, WritesKeepTypes DEF OpenRestore, FillRestore, TypeOK, Labels
<1>6. ASSUME NEW r \in Runs, RestoreFails(r) PROVE TypeOK'
  BY <1>6 DEF RestoreFails, TypeOK, NoWrite, Labels, Outcomes, Contents
<1>7. ASSUME NEW r \in Runs, RecordFailed(r) \/ RecordFailedRefused(r) PROVE TypeOK'
  <2>1. plan' \in [Plans -> RemediationStatuses]
    BY <1>7, Statuses, RecordKeepsPlans DEF RecordFailed, RecordFailedRefused, TypeOK
  <2>. QED
    BY <1>7, <2>1 DEF RecordFailed, RecordFailedRefused, TypeOK, NoWrite, Labels
<1>8. ASSUME NEW r \in Runs, RecordSucceeded(r) \/ RecordSucceededRefused(r) PROVE TypeOK'
  <2>1. plan' \in [Plans -> RemediationStatuses]
    BY <1>8, Statuses, RecordKeepsPlans DEF RecordSucceeded, RecordSucceededRefused, TypeOK
  <2>. QED
    BY <1>8, <2>1
    DEF RecordSucceeded, RecordSucceededRefused, TypeOK, NoWrite, Labels, Outcomes
<1>9. ASSUME NEW r \in Runs, Crash(r) PROVE TypeOK'
  BY <1>9 DEF Crash, TypeOK, NoWrite
<1>10. ASSUME NEW p \in Plans, Escalate(p) PROVE TypeOK'
  BY <1>10, Statuses DEF Escalate, TypeOK, NoWrite
<1>11. CASE UNCHANGED vars
  BY <1>11 DEF vars, TypeOK
<1>. QED
  BY <1>1, <1>2, <1>3, <1>4, <1>5, <1>6, <1>7, <1>8, <1>9, <1>10, <1>11 DEF Next

-----------------------------------------------------------------------------
(* Outcomes and plans                                                      *)

LEMMA OutcomesStep == TypeOK /\ OutcomeFits /\ [Next]_vars => OutcomeFits'
<1>. SUFFICES ASSUME TypeOK, OutcomeFits, [Next]_vars PROVE OutcomeFits'
  OBVIOUS
<1>. USE DEF TypeOK, OutcomeFits, At, Goto, GotoWith
<1>1. ASSUME NEW r \in Runs,
             \/ Decline(r) \/ Read(r) \/ Claim(r) \/ ClaimRefused(r) \/ ClaimUnanswered(r)
             \/ OpenBackup(r) \/ FillBackup(r) \/ OpenConfig(r) \/ FillConfig(r)
      PROVE  OutcomeFits'
  BY <1>1 DEF Decline, Read, Claim, ClaimRefused, ClaimUnanswered, OpenBackup, FillBackup,
              OpenConfig, FillConfig
<1>2. ASSUME NEW r \in Runs,
             WriteFails(r) \/ Hook(r) \/ HookFails(r) \/ VerifyPasses(r) \/ VerifyFails(r)
      PROVE  OutcomeFits'
  BY <1>2 DEF WriteFails, Hook, HookFails, VerifyPasses, VerifyFails
<1>3. ASSUME NEW r \in Runs, OpenRestore(r) \/ FillRestore(r) \/ RestoreFails(r)
      PROVE  OutcomeFits'
  BY <1>3 DEF OpenRestore, FillRestore, RestoreFails
<1>4. ASSUME NEW r \in Runs,
             \/ RecordFailed(r) \/ RecordFailedRefused(r)
             \/ RecordSucceeded(r) \/ RecordSucceededRefused(r) \/ Crash(r)
      PROVE  OutcomeFits'
  BY <1>4 DEF RecordFailed, RecordFailedRefused, RecordSucceeded, RecordSucceededRefused,
              Crash
<1>5. ASSUME NEW p \in Plans, Escalate(p) PROVE OutcomeFits'
  BY <1>5 DEF Escalate
<1>6. CASE UNCHANGED vars
  BY <1>6 DEF vars
<1>. QED
  BY <1>1, <1>2, <1>3, <1>4, <1>5, <1>6 DEF Next

\* What the invariants of the plans see of a step of run r that leaves the plans alone:
\* it does not become one that executes its plan, and it does not return as one that has
\* recorded the end of the plan.
Quiet(r) ==
    /\ UNCHANGED plan
    /\ unrecorded \subseteq unrecorded'
    /\ \A s \in Runs \ {r} : pc'[s] = pc[s] /\ outcome'[s] = outcome[s]
    /\ r \in Tracked => (Executed(r)' => Executed(r))
    /\ pc'[r] \in {"read", "claim"} => pc[r] \in {"read", "claim"}
    /\ r \in Tracked /\ pc'[r] = "done" =>
          \/ ~Executed(r)' /\ outcome'[r] # "succeeded"
               /\ outcome'[r] \notin {"failed_rolled_back", "failed_rollback_failed"}
               /\ pc[r] \in {"read", "claim"}
          \/ r \in unrecorded' /\ outcome'[r] # "succeeded"

PlanFacts == ExecutedLeftApproved /\ OneRunPerPlan /\ RunningPlanHasRun /\ PlanMatchesReport

LEMMA QuietKeepsPlans ==
    ASSUME ConfigAssumption, NEW r \in Runs, PlanFacts, Quiet(r) PROVE PlanFacts'
<1>. USE DEF Quiet
<1>1. \A s \in Tracked : Executed(s)' => Executed(s)
  BY ConfigAssumption DEF Executed
<1>2. ExecutedLeftApproved'
  BY <1>1 DEF PlanFacts, ExecutedLeftApproved
<1>3. OneRunPerPlan'
  BY <1>1 DEF PlanFacts, OneRunPerPlan
<1>4. RunningPlanHasRun'
  <2>. SUFFICES ASSUME NEW p \in Plans, plan[p] = "running"
                PROVE  \E s \in Tracked : /\ PlanOf[s] = p
                                          /\ pc'[s] \notin {"read", "claim"}
                                          /\ pc'[s] = "done" => s \in unrecorded'
    BY DEF RunningPlanHasRun
  <2>1. PICK s \in Tracked : /\ PlanOf[s] = p
                             /\ pc[s] \notin {"read", "claim"}
                             /\ pc[s] = "done" => s \in unrecorded
    BY DEF PlanFacts, RunningPlanHasRun
  <2>. QED
    BY <2>1, ConfigAssumption
<1>5. PlanMatchesReport'
  BY ConfigAssumption DEF PlanFacts, PlanMatchesReport
<1>. QED
  BY <1>2, <1>3, <1>4, <1>5 DEF PlanFacts

\* Run r takes its plan from approved to running: no run has executed the plan yet,
\* and from now on run r has.
Claims(r) ==
    /\ r \in Tracked /\ plan[PlanOf[r]] = "approved"
    /\ plan' = [plan EXCEPT ![PlanOf[r]] = "running"]
    /\ unrecorded \subseteq unrecorded'
    /\ \A s \in Runs \ {r} : pc'[s] = pc[s] /\ outcome'[s] = outcome[s]
    /\ pc'[r] \notin {"read", "claim"}
    /\ pc'[r] = "done" => r \in unrecorded' /\ outcome'[r] = "refused"

LEMMA ClaimsKeepPlans ==
    ASSUME ConfigAssumption, TypeOK, NEW r \in Runs, PlanFacts, Claims(r) PROVE PlanFacts'
<1>. USE DEF Claims
<1>1. \A p \in Plans : plan'[p] = IF p = PlanOf[r] THEN "running" ELSE plan[p]
  BY DEF TypeOK, Plans
<1>2. \A s \in Tracked : s \in Runs /\ PlanOf[s] \in Plans
  BY ConfigAssumption DEF Plans
<1>3. \A s \in Tracked \ {r} : /\ Executed(s)' => Executed(s)
                               /\ PlanOf[s] = PlanOf[r] => ~Executed(s)
  BY <1>2 DEF Executed, PlanFacts, ExecutedLeftApproved
<1>4. ExecutedLeftApproved'
  <2>. SUFFICES ASSUME NEW s \in Tracked, Executed(s)'
                PROVE  plan'[PlanOf[s]] # "approved"
    BY DEF ExecutedLeftApproved
  <2>1. CASE s = r
    BY <1>1, <1>2, <2>1
  <2>2. CASE s # r
    BY <1>1, <1>2, <1>3, <2>2 DEF PlanFacts, ExecutedLeftApproved
  <2>. QED
    BY <2>1, <2>2
<1>5. OneRunPerPlan'
  <2>. SUFFICES ASSUME NEW s \in Tracked, NEW t \in Tracked, PlanOf[s] = PlanOf[t],
                       Executed(s)', Executed(t)'
                PROVE  s = t
    BY DEF OneRunPerPlan
  <2>. QED
    BY <1>3 DEF PlanFacts, OneRunPerPlan
<1>6. RunningPlanHasRun'
  <2>. SUFFICES ASSUME NEW p \in Plans, plan'[p] = "running"
                PROVE  \E s \in Tracked : /\ PlanOf[s] = p
                                          /\ pc'[s] \notin {"read", "claim"}
                                          /\ pc'[s] = "done" => s \in unrecorded'
    BY DEF RunningPlanHasRun
  <2>1. CASE p = PlanOf[r]
    BY <2>1
  <2>2. CASE p # PlanOf[r]
    BY <1>1, <1>2, <2>2 DEF PlanFacts, RunningPlanHasRun
  <2>. QED
    BY <2>1, <2>2
<1>7. PlanMatchesReport'
  BY <1>1, <1>2 DEF PlanFacts, PlanMatchesReport
<1>. QED
  BY <1>4, <1>5, <1>6, <1>7 DEF PlanFacts

\* The plan of run r, or one that a caller escalates, leaves running or failed.  If a
\* run returns in the step, what it reports is what its plan has become.
Ends(p, to, r) ==
    /\ plan[p] = "running" \/ (plan[p] = "failed" /\ to = "escalated")
    /\ to \in {"failed", "succeeded", "escalated"}
    /\ plan' = [plan EXCEPT ![p] = to]
    /\ unrecorded \subseteq unrecorded'
    /\ \A s \in Runs \ {r} : pc'[s] = pc[s] /\ outcome'[s] = outcome[s]
    /\ \/ pc'[r] = pc[r] /\ outcome'[r] = outcome[r]
       \/ /\ PlanOf[r] = p /\ Executed(r) /\ pc'[r] = "done"
          /\ outcome'[r] = "succeeded" => to = "succeeded"
          /\ outcome'[r] \in {"failed_rolled_back", "failed_rollback_failed"} =>
                to = "failed"

LEMMA EndsKeepPlans ==
    ASSUME ConfigAssumption, TypeOK, NEW p \in Plans, NEW to, NEW r \in Runs, PlanFacts,
           Ends(p, to, r)
    PROVE  PlanFacts'
<1>. USE DEF Ends
<1>1. \A q \in Plans : plan'[q] = IF q = p THEN to ELSE plan[q]
  BY DEF TypeOK
<1>2. \A s \in Tracked : s \in Runs /\ PlanOf[s] \in Plans
  BY ConfigAssumption DEF Plans
<1>3. \A s \in Tracked : Executed(s)' => Executed(s)
  BY <1>2 DEF Executed
<1>4. ExecutedLeftApproved'
  BY <1>1, <1>2, <1>3 DEF PlanFacts, ExecutedLeftApproved
<1>5. OneRunPerPlan'
  BY <1>3 DEF PlanFacts, OneRunPerPlan
<1>6. RunningPlanHasRun'
  <2>. SUFFICES ASSUME NEW q \in Plans, plan'[q] = "running"
                PROVE  \E s \in Tracked : /\ PlanOf[s] = q
                                          /\ pc'[s] \notin {"read", "claim"}
                                          /\ pc'[s] = "done" => s \in unrecorded'
    BY DEF RunningPlanHasRun
  <2>1. q # p /\ plan[q] = "running"
    BY <1>1
  <2>2. PICK s \in Tracked : /\ PlanOf[s] = q
                             /\ pc[s] \notin {"read", "claim"}
                             /\ pc[s] = "done" => s \in unrecorded
    BY <2>1 DEF PlanFacts, RunningPlanHasRun
  <2>3. pc'[s] = pc[s]
    BY <1>2, <2>1, <2>2
  <2>. QED
    BY <2>2, <2>3
<1>7. PlanMatchesReport'
  <2>. SUFFICES ASSUME NEW s \in Tracked, pc'[s] = "done"
                PROVE  /\ outcome'[s] = "succeeded" => plan'[PlanOf[s]] = "succeeded"
                       /\ /\ outcome'[s] \in {"failed_rolled_back", "failed_rollback_failed"}
                          /\ s \notin unrecorded'
                          => plan'[PlanOf[s]] \in {"failed", "escalated"}
    BY DEF PlanMatchesReport
  <2>1. CASE pc'[s] = pc[s] /\ outcome'[s] = outcome[s]
    BY <1>1, <1>2, <2>1 DEF PlanFacts, PlanMatchesReport
  <2>2. CASE s = r /\ PlanOf[r] = p
    BY <1>1, <1>2, <2>1, <2>2
  <2>. QED
    BY <1>2, <2>1, <2>2
<1>. QED
  BY <1>4, <1>5, <1>6, <1>7 DEF PlanFacts

\* Each action is a step of one of these kinds.
LEMMA PlansStep ==
    ConfigAssumption /\ TypeOK /\ OutcomeFits /\ PlanFacts /\ [Next]_vars => PlanFacts'
<1>. SUFFICES ASSUME ConfigAssumption, TypeOK, OutcomeFits, PlanFacts, [Next]_vars
              PROVE  PlanFacts'
  OBVIOUS
<1>1. ASSUME NEW r \in Runs,
             \/ Decline(r) \/ Read(r) \/ ClaimRefused(r) \/ Crash(r)
             \/ OpenBackup(r) \/ FillBackup(r) \/ OpenConfig(r) \/ FillConfig(r)
             \/ WriteFails(r) \/ Hook(r) \/ HookFails(r)
             \/ VerifyPasses(r) \/ VerifyFails(r)
             \/ OpenRestore(r) \/ FillRestore(r) \/ RestoreFails(r)
      PROVE  PlanFacts'
  <2>. USE DEF TypeOK, OutcomeFits, At, Goto, GotoWith, Quiet, Executed
  <2>1. CASE Decline(r) \/ Read(r) \/ ClaimRefused(r) \/ Crash(r)
    <3>1. Quiet(r)
      BY <2>1 DEF Decline, Read, ClaimRefused, Crash
    <3>. QED
      BY <3>1, QuietKeepsPlans
  <2>2. CASE OpenBackup(r) \/ FillBackup(r) \/ OpenConfig(r) \/ FillConfig(r)
    <3>1. Quiet(r)
      BY <2>2 DEF OpenBackup, FillBackup, OpenConfig, FillConfig
    <3>. QED
      BY <3>1, QuietKeepsPlans
  <2>3. CASE WriteFails(r) \/ Hook(r) \/ HookFails(r) \/ VerifyPasses(r) \/ VerifyFails(r)
    <3>1. Quiet(r)
      BY <2>3 DEF WriteFails, Hook, HookFails, VerifyPasses, VerifyFails
    <3>. QED
      BY <3>1, QuietKeepsPlans
  <2>4. CASE OpenRestore(r) \/ FillRestore(r) \/ RestoreFails(r)
    <3>1. Quiet(r)
      BY <2>4 DEF OpenRestore, FillRestore, RestoreFails
    <3>. QED
      BY <3>1, QuietKeepsPlans
  <2>. QED
    BY <1>1, <2>1, <2>2, <2>3, <2>4
<1>2. ASSUME NEW r \in Runs, Claim(r) \/ ClaimUnanswered(r) PROVE PlanFacts'
  <2>. USE DEF TypeOK, OutcomeFits, At, Goto, GotoWith
  <2>0. Record(r, "approved", "running")
    BY <1>2 DEF Claim, ClaimUnanswered
  <2>1. CASE r \in Tracked
    <3>1. /\ plan[PlanOf[r]] = "approved"
          /\ plan' = [plan EXCEPT ![PlanOf[r]] = "running"]
      BY <2>0, <2>1, Statuses, RecordKeepsPlans
    <3>2. Claims(r)
      BY <1>2, <2>1, <3>1 DEF Claims, Claim, ClaimUnanswered
    <3>. QED
      BY <3>2, ClaimsKeepPlans
  <2>2. CASE r \notin Tracked
    <3>1. plan' = plan
      BY <2>0, <2>2, Statuses, RecordKeepsPlans
    <3>2. Quiet(r)
      BY <1>2, <2>2, <3>1 DEF Quiet, Executed, Claim, ClaimUnanswered
    <3>. QED
      BY <3>2, QuietKeepsPlans
  <2>. QED
    BY <2>1, <2>2
<1>3. ASSUME NEW r \in Runs,
             \/ RecordFailed(r) \/ RecordFailedRefused(r)
             \/ RecordSucceeded(r) \/ RecordSucceededRefused(r)
      PROVE  PlanFacts'
  <2>. USE DEF TypeOK, OutcomeFits, At, Goto, GotoWith,
               RecordFailed, RecordFailedRefused, RecordSucceeded, RecordSucceededRefused
  <2>1. CASE r \in Tracked /\ plan' # plan
    <3>1. PICK to \in {"failed", "succeeded"} :
                /\ Record(r, "running", to)
                /\ to = IF pc[r] = "fail" THEN "failed" ELSE "succeeded"
      BY <1>3, <2>1
    <3>2. /\ plan[PlanOf[r]] = "running"
          /\ plan' = [plan EXCEPT ![PlanOf[r]] = to]
      BY <2>1, <3>1, Statuses, RecordKeepsPlans
    <3>3. Ends(PlanOf[r], to, r)
      BY <1>3, <3>1, <3>2 DEF Ends, Executed
    <3>. QED
      BY <3>3, EndsKeepPlans DEF Plans
  <2>2. CASE plan' = plan
    <3>1. Quiet(r)
      <4>1. PlanOf[r] \in Plans
        BY DEF Plans
      <4>2. RecordFailed(r) \/ RecordSucceeded(r) => r \notin Tracked
        BY <2>2, <4>1 DEF Record
      <4>. QED
        BY <1>3, <2>2, <4>2 DEF Quiet, Executed
    <3>. QED
      BY <3>1, QuietKeepsPlans
  <2>3. r \notin Tracked => plan' = plan
    BY <1>3 DEF Record
  <2>. QED
    BY <2>1, <2>2, <2>3
<1>4. ASSUME NEW p \in Plans, Escalate(p) PROVE PlanFacts'
  <2>1. PICK r \in Runs : p = PlanOf[r]
    BY DEF Plans
  <2>2. Ends(p, "escalated", r)
    BY <1>4 DEF Ends, Escalate
  <2>. QED
    BY <2>2, EndsKeepPlans
<1>5. CASE UNCHANGED vars
  BY <1>5 DEF vars, PlanFacts, ExecutedLeftApproved, Executed, OneRunPerPlan,
              RunningPlanHasRun, PlanMatchesReport
<1>. QED
  BY <1>1, <1>2, <1>3, <1>4, <1>5 DEF Next

-----------------------------------------------------------------------------
(* Files                                                                   *)

\* A step of run r changes nothing of the other runs but what they read from the files,
\* and whom it disturbs has nothing to rely on any more.
LEMMA OthersFit ==
    ASSUME NEW r \in Runs, NEW s \in Runs \ {r}, FilesFit(s),
           pc'[s] = pc[s], raw'[s] = raw[s], buf'[s] = buf[s], outcome'[s] = outcome[s],
           backup \in [Stamps -> Contents \cup {NoFile}],
           \/ NoWrite
           \/ UNCHANGED <<file, backup, disturbed>>
           \/ \E content : WriteConfig(r, content) \/ WriteBackup(r, content)
    PROVE  FilesFit(s)'
<1>1. CASE UNCHANGED <<file, backup, disturbed>>
  BY <1>1 DEF FilesFit, HasRead, Patched
<1>2. ASSUME NEW content, WriteConfig(r, content) PROVE FilesFit(s)'
  BY <1>2 DEF WriteConfig, Disturb, FilesFit, HasRead, Patched
<1>3. ASSUME NEW content, WriteBackup(r, content) PROVE FilesFit(s)'
  <2>1. CASE StampOf[s] = StampOf[r]
    BY <1>3, <2>1 DEF WriteBackup, Disturb, FilesFit, HasRead, Patched
  <2>2. CASE StampOf[s] # StampOf[r]
    <3>1. backup'[StampOf[s]] = backup[StampOf[s]]
      BY <1>3, <2>2 DEF WriteBackup, Stamps
    <3>. QED
      BY <1>3, <3>1 DEF WriteBackup, Disturb, FilesFit, HasRead, Patched
  <2>. QED
    BY <2>1, <2>2
<1>. QED
  BY <1>1, <1>2, <1>3 DEF NoWrite

LEMMA FilesStep == TypeOK /\ OutcomeFits /\ FilesInv /\ [Next]_vars => FilesInv'
<1>. SUFFICES ASSUME TypeOK, OutcomeFits, FilesInv, [Next]_vars PROVE FilesInv'
  OBVIOUS
<1>1. ASSUME NEW r \in Runs,
             \/ Decline(r) \/ Read(r) \/ Claim(r) \/ ClaimRefused(r) \/ ClaimUnanswered(r)
      PROVE  FilesInv'
  <2>. USE <1>1 DEF Decline, Read, Claim, ClaimRefused, ClaimUnanswered, Goto, GotoWith
  <2>1. FilesFit(r)'
    BY DEF FilesInv, FilesFit, HasRead, Patched, NoWrite, TypeOK, OutcomeFits, At
  <2>2. ASSUME NEW s \in Runs \ {r} PROVE FilesFit(s)'
    BY <2>2, OthersFit DEF FilesInv, TypeOK
  <2>. QED
    BY <2>1, <2>2 DEF FilesInv
<1>2. ASSUME NEW r \in Runs, OpenBackup(r) \/ FillBackup(r) PROVE FilesInv'
  <2>. USE <1>2 DEF OpenBackup, FillBackup, Goto
  <2>1. FilesFit(r)'
    <3>1. StampOf[r] \in Stamps
      BY DEF Stamps
    <3>. QED
      BY <3>1
      DEF FilesInv, FilesFit, HasRead, Patched, WriteBackup, Disturb, TypeOK, OutcomeFits, At
  <2>2. ASSUME NEW s \in Runs \ {r} PROVE FilesFit(s)'
    BY <2>2, OthersFit DEF FilesInv, TypeOK
  <2>. QED
    BY <2>1, <2>2 DEF FilesInv
<1>3. ASSUME NEW r \in Runs, OpenConfig(r) \/ FillConfig(r) PROVE FilesInv'
  <2>. USE <1>3 DEF OpenConfig, FillConfig, Goto
  <2>1. FilesFit(r)'
    BY DEF FilesInv, FilesFit, HasRead, Patched, WriteConfig, Disturb, TypeOK, OutcomeFits, At
  <2>2. ASSUME NEW s \in Runs \ {r} PROVE FilesFit(s)'
    BY <2>2, OthersFit DEF FilesInv, TypeOK
  <2>. QED
    BY <2>1, <2>2 DEF FilesInv
<1>4. ASSUME NEW r \in Runs,
             WriteFails(r) \/ Hook(r) \/ HookFails(r) \/ VerifyPasses(r) \/ VerifyFails(r)
      PROVE  FilesInv'
  <2>. USE <1>4 DEF WriteFails, Hook, HookFails, VerifyPasses, VerifyFails, Goto, GotoWith
  <2>1. FilesFit(r)'
    BY DEF FilesInv, FilesFit, HasRead, Patched, NoWrite, TypeOK, OutcomeFits, At
  <2>2. ASSUME NEW s \in Runs \ {r} PROVE FilesFit(s)'
    BY <2>2, OthersFit DEF FilesInv, TypeOK
  <2>. QED
    BY <2>1, <2>2 DEF FilesInv
<1>5. ASSUME NEW r \in Runs, OpenRestore(r) \/ FillRestore(r) PROVE FilesInv'
  <2>. USE <1>5 DEF OpenRestore, FillRestore, Goto
  <2>1. FilesFit(r)'
    BY DEF FilesInv, FilesFit, HasRead, Patched, WriteConfig, Disturb, TypeOK, OutcomeFits, At
  <2>2. ASSUME NEW s \in Runs \ {r} PROVE FilesFit(s)'
    BY <2>2, OthersFit DEF FilesInv, TypeOK
  <2>. QED
    BY <2>1, <2>2 DEF FilesInv
<1>6. ASSUME NEW r \in Runs,
             \/ RestoreFails(r) \/ RecordFailed(r) \/ RecordFailedRefused(r)
             \/ RecordSucceeded(r) \/ RecordSucceededRefused(r) \/ Crash(r)
      PROVE  FilesInv'
  <2>. USE <1>6 DEF RestoreFails, RecordFailed, RecordFailedRefused, RecordSucceeded,
                    RecordSucceededRefused, Crash, Goto, GotoWith
  <2>1. FilesFit(r)'
    BY DEF FilesInv, FilesFit, HasRead, Patched, NoWrite, TypeOK, OutcomeFits, At
  <2>2. ASSUME NEW s \in Runs \ {r} PROVE FilesFit(s)'
    BY <2>2, OthersFit DEF FilesInv, TypeOK
  <2>. QED
    BY <2>1, <2>2 DEF FilesInv
<1>7. ASSUME NEW p \in Plans, Escalate(p) PROVE FilesInv'
  BY <1>7 DEF Escalate, NoWrite, FilesInv, FilesFit, HasRead, Patched
<1>8. CASE UNCHANGED vars
  BY <1>8 DEF vars, FilesInv, FilesFit, HasRead, Patched
<1>. QED
  BY <1>1, <1>2, <1>3, <1>4, <1>5, <1>6, <1>7, <1>8 DEF Next

-----------------------------------------------------------------------------
(* Theorems                                                                *)

LEMMA Initially == Init => IInv
<1>. SUFFICES ASSUME Init PROVE IInv
  OBVIOUS
<1>1. TypeOK
  BY TypeInit
<1>2. OutcomeFits
  BY DEF Init, OutcomeFits
<1>3. ExecutedLeftApproved /\ OneRunPerPlan /\ PlanMatchesReport
  BY ConfigAssumption
  DEF Init, ExecutedLeftApproved, OneRunPerPlan, PlanMatchesReport, Executed
<1>4. RunningPlanHasRun
  BY DEF Init, RunningPlanHasRun
<1>5. FilesInv
  BY DEF Init, FilesInv, FilesFit, HasRead
<1>. QED
  BY <1>1, <1>2, <1>3, <1>4, <1>5 DEF IInv, PlansInv

\* The invariant holds at every step: the steps keep it.
THEOREM Inductive == Spec => []IInv
<1>1. IInv /\ [Next]_vars => IInv'
  BY ConfigAssumption, TypeStep, OutcomesStep, PlansStep, FilesStep
  DEF IInv, PlansInv, PlanFacts
<1>. QED
  BY <1>1, Initially, PTL DEF Spec

\* The variables of Run keep their types.
THEOREM TypeCorrect == Spec => []TypeOK
  BY Inductive, PTL DEF IInv, PlansInv

\* Whatever the number of runs, a plan is executed by one of them at most.
THEOREM OneRunPerPlanHolds == Spec => []OneRunPerPlan
  BY Inductive, PTL DEF IInv, PlansInv

\* No error path of Run forgets to record the failure of its plan.
THEOREM RunningPlanHasRunHolds == Spec => []RunningPlanHasRun
  BY Inductive, PTL DEF IInv, PlansInv

\* The status in the store is the one that the result of Run claims.
THEOREM PlanMatchesReportHolds == Spec => []PlanMatchesReport
  BY Inductive, PTL DEF IInv, PlansInv

\* What Run reports of the config file is true, as long as no other run writes it.
THEOREM ReportIsTrueHolds == Spec => []ReportIsTrue
<1>1. IInv => ReportIsTrue
  BY DEF IInv, FilesInv, FilesFit, ReportIsTrue
<1>. QED
  BY <1>1, Inductive, PTL

\* The config that a run read is in the file or in its backup at every step, as long as
\* no other run writes these.
THEOREM ConfigIsRecoverableHolds == Spec => []ConfigIsRecoverable
<1>1. IInv => ConfigIsRecoverable
  <2>. SUFFICES ASSUME IInv, NEW r \in Runs \ disturbed, HasRead(r)
                PROVE  file = raw[r] \/ backup[StampOf[r]] = raw[r]
    BY DEF ConfigIsRecoverable
  <2>. QED
    BY DEF IInv, PlansInv, TypeOK, Labels, FilesInv, FilesFit
<1>. QED
  BY <1>1, Inductive, PTL
=============================================================================
