------------------------- MODULE ConfigRemediation --------------------------
(***************************************************************************)
(* Run of internal/runtime/v2: one call patches one key of a JSON config   *)
(* file, lets a hook carry the file to where the service reads it, probes  *)
(* the service, and restores a backup when the probe fails; around this it *)
(* moves the remediation plan through the workflow service.                *)
(*                                                                         *)
(* Calls of Run are made by separate processes, as incidents come in.  All *)
(* of them work on one config file here, next to its backups directory,    *)
(* whose files are named after the second in which the call was made.  A   *)
(* file is written by os.WriteFile, which truncates it first: between the  *)
(* two steps, and after a write that failed, the file is Torn.             *)
(***************************************************************************)
EXTENDS Integers, Domain

CONSTANTS
    Runs,       \* the calls of Run
    Keys,       \* the string keys of the config document
    KeyOf,      \* KeyOf[r]: options.ConfigKeyPath
    StampOf,    \* StampOf[r]: options.Now, to the second
    PlanOf,     \* PlanOf[r]: the plan id, a hash of the incident and the patch
    Tracked,    \* the calls that are given a WorkflowService
    Hooked,     \* the calls that are given an AfterConfigPatch hook
    Original,   \* the value every key starts with
    Torn,       \* the content of a file whose write has not ended
    NoFile      \* no such backup file

Plans == {PlanOf[r] : r \in Runs}
Stamps == {StampOf[r] : r \in Runs}

\* A document maps each key to its first value or to the replacement of a run.
Documents == [Keys -> {Original} \cup Runs]
Contents == Documents \cup {Torn}

ASSUME ConfigAssumption ==
    /\ KeyOf \in [Runs -> Keys]
    /\ Tracked \subseteq Runs
    /\ Hooked \subseteq Runs
    /\ Original \notin Runs
    /\ Torn \notin Documents
    /\ NoFile \notin Contents

VARIABLES
    file,       \* the config file
    live,       \* the copy the hooks maintain where the service reads it
    backup,     \* the files in the backups directory
    plan,       \* the status of each plan in the workflow store
    pc,         \* the step each run is about to take, "done" when it returned
    raw,        \* rawConfig of each run: the content it read, Torn before that
    buf,        \* the bytes the restoreBackup of a run has read
    outcome,    \* what each run reports when it returns
    crashed,    \* the runs whose process died
    unrecorded, \* the runs that know of an error of their last transition of the
                \* plan, or never learned that their first one took effect
    disturbed   \* the runs that read the config before another run wrote it or
                \* wrote a backup file of the same name

vars == <<file, live, backup, plan, pc, raw, buf, outcome, crashed, unrecorded,
          disturbed>>

-----------------------------------------------------------------------------
(* Control, files and plans                                                *)

At(r, label) == pc[r] = label /\ r \notin crashed

Goto(r, label) == pc' = [pc EXCEPT ![r] = label]

\* The run goes on to label; what it will report is settled.
GotoWith(r, label, result) ==
    /\ Goto(r, label)
    /\ outcome' = [outcome EXCEPT ![r] = result]

HasRead(r) == raw[r] # Torn

\* The document run r writes: the one it read, with its key replaced.
Patched(r) == [raw[r] EXCEPT ![KeyOf[r]] = r]

Disturb(r, others) == disturbed' = disturbed \cup {s \in others \ {r} : HasRead(s)}

WriteConfig(r, content) ==
    /\ file' = content
    /\ Disturb(r, Runs)
    /\ UNCHANGED <<live, backup>>

WriteBackup(r, content) ==
    /\ backup' = [backup EXCEPT ![StampOf[r]] = content]
    /\ Disturb(r, {s \in Runs : StampOf[s] = StampOf[r]})
    /\ UNCHANGED <<file, live>>

NoWrite == UNCHANGED <<file, live, backup, disturbed>>

\* recordRemediationPlanTransition: a no-op without a workflow service, else the
\* compare-and-swap of MoveRemediation.
Record(r, from, to) ==
    IF r \in Tracked
    THEN /\ plan[PlanOf[r]] = from
         /\ CanMoveRemediation(from, to)
         /\ plan' = [plan EXCEPT ![PlanOf[r]] = to]
    ELSE UNCHANGED plan

-----------------------------------------------------------------------------
(* Up to the running transition                                            *)

\* The log cannot be read or shows no repeated failure, the patch descriptor is
\* incomplete, the evidence points to another family of causes, or the key is
\* missing: an error or a blocked result.
Decline(r) ==
    /\ At(r, "read")
    /\ GotoWith(r, "done", "declined")
    /\ NoWrite
    /\ UNCHANGED <<plan, raw, buf, crashed, unrecorded>>

\* readJSONConfig; the contracts built from the value it finds are valid.
Read(r) ==
    /\ At(r, "read")
    /\ file # Torn
    /\ raw' = [raw EXCEPT ![r] = file]
    /\ Goto(r, "claim")
    /\ NoWrite
    /\ UNCHANGED <<plan, buf, outcome, crashed, unrecorded>>

\* A slip: the transition is recorded without comparing the plan's status.
ClaimAlways(r) ==
    /\ At(r, "claim")
    /\ plan' = IF r \in Tracked THEN [plan EXCEPT ![PlanOf[r]] = "running"] ELSE plan
    /\ Goto(r, "backup")
    /\ NoWrite
    /\ UNCHANGED <<raw, buf, outcome, crashed, unrecorded>>

Claim(r) ==
    /\ At(r, "claim")
    /\ Record(r, "approved", "running")
    /\ Goto(r, "backup")
    /\ NoWrite
    /\ UNCHANGED <<raw, buf, outcome, crashed, unrecorded>>

\* The plan is not approved, or the store fails.
ClaimRefused(r) ==
    /\ At(r, "claim")
    /\ r \in Tracked
    /\ GotoWith(r, "done", "refused")
    /\ NoWrite
    /\ UNCHANGED <<plan, raw, buf, crashed, unrecorded>>

\* The transition is committed but its answer lost: the run returns, too.
ClaimUnanswered(r) ==
    /\ At(r, "claim")
    /\ r \in Tracked
    /\ Record(r, "approved", "running")
    /\ unrecorded' = unrecorded \cup {r}
    /\ GotoWith(r, "done", "refused")
    /\ NoWrite
    /\ UNCHANGED <<raw, buf, crashed>>

-----------------------------------------------------------------------------
(* Backup, patch and hook                                                  *)

\* backupConfig.
OpenBackup(r) ==
    /\ At(r, "backup")
    /\ WriteBackup(r, Torn)
    /\ Goto(r, "fill backup")
    /\ UNCHANGED <<plan, raw, buf, outcome, crashed, unrecorded>>

\* A slip: the error of the write is dropped and the patch goes ahead.
FillBackupUnchecked(r) ==
    /\ At(r, "fill backup")
    /\ WriteBackup(r, raw[r]) \/ NoWrite
    /\ Goto(r, "patch")
    /\ UNCHANGED <<plan, raw, buf, outcome, crashed, unrecorded>>

FillBackup(r) ==
    /\ At(r, "fill backup")
    /\ WriteBackup(r, raw[r])
    /\ Goto(r, "patch")
    /\ UNCHANGED <<plan, raw, buf, outcome, crashed, unrecorded>>

\* writeJSONConfig.
OpenConfig(r) ==
    /\ At(r, "patch")
    /\ WriteConfig(r, Torn)
    /\ Goto(r, "fill config")
    /\ UNCHANGED <<plan, raw, buf, outcome, crashed, unrecorded>>

FillConfig(r) ==
    /\ At(r, "fill config")
    /\ WriteConfig(r, Patched(r))
    /\ Goto(r, IF r \in Hooked THEN "hook" ELSE "verify")
    /\ UNCHANGED <<plan, raw, buf, outcome, crashed, unrecorded>>

\* A slip: the error of the write returns without recording the failure.
WriteFailsSilently(r) ==
    /\ \E label \in {"backup", "fill backup", "patch", "fill config"} : At(r, label)
    /\ GotoWith(r, "done", "error")
    /\ NoWrite
    /\ UNCHANGED <<plan, raw, buf, crashed, unrecorded>>

\* The directory cannot be made or a file not opened or not written: the run
\* gives up as it is, a config that was truncated stays so.
WriteFails(r) ==
    /\ \E label \in {"backup", "fill backup", "patch", "fill config"} : At(r, label)
    /\ GotoWith(r, "fail", "error")
    /\ NoWrite
    /\ UNCHANGED <<plan, raw, buf, crashed, unrecorded>>

\* AfterConfigPatch copies the config file to where the service reads it.
Hook(r) ==
    /\ At(r, "hook")
    /\ live' = file
    /\ Goto(r, "verify")
    /\ UNCHANGED <<file, backup, disturbed, plan, raw, buf, outcome, crashed, unrecorded>>

HookFails(r) ==
    /\ At(r, "hook")
    /\ GotoWith(r, "restore", "error")
    /\ NoWrite
    /\ UNCHANGED <<plan, raw, buf, crashed, unrecorded>>

-----------------------------------------------------------------------------
(* Verification and restore                                                *)

\* verifyFixed: the probe answers with the expected status.
VerifyPasses(r) ==
    /\ At(r, "verify")
    /\ Goto(r, "succeed")
    /\ NoWrite
    /\ UNCHANGED <<plan, raw, buf, outcome, crashed, unrecorded>>

\* A slip: the failed attempt is reported, the backup is not restored.
VerifyFailsNoRestore(r) ==
    /\ At(r, "verify")
    /\ GotoWith(r, "fail", "failed_rolled_back")
    /\ NoWrite
    /\ UNCHANGED <<plan, raw, buf, crashed, unrecorded>>

\* The probe answers with another status, or not at all.
VerifyFails(r) ==
    /\ At(r, "verify")
    /\ GotoWith(r, "restore", "failed_rolled_back")
    /\ NoWrite
    /\ UNCHANGED <<plan, raw, buf, crashed, unrecorded>>

\* restoreBackup reads the backup file and opens the config.
OpenRestore(r) ==
    /\ At(r, "restore")
    /\ backup[StampOf[r]] # NoFile
    /\ buf' = [buf EXCEPT ![r] = backup[StampOf[r]]]
    /\ WriteConfig(r, Torn)
    /\ Goto(r, "fill restore")
    /\ UNCHANGED <<plan, raw, outcome, crashed, unrecorded>>

FillRestore(r) ==
    /\ At(r, "fill restore")
    /\ WriteConfig(r, buf[r])
    /\ buf' = [buf EXCEPT ![r] = Torn]
    /\ Goto(r, "fail")
    /\ UNCHANGED <<plan, raw, outcome, crashed, unrecorded>>

\* The backup cannot be read, or the config not opened or not written.  After a
\* failed hook the error is dropped, after a failed probe it is reported.
RestoreFails(r) ==
    /\ At(r, "restore") \/ At(r, "fill restore")
    /\ buf' = [buf EXCEPT ![r] = Torn]
    /\ GotoWith(r, "fail", IF outcome[r] = "error" THEN "error" ELSE "failed_rollback_failed")
    /\ NoWrite
    /\ UNCHANGED <<plan, raw, crashed, unrecorded>>

-----------------------------------------------------------------------------
(* The last transition                                                     *)

\* A slip: the plan is given the status that the result reports.
RecordFailedAsReported(r) ==
    /\ At(r, "fail")
    /\ plan' = IF r \in Tracked THEN [plan EXCEPT ![PlanOf[r]] = outcome[r]] ELSE plan
    /\ Goto(r, "done")
    /\ NoWrite
    /\ UNCHANGED <<raw, buf, outcome, crashed, unrecorded>>

\* recordRemediationPlanFailure.
RecordFailed(r) ==
    /\ At(r, "fail")
    /\ Record(r, "running", "failed")
    /\ Goto(r, "done")
    /\ NoWrite
    /\ UNCHANGED <<raw, buf, outcome, crashed, unrecorded>>

\* The store refuses the transition or fails, the answer of its commit is lost,
\* or the context that ended the probe was cancelled: the error is joined to the
\* one that is reported.
RecordFailedRefused(r) ==
    /\ At(r, "fail")
    /\ r \in Tracked
    /\ UNCHANGED plan \/ Record(r, "running", "failed")
    /\ unrecorded' = unrecorded \cup {r}
    /\ Goto(r, "done")
    /\ NoWrite
    /\ UNCHANGED <<raw, buf, outcome, crashed>>

RecordSucceeded(r) ==
    /\ At(r, "succeed")
    /\ Record(r, "running", "succeeded")
    /\ GotoWith(r, "done", "succeeded")
    /\ NoWrite
    /\ UNCHANGED <<raw, buf, crashed, unrecorded>>

\* A slip: the error of the transition is ignored.
RecordSucceededUnnoticed(r) ==
    /\ At(r, "succeed")
    /\ r \in Tracked
    /\ unrecorded' = unrecorded \cup {r}
    /\ GotoWith(r, "done", "succeeded")
    /\ NoWrite
    /\ UNCHANGED <<plan, raw, buf, crashed>>

\* The run returns an error and no result; the patch stays in place.
RecordSucceededRefused(r) ==
    /\ At(r, "succeed")
    /\ r \in Tracked
    /\ UNCHANGED plan \/ Record(r, "running", "succeeded")
    /\ unrecorded' = unrecorded \cup {r}
    /\ GotoWith(r, "done", "error")
    /\ NoWrite
    /\ UNCHANGED <<raw, buf, crashed>>

\* The process of a run dies.  Nothing resumes the run.
Crash(r) ==
    /\ r \notin crashed
    /\ pc[r] # "done"
    /\ crashed' = crashed \cup {r}
    /\ NoWrite
    /\ UNCHANGED <<plan, pc, raw, buf, outcome, unrecorded>>

\* Another caller of the workflow service takes a plan out of the hands of its run.
Escalate(p) ==
    /\ plan[p] \in {"running", "failed"}
    /\ plan' = [plan EXCEPT ![p] = "escalated"]
    /\ NoWrite
    /\ UNCHANGED <<pc, raw, buf, outcome, crashed, unrecorded>>

-----------------------------------------------------------------------------
\* The runner has been given plans that are approved; the service reads what is
\* in the config file.
Init ==
    /\ file = [k \in Keys |-> Original]
    /\ live = file
    /\ backup = [t \in Stamps |-> NoFile]
    /\ plan = [p \in Plans |-> "approved"]
    /\ pc = [r \in Runs |-> "read"]
    /\ raw = [r \in Runs |-> Torn]
    /\ buf = [r \in Runs |-> Torn]
    /\ outcome = [r \in Runs |-> "none"]
    /\ crashed = {}
    /\ unrecorded = {}
    /\ disturbed = {}

Next ==
    \/ \E r \in Runs :
         \/ Decline(r)
         \/ Read(r)
         \/ Claim(r)
         \/ ClaimRefused(r)
         \/ ClaimUnanswered(r)
         \/ OpenBackup(r)
         \/ FillBackup(r)
         \/ OpenConfig(r)
         \/ FillConfig(r)
         \/ WriteFails(r)
         \/ Hook(r)
         \/ HookFails(r)
         \/ VerifyPasses(r)
         \/ VerifyFails(r)
         \/ OpenRestore(r)
         \/ FillRestore(r)
         \/ RestoreFails(r)
         \/ RecordFailed(r)
         \/ RecordFailedRefused(r)
         \/ RecordSucceeded(r)
         \/ RecordSucceededRefused(r)
         \/ Crash(r)
    \/ \E p \in Plans : Escalate(p)

Spec == Init /\ [][Next]_vars

-----------------------------------------------------------------------------
(* Properties                                                              *)

Labels == {"read", "claim", "backup", "fill backup", "patch", "fill config", "hook",
           "verify", "restore", "fill restore", "succeed", "fail", "done"}

Outcomes == {"none", "declined", "refused", "error", "succeeded", "failed_rolled_back",
             "failed_rollback_failed"}

\* The files hold documents, the plans have statuses of the graph.
TypeOK ==
    /\ file \in Contents
    /\ live \in Contents
    /\ backup \in [Stamps -> Contents \cup {NoFile}]
    /\ plan \in [Plans -> RemediationStatuses]
    /\ pc \in [Runs -> Labels]
    /\ raw \in [Runs -> Contents]
    /\ buf \in [Runs -> Contents]
    /\ outcome \in [Runs -> Outcomes]
    /\ crashed \subseteq Runs
    /\ unrecorded \subseteq Tracked
    /\ disturbed \subseteq Runs

\* The run got past the running transition: it may have written files.
Executed(r) ==
    /\ pc[r] \notin {"read", "claim"}
    /\ outcome[r] \notin {"declined", "refused"}

\* However many runs an incident triggers, a plan is executed by one of them, and
\* never again: not after it failed, not after its run crashed.
OneRunPerPlan ==
    \A r, s \in Tracked : PlanOf[r] = PlanOf[s] /\ Executed(r) /\ Executed(s) => r = s

\* A plan that is still running after its run returned is one whose transition
\* went wrong in the store: no error path forgets to record the failure.
RunningPlanHasRun ==
    \A p \in Plans : plan[p] = "running" =>
        \E r \in Tracked :
            /\ PlanOf[r] = p
            /\ pc[r] \notin {"read", "claim"}
            /\ pc[r] = "done" => r \in unrecorded

\* The plan in the store and the result the caller gets agree.
PlanMatchesReport ==
    \A r \in Tracked : pc[r] = "done" =>
        /\ outcome[r] = "succeeded" => plan[PlanOf[r]] = "succeeded"
        /\ outcome[r] \in {"failed_rolled_back", "failed_rollback_failed"} /\ r \notin unrecorded
             => plan[PlanOf[r]] \in {"failed", "escalated"}

\* As long as no other run has written its files, a run that reports success has
\* left the config it read with its key replaced and nothing else changed, and a
\* run that reports a rollback has left the config it read.
ReportIsTrue ==
    \A r \in Runs \ disturbed :
        /\ outcome[r] = "succeeded" => file = Patched(r)
        /\ outcome[r] = "failed_rolled_back" /\ pc[r] \in {"fail", "done"} => file = raw[r]

\* Whatever the step at which a run fails or its process dies, the config it read
\* is in the config file or in its backup, as long as no other run has written
\* those files.
ConfigIsRecoverable ==
    \A r \in Runs \ disturbed :
        HasRead(r) => file = raw[r] \/ backup[StampOf[r]] = raw[r]

\* A patch that was rolled back is gone from where the service reads it, too.
RolledBackWhereItRuns ==
    \A r \in Runs \ disturbed :
        /\ pc[r] = "done"
        /\ outcome[r] = "failed_rolled_back"
        /\ live # Torn
        => live[KeyOf[r]] # r

\* The patch of a run that succeeded stays in the config, unless another run
\* replaces the same key.
SucceededPatchStays ==
    \A r \in Runs :
        /\ outcome[r] = "succeeded"
        /\ file # Torn
        /\ \A s \in Runs \ {r} : KeyOf[s] # KeyOf[r]
        => file[KeyOf[r]] = r
=============================================================================
