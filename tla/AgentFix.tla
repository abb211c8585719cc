------------------------------ MODULE AgentFix ------------------------------
(***************************************************************************)
(* internal/agentfix, and maybeRunExternalAgent of internal/laravel around *)
(* it: the tree of an application is copied, an external agent edits the   *)
(* copy, the difference between the copy and the live tree is validated    *)
(* and applied to the live tree, the service is probed, and the manifest   *)
(* of the change is executed backwards when the probe fails.  An operator  *)
(* may execute a manifest, too (cmd/ai-logfixer-rollback).                 *)
(*                                                                         *)
(* Nothing locks the tree: runs and the operator write it at any time, and *)
(* one run is to another what any other editor of the tree is.  A content  *)
(* stands for the agent that wrote it.  The validations are commands that  *)
(* run in the staging copy: they may write there, too, after the changes   *)
(* were detected, and what they leave of a changed file is applied.        *)
(* copyFile truncates its destination before it fills it; in between, and  *)
(* when it fails, the file is Torn.                                        *)
(***************************************************************************)
EXTENDS Integers, FiniteSetsExt

CONSTANTS
    Runs,       \* the calls of agentfix.Run
    NPaths,     \* the files of the tree are 1 .. NPaths, in the order of their paths
    StampOf,    \* StampOf[r]: options.Now to the second, the name of the backup directory
    ScopeOf,    \* ScopeOf[r]: the files that options.ExcludePaths does not exclude
    RewritesOf, \* RewritesOf[r]: the files that options.ValidationCommands may write or remove
    Operator,   \* who calls ai-logfixer-rollback
    Original,   \* the content files start with
    Rewritten,  \* what a validation command has left in a file
    Torn,       \* the content of a file whose write has not ended
    Absent,     \* no such file
    MaxUndos    \* bound: the rollbacks the operator begins

Paths == 1 .. NPaths
Stamps == {StampOf[r] : r \in Runs}
Undoers == Runs \cup {Operator}
Contents == {Original, Rewritten, Torn} \cup Runs
Trees == [Paths -> Contents \cup {Absent}]
EmptyTree == [p \in Paths |-> Absent]

ASSUME AgentAssumption ==
    /\ NPaths \in Nat \ {0}
    /\ ScopeOf \in [Runs -> (SUBSET Paths) \ {{}}]
    /\ RewritesOf \in [Runs -> SUBSET Paths]
    /\ Operator \notin Runs
    /\ Original # Torn /\ Original # Absent /\ Torn # Absent
    /\ Rewritten \notin {Original, Torn, Absent}
    /\ {Original, Rewritten, Torn, Absent} \cap Runs = {}
    /\ MaxUndos \in Nat

VARIABLES
    target,     \* the live tree
    staging,    \* the staging copy of each run, empty once it is removed
    before,     \* what the copyDir of each run has read of the live tree
    changes,    \* the changes each run has detected: a type for each changed path
    todo,       \* the paths the present phase of each run has still to visit
    buf,        \* what the copyFile of each run has read of its source
    backup,     \* the "original" directory below each backup directory
    manifest,   \* the rollback-manifest.json of each backup directory
    undo,       \* the Rollback each undoer is executing
    pc,         \* the step each run is about to take, "done" when it is over
    outcome,    \* what the caller of each run reports, "crashed" when it died
    validated,  \* the runs whose changes passed every validation
    rollback,   \* how far the last execution of the manifest of each run came
    disturbed,  \* the runs whose tree or backup directory someone else wrote
    undos       \* the rollbacks the operator began

work == <<staging, before, changes, todo, buf>>
files == <<target, backup, manifest>>
undoing == <<undo, rollback>>
vars == <<work, validated, files, undoing, pc, outcome, disturbed, undos>>

-----------------------------------------------------------------------------
(* Control, files and manifests                                            *)

At(r, label) == pc[r] = label

NoChanges == [p \in {} |-> "modify"]

Goto(r, label) == pc' = [pc EXCEPT ![r] = label] /\ UNCHANGED outcome

\* The steps of a run that write neither the live tree nor the backups.
Reading == {"copy", "agent", "diff", "validate"}

\* The run is over and its staging copy removed; its caller reports result.  Of a
\* run that has written nothing nothing is remembered.
Return(r, result) ==
    /\ pc' = [pc EXCEPT ![r] = "done"]
    /\ outcome' = [outcome EXCEPT ![r] = result]
    /\ staging' = [staging EXCEPT ![r] = EmptyTree]
    /\ before' = [before EXCEPT ![r] = IF pc[r] \in Reading THEN EmptyTree ELSE @]
    /\ changes' = [changes EXCEPT ![r] = IF pc[r] \in Reading THEN NoChanges ELSE @]
    /\ todo' = [todo EXCEPT ![r] = {}]
    /\ buf' = [buf EXCEPT ![r] = Absent]

\* The phase of a run visits its files in the order of their paths.
Path(r) == Min(todo[r])
IsLast(r) == todo[r] = {Path(r)}

\* A slip: the loop looks for another file after the last one.
VisitedOneMore(r, again, next) ==
    /\ todo' = [todo EXCEPT ![r] = @ \ {Path(r)}]
    /\ Goto(r, again)

\* The file is visited: the phase goes on with again, or next follows.
Visited(r, again, next) ==
    /\ todo' = [todo EXCEPT ![r] = @ \ {Path(r)}]
    /\ Goto(r, IF IsLast(r) THEN next ELSE again)

\* The run has begun to read the live tree and is at work or has written.
HasRead(r) ==
    IF pc[r] = "done" THEN changes[r] # NoChanges ELSE At(r, "copy") => todo[r] # ScopeOf[r]

\* A write of the live tree disturbs the runs that have begun to read it, except
\* the one it is made for.
WriteTarget(p, content, for) ==
    /\ target' = [target EXCEPT ![p] = content]
    /\ disturbed' = disturbed \cup {r \in Runs \ {for} : p \in ScopeOf[r] /\ HasRead(r)}
    /\ UNCHANGED <<backup, manifest>>

\* So does a write below the backup directory the runs of one second share.
DisturbStamp(r) ==
    disturbed' = disturbed \cup {s \in Runs \ {r} : StampOf[s] = StampOf[r] /\ HasRead(s)}

WriteBackup(r, content) ==
    /\ backup' = [backup EXCEPT ![StampOf[r]][Path(r)] = content]
    /\ DisturbStamp(r)
    /\ UNCHANGED <<target, manifest>>

WriteManifest(r, content) ==
    /\ manifest' = [manifest EXCEPT ![StampOf[r]] = content]
    /\ DisturbStamp(r)
    /\ UNCHANGED <<target, backup>>

NoWrite == UNCHANGED <<files, disturbed>>

TypeOfChange(old, new) ==
    IF old = Absent THEN "create" ELSE IF new = Absent THEN "delete" ELSE "modify"

ManifestOf(r) == [by |-> r, entries |-> changes[r]]

\* The Rollback of an undoer: which manifest it has read, what is left to be
\* undone of it, last change first, and what its copyFile has read.
Undo(t) == [stamp |-> t, manifest |-> manifest[t], todo |-> DOMAIN manifest[t].entries,
            buf |-> Absent]
NoUndo == [stamp |-> "none"]
IsUndoing(u) == undo[u] # NoUndo
UndoPath(u) == Max(undo[u].todo)
UndoType(u) == undo[u].manifest.entries[UndoPath(u)]

-----------------------------------------------------------------------------
(* Staging, the agent and the difference                                   *)

\* copyDir visits the next file of the live tree.
CopyFile(r) ==
    /\ At(r, "copy")
    /\ staging' = [staging EXCEPT ![r][Path(r)] = target[Path(r)]]
    /\ before' = [before EXCEPT ![r][Path(r)] = target[Path(r)]]
    /\ Visited(r, "copy", "agent")
    /\ NoWrite
    /\ UNCHANGED <<changes, buf, validated, undoing, undos>>

\* The agent ends with status 0; it has rewritten, created or removed any files.
AgentEdits(r) ==
    /\ At(r, "agent")
    /\ \E tree \in Trees :
         /\ \A p \in ScopeOf[r] : tree[p] \in {staging[r][p], r, Absent}
         /\ \A p \in Paths \ ScopeOf[r] : tree[p] = staging[r][p]
         /\ staging' = [staging EXCEPT ![r] = tree]
    /\ todo' = [todo EXCEPT ![r] = ScopeOf[r]]
    /\ Goto(r, "diff")
    /\ NoWrite
    /\ UNCHANGED <<before, changes, buf, validated, undoing, undos>>

\* detectChanges compares the next file with the live tree as it is now.
Diff(r) ==
    LET p == Path(r)
        change == TypeOfChange(target[p], staging[r][p])
        withChange == [q \in DOMAIN changes[r] \cup {p} |->
                          IF q = p THEN change ELSE changes[r][q]]
    IN  /\ At(r, "diff")
        /\ changes' = IF target[p] = staging[r][p]
                      THEN changes ELSE [changes EXCEPT ![r] = withChange]
        /\ Visited(r, "diff", "validate")
        /\ NoWrite
        /\ UNCHANGED <<staging, before, buf, validated, undoing, undos>>

\* A file cannot be read, the agent fails or ends with another status, or more
\* than MaxChangedFiles have changed.
StagingFails(r) ==
    /\ \/ \E label \in {"copy", "agent", "diff"} : At(r, label)
       \/ At(r, "validate") /\ changes[r] # NoChanges
    /\ Return(r, "unsupported")
    /\ NoWrite
    /\ UNCHANGED <<validated, undoing, undos>>

NothingChanged(r) ==
    /\ At(r, "validate")
    /\ changes[r] = NoChanges
    /\ Return(r, "unsupported")
    /\ NoWrite
    /\ UNCHANGED <<validated, undoing, undos>>

\* The validations pass; without options.Apply, that is all.  The staging copy is removed,
\* whatever they have written there.
StagedOnly(r) ==
    /\ At(r, "validate")
    /\ changes[r] # NoChanges
    /\ validated' = validated \cup {r}
    /\ Return(r, "staged")
    /\ NoWrite
    /\ UNCHANGED <<undoing, undos>>

\* What the validations may make of the staging copy of a run.  php -l writes nothing, a
\* command of the options what it likes.
ValidatedTrees(r) ==
    {tree \in Trees : \A p \in Paths :
        IF p \in RewritesOf[r] THEN tree[p] \in {staging[r][p], Rewritten, Absent}
                              ELSE tree[p] = staging[r][p]}

\* The last one passes, and the changes are applied as they were detected before the first
\* one ran.
ValidationsPass(r) ==
    /\ At(r, "validate")
    /\ changes[r] # NoChanges
    /\ validated' = validated \cup {r}
    /\ \E tree \in ValidatedTrees(r) : staging' = [staging EXCEPT ![r] = tree]
    /\ todo' = [todo EXCEPT ![r] = DOMAIN changes[r]]
    /\ Goto(r, "apply")
    /\ NoWrite
    /\ UNCHANGED <<before, changes, buf, undoing, undos>>

\* A slip: the results of the validations are recorded and not looked at.
ValidationIgnored(r) ==
    /\ At(r, "validate")
    /\ changes[r] # NoChanges
    /\ todo' = [todo EXCEPT ![r] = DOMAIN changes[r]]
    /\ Goto(r, "apply")
    /\ NoWrite
    /\ UNCHANGED <<staging, before, changes, buf, validated, undoing, undos>>

ValidationFails(r) ==
    /\ At(r, "validate")
    /\ changes[r] # NoChanges
    /\ Return(r, "unsupported")
    /\ NoWrite
    /\ UNCHANGED <<validated, undoing, undos>>

-----------------------------------------------------------------------------
(* Apply                                                                   *)

\* copyFile(targetPath, backupPath) of a file that is modified or deleted.
OpenBackup(r) ==
    /\ At(r, "apply")
    /\ changes[r][Path(r)] # "create"
    /\ target[Path(r)] # Absent
    /\ buf' = [buf EXCEPT ![r] = target[Path(r)]]
    /\ WriteBackup(r, Torn)
    /\ Goto(r, "fill backup")
    /\ UNCHANGED <<staging, before, changes, todo, validated, undoing, undos>>

FillBackup(r) ==
    /\ At(r, "fill backup")
    /\ WriteBackup(r, buf[r])
    /\ buf' = [buf EXCEPT ![r] = Absent]
    /\ Goto(r, "write")
    /\ UNCHANGED <<staging, before, changes, todo, validated, undoing, undos>>

\* A slip: a file that is modified is copied over without a backup.
OpenTargetAtOnce(r) ==
    /\ At(r, "apply") \/ At(r, "write")
    /\ changes[r][Path(r)] # "delete"
    /\ WriteTarget(Path(r), Torn, r)
    /\ Goto(r, "fill target")
    /\ UNCHANGED <<work, validated, undoing, undos>>

\* copyFile(stagingPath, targetPath) of a file that is created or modified; a validation
\* may have removed it.
OpenTarget(r) ==
    /\ \/ At(r, "apply") /\ changes[r][Path(r)] = "create"
       \/ At(r, "write") /\ changes[r][Path(r)] = "modify"
    /\ staging[r][Path(r)] # Absent
    /\ WriteTarget(Path(r), Torn, r)
    /\ Goto(r, "fill target")
    /\ UNCHANGED <<work, validated, undoing, undos>>

FillTarget(r) ==
    /\ At(r, "fill target")
    /\ WriteTarget(Path(r), staging[r][Path(r)], r)
    /\ Visited(r, "apply", "manifest")
    /\ UNCHANGED <<staging, before, changes, buf, validated, undoing, undos>>

\* A slip: a deletion is backed up and entered in the manifest, not executed.
RemoveForgotten(r) ==
    /\ At(r, "write")
    /\ changes[r][Path(r)] = "delete"
    /\ Visited(r, "apply", "manifest")
    /\ NoWrite
    /\ UNCHANGED <<staging, before, changes, buf, validated, undoing, undos>>

Remove(r) ==
    /\ At(r, "write")
    /\ changes[r][Path(r)] = "delete"
    /\ target[Path(r)] # Absent
    /\ WriteTarget(Path(r), Absent, r)
    /\ Visited(r, "apply", "manifest")
    /\ UNCHANGED <<staging, before, changes, buf, validated, undoing, undos>>

OpenManifest(r) ==
    /\ At(r, "manifest")
    /\ WriteManifest(r, Torn)
    /\ Goto(r, "fill manifest")
    /\ UNCHANGED <<work, validated, undoing, undos>>

FillManifest(r) ==
    /\ At(r, "fill manifest")
    /\ WriteManifest(r, ManifestOf(r))
    /\ Goto(r, "probe")
    /\ UNCHANGED <<work, validated, undoing, undos>>

\* A directory cannot be made, or a file not opened, written or removed: what has
\* been applied stays, and the caller reports that there was no applicable patch.
ApplyFails(r) ==
    /\ \E label \in {"apply", "fill backup", "write", "fill target", "manifest",
                     "fill manifest"} : At(r, label)
    /\ Return(r, "unsupported")
    /\ NoWrite
    /\ UNCHANGED <<validated, undoing, undos>>

-----------------------------------------------------------------------------
(* Probe and rollback                                                      *)

\* maybeRunExternalAgent probes the URL: no server error and no error page.
ProbePasses(r) ==
    /\ At(r, "probe")
    /\ Return(r, "applied")
    /\ NoWrite
    /\ UNCHANGED <<validated, undoing, undos>>

ProbeFails(r) ==
    /\ At(r, "probe")
    /\ Goto(r, "rollback")
    /\ NoWrite
    /\ UNCHANGED <<work, validated, undoing, undos>>

\* Rollback reads a manifest.  Executed while the run that wrote it is at work,
\* or by two at once, it disturbs that run.
BeginUndo(u, t) ==
    LET by == manifest[t].by
        overlaps == \/ u # by /\ pc[by] # "done"
                    \/ \E w \in Undoers \ {u} : IsUndoing(w) /\ undo[w].manifest.by = by
    IN  /\ ~ IsUndoing(u)
        /\ manifest[t] \notin {Torn, Absent}
        /\ undo' = [undo EXCEPT ![u] = Undo(t)]
        /\ rollback' = [rollback EXCEPT ![by] = "begun"]
        /\ disturbed' = IF overlaps THEN disturbed \cup {by} ELSE disturbed
        /\ UNCHANGED <<work, validated, files>>

OperatorUndoes(t) ==
    /\ undos < MaxUndos
    /\ undos' = undos + 1
    /\ BeginUndo(Operator, t)
    /\ UNCHANGED <<pc, outcome>>

RunUndoes(r) ==
    /\ At(r, "rollback")
    /\ BeginUndo(r, StampOf[r])
    /\ Goto(r, "undoing")
    /\ UNCHANGED undos

\* The manifest cannot be read or decoded.
ManifestUnreadable(r) ==
    /\ At(r, "rollback")
    /\ Return(r, "rollback_failed")
    /\ NoWrite
    /\ UNCHANGED <<validated, undoing, undos>>

\* An undoer that is a run returns to its caller.
UndoReturns(u, result) ==
    /\ undo' = [undo EXCEPT ![u] = NoUndo]
    /\ IF u \in Runs THEN Return(u, result) ELSE UNCHANGED <<pc, outcome, work>>

\* The entry is undone: the one before it is next, or the rollback has ended.
EntryUndone(u) ==
    IF undo[u].todo = {UndoPath(u)}
    THEN /\ UndoReturns(u, "rolled_back")
         /\ rollback' = [rollback EXCEPT ![undo[u].manifest.by] = "done"]
    ELSE /\ undo' = [undo EXCEPT ![u].todo = @ \ {UndoPath(u)}, ![u].buf = Absent]
         /\ UNCHANGED <<pc, outcome, work, rollback>>

\* A slip: a file the change created is not removed.
KeepCreated(u) ==
    /\ IsUndoing(u)
    /\ UndoType(u) = "create"
    /\ EntryUndone(u)
    /\ NoWrite
    /\ UNCHANGED <<validated, undos>>

\* os.Remove of a file the change created; one that is gone is no error.
RemoveCreated(u) ==
    /\ IsUndoing(u)
    /\ UndoType(u) = "create"
    /\ WriteTarget(UndoPath(u), Absent, undo[u].manifest.by)
    /\ EntryUndone(u)
    /\ UNCHANGED <<validated, undos>>

\* copyFile(change.BackupPath, targetPath).
OpenRestore(u) ==
    LET saved == backup[undo[u].stamp][UndoPath(u)]
    IN  /\ IsUndoing(u)
        /\ UndoType(u) # "create"
        /\ undo[u].buf = Absent
        /\ saved # Absent
        /\ undo' = [undo EXCEPT ![u].buf = saved]
        /\ WriteTarget(UndoPath(u), Torn, undo[u].manifest.by)
        /\ UNCHANGED <<work, validated, rollback, pc, outcome, undos>>

FillRestore(u) ==
    /\ IsUndoing(u)
    /\ undo[u].buf # Absent
    /\ WriteTarget(UndoPath(u), undo[u].buf, undo[u].manifest.by)
    /\ EntryUndone(u)
    /\ UNCHANGED <<validated, undos>>

\* A step of the rollback fails, or the operator's process dies: it ends there.
UndoFails(u) ==
    /\ IsUndoing(u)
    /\ UndoReturns(u, "rollback_failed")
    /\ NoWrite
    /\ UNCHANGED <<validated, rollback, undos>>

-----------------------------------------------------------------------------
(* Crashes                                                                 *)

\* The process of a run dies; what is left of its staging copy is never read.
Crash(r) ==
    /\ pc[r] # "done"
    /\ Return(r, "crashed")
    /\ undo' = [undo EXCEPT ![r] = NoUndo]
    /\ NoWrite
    /\ UNCHANGED <<validated, rollback, undos>>

Init ==
    /\ target \in [Paths -> {Original, Absent}]
    /\ staging = [r \in Runs |-> EmptyTree]
    /\ before = [r \in Runs |-> EmptyTree]
    /\ changes = [r \in Runs |-> NoChanges]
    /\ todo = ScopeOf
    /\ buf = [r \in Runs |-> Absent]
    /\ backup = [t \in Stamps |-> EmptyTree]
    /\ manifest = [t \in Stamps |-> Absent]
    /\ undo = [u \in Undoers |-> NoUndo]
    /\ pc = [r \in Runs |-> "copy"]
    /\ outcome = [r \in Runs |-> "none"]
    /\ validated = {}
    /\ rollback = [r \in Runs |-> "none"]
    /\ disturbed = {}
    /\ undos = 0

Next ==
    \/ \E r \in Runs :
         \/ CopyFile(r)
         \/ AgentEdits(r)
         \/ Diff(r)
         \/ StagingFails(r)
         \/ NothingChanged(r)
         \/ StagedOnly(r)
         \/ ValidationsPass(r)
         \/ ValidationFails(r)
         \/ OpenBackup(r)
         \/ FillBackup(r)
         \/ OpenTarget(r)
         \/ FillTarget(r)
         \/ Remove(r)
         \/ OpenManifest(r)
         \/ FillManifest(r)
         \/ ApplyFails(r)
         \/ ProbePasses(r)
         \/ ProbeFails(r)
         \/ RunUndoes(r)
         \/ ManifestUnreadable(r)
         \/ Crash(r)
    \/ \E t \in Stamps : OperatorUndoes(t)
    \/ \E u \in Undoers :
         \/ RemoveCreated(u)
         \/ OpenRestore(u)
         \/ FillRestore(u)
         \/ UndoFails(u)

Spec == Init /\ [][Next]_vars

-----------------------------------------------------------------------------
(* Properties                                                              *)

Labels == {"copy", "agent", "diff", "validate", "apply", "fill backup", "write", "fill target",
           "manifest", "fill manifest", "probe", "rollback", "undoing", "done"}

Outcomes == {"none", "unsupported", "staged", "applied", "rolled_back", "rollback_failed",
             "crashed"}

ChangeSets == UNION {[S -> {"create", "modify", "delete"}] : S \in SUBSET Paths}

\* The trees map paths to contents; a phase that visits files has one to visit.
TypeOK ==
    /\ target \in Trees
    /\ staging \in [Runs -> Trees]
    /\ before \in [Runs -> Trees]
    /\ changes \in [Runs -> ChangeSets]
    /\ todo \in [Runs -> SUBSET Paths]
    /\ \A r \in Runs :
         pc[r] \in {"copy", "diff", "apply", "fill backup", "write", "fill target"} => todo[r] # {}
    /\ buf \in [Runs -> Contents \cup {Absent}]
    /\ backup \in [Stamps -> Trees]
    /\ \A t \in Stamps :
         manifest[t] \in [by : Runs, entries : ChangeSets] \cup {Torn, Absent}
    /\ \A u \in Undoers : IsUndoing(u) => undo[u].todo # {}
    /\ pc \in [Runs -> Labels]
    /\ outcome \in [Runs -> Outcomes]
    /\ validated \subseteq Runs
    /\ rollback \in [Runs -> {"none", "begun", "done"}]
    /\ disturbed \subseteq Runs
    /\ undos \in 0 .. MaxUndos

\* What an agent wrote is in the live tree only if its changes were validated,
\* whichever run, rollback or staging copy has carried it there.
OnlyValidatedPatches ==
    \A r \in Runs : (\E p \in Paths : target[p] = r) => r \in validated

\* Whatever the step at which a run fails or dies, each file it found is in the
\* live tree or in its backup, as long as nobody else has written them.
OriginalIsRecoverable ==
    \A r \in Runs \ disturbed : \A p \in ScopeOf[r] :
        \/ before[r][p] \in {Absent, target[p]}
        \/ backup[StampOf[r]][p] = before[r][p]

\* The file as the patch of a run leaves it.
Patched(r, p) ==
    IF p \notin DOMAIN changes[r] THEN before[r][p]
    ELSE IF changes[r][p] = "delete" THEN Absent
    ELSE staging[r][p]

\* When a run has applied its patch, the live tree differs from what the run found in the
\* files it had detected as changed and in no other one: those it detected as deleted are
\* gone, even if a validation has brought them back in the staging copy, and the others
\* are what the validations have left there.  (That may not be what was compared, nor
\* what the validations before the last one have seen: nothing looks at it again.)
AppliedIsDetected ==
    \A r \in Runs \ disturbed :
        pc[r] = "probe" => \A p \in ScopeOf[r] : target[p] = Patched(r, p)

\* A rollback that ends without an error has brought back the tree as the run
\* found it, after rollbacks that failed or died half-way, too.
RollbackRestores ==
    \A r \in Runs \ disturbed :
        rollback[r] = "done" => \A p \in ScopeOf[r] : target[p] = before[r][p]

\* A run that has returned and changed the live tree has written the manifest by
\* which the change can be rolled back.
ChangedHasManifest ==
    \A r \in Runs \ disturbed :
        /\ pc[r] = "done"
        /\ outcome[r] # "crashed"
        /\ \E p \in DOMAIN changes[r] : target[p] # before[r][p]
        => manifest[StampOf[r]] = ManifestOf(r)
=============================================================================
