--------------------------- MODULE LocalExecutors ---------------------------
(***************************************************************************)
(* The executors that change the files of an application on the host:      *)
(* modes of cmd/ai-logfixer-v2, the other commands, and the lanes of the   *)
(* readiness resolver.  Each is a module of its own on the variables of    *)
(* LocalCalls; here they are put side by side.  A behaviour is the calls   *)
(* of one executor, which work on the same files; two executors share no   *)
(* file that both of them write.                                           *)
(***************************************************************************)
EXTENDS Trees, Naturals, Sequences

CONSTANTS
    Executors,                 \* the executors to run
    Calls, StampOf, Torn, NoFile,
    Restarts, InDocker,        \* see SourceEdit and ReadinessPermissions
    PackageOf, FragmentOf, Sections, Broken, Good, Other, Absent, NoCall,
    Names, Required, Secret, Defaultable, Default, Custom, Unset,
    Directories, DirectoryOf, Policy,       \* the paths of Permissions
    TargetPaths, TargetParent, Targets, TargetFiles, Writable,  \* of ReadinessPermissions
    Paths, Parent, FilePaths, PathOf,       \* the paths of the others
    Manifests,
    Service, Action, Unnamed

ASSUME LocalExecutorsAssumption ==
    /\ Calls # {} /\ Torn # NoFile
    /\ Broken # Good /\ Broken # Absent
    /\ Required \in [Calls -> SUBSET Names]
    /\ Restarts \cup InDocker \subseteq Calls
    /\ \A i, j \in DOMAIN Policy : Policy[i] = Policy[j] => i = j
    /\ Policy \in Seq(Directories)
    /\ \A i, j \in DOMAIN Policy :
          Policy[i] \in Above(Directories, DirectoryOf)[Policy[j]] => i < j
    /\ PathOf \in [Calls -> Paths]
    /\ Targets \in Seq(TargetPaths)
    /\ \A p \in TargetPaths : TargetParent[p] \notin TargetFiles
    /\ \A m \in Manifests :
          m \in Seq([action : {"remove_created_path", "chmod", "restore_file"}, path : Paths])
    /\ Secret \cup Defaultable \subseteq Names

VARIABLES disk, pc, mem, report, mixed

vars == <<disk, pc, mem, report, mixed>>

Source == INSTANCE SourceEdit WITH Executor <- "source"
Package == INSTANCE PackageRollback WITH Executor <- "package"
Env == INSTANCE EnvDefaults WITH Executor <- "env"
Resource == INSTANCE Resources WITH Executor <- "resources"
Permission ==
    INSTANCE Permissions WITH Executor <- "permissions",
                              Paths <- Directories, Parent <- DirectoryOf
Readiness ==
    INSTANCE ReadinessPermissions WITH Executor <- "readiness", Files <- TargetFiles,
                                       Paths <- TargetPaths, Parent <- TargetParent
Restart == INSTANCE RestartAction WITH Executor <- "restart"
Stub == INSTANCE LaravelStub WITH Executor <- "laravel"
Manifest == INSTANCE ManifestRollback WITH Executor <- "rollback"

\* A torn or a missing manifest is not one that lists something, and a file that is
\* missing is not one.
ASSUME ManifestAssumption ==
    /\ {Torn, NoFile} \cap
          ([entries : SUBSET Paths] \cup [Directories -> Permission!Nodes]) = {}
    /\ NoFile \notin [data : {"then", "now", Torn}, mode : {"then", "now", "created"}]

Init ==
    \/ "source" \in Executors /\ Source!Init
    \/ "package" \in Executors /\ Package!Init
    \/ "env" \in Executors /\ Env!Init
    \/ "resources" \in Executors /\ Resource!Init
    \/ "permissions" \in Executors /\ Permission!Init
    \/ "readiness" \in Executors /\ Readiness!Init
    \/ "restart" \in Executors /\ Restart!Init
    \/ "laravel" \in Executors /\ Stub!Init
    \/ "rollback" \in Executors /\ Manifest!Init

Next ==
    \/ Source!Next \/ Package!Next \/ Env!Next
    \/ Resource!Next \/ Permission!Next \/ Readiness!Next
    \/ Restart!Next \/ Stub!Next \/ Manifest!Next

Spec == Init /\ [][Next]_vars

-----------------------------------------------------------------------------
(* Properties: those of the modules, for the behaviours of their executor. *)

Runs(executor) == \A c \in Calls : pc[c][1] = executor

\* Every executor keeps the types of its variables.
TypeOK ==
    /\ Runs("source") => Source!TypeOK
    /\ Runs("package") => Package!TypeOK
    /\ Runs("env") => Env!TypeOK
    /\ Runs("resources") => Resource!TypeOK
    /\ Runs("permissions") => Permission!TypeOK
    /\ Runs("readiness") => Readiness!TypeOK
    /\ Runs("restart") => Restart!TypeOK
    /\ Runs("laravel") => Stub!TypeOK
    /\ Runs("rollback") => Manifest!TypeOK

\* ApplySourceEdit: the text that was found is in the file or in the backup.
TextIsRecoverable == Runs("source") => Source!TextIsRecoverable

\* ApplySourceEdit: verified and rolled_back are true of the file and the service.
SourceReportIsTrue == Runs("source") => Source!ReportIsTrue

\* packages.Rollback: a changed file has its manifest and its backup, and only a
\* broken spec has moved.
PackageChangeIsRecorded ==
    Runs("package") => Package!ChangeIsRecorded /\ Package!OnlyBrokenSpecMoves

\* envvars.Run: the lines that the write drops are in the manifest.
EnvIsRecoverable == Runs("env") => Env!EnvIsRecoverable

\* resources.Ensure and Rollback: what is created is listed first, and a rollback leaves
\* the path as it was found and everything that was in the tree then.  It does not keep
\* what the application has put below a created directory since.
CreatedIsReversible ==
    Runs("resources") => Resource!CreatedIsListed /\ Resource!RollbackRestores

\* permissions.Run: a changed mode is in the manifest, and success means that the
\* whole policy holds.
ModesAreAccountedFor == Runs("permissions") => Permission!ModesAreAccountedFor

\* permissions.Run: a failure gives the modes back that were seen.
FailureRestoresWhatWasSeen == Runs("permissions") => Permission!FailureRestoresWhatWasSeen

\* readinessresolve: a rollback that is reported puts every path back.
RepairIsReversed == Runs("readiness") => Readiness!RollbackRestores

\* readinessresolve: the manifest lists every mode that was changed.
RepairIsOnRecord == Runs("readiness") => Readiness!RepairIsOnRecord

\* restart.Run: only an allowed restart whose outcome can be seen.
RestartIsVerified == Runs("restart") => Restart!RestartIsVerified

\* laravel.Run: a stub has its marker, and one that failed is gone.
StubIsMarkedOrGone == Runs("laravel") => Stub!StubIsMarkedOrGone

\* rollbackmanifest.Execute: repeating it makes up for an execution that was cut short.
RetryEndsAsOneExecution == Runs("rollback") => Manifest!RetryEndsAsOneExecution
=============================================================================
