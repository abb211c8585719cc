------------------------ MODULE LocalExecutorsProofs -------------------------
(***************************************************************************)
(* What the executors promise about the files they write, for any number   *)
(* of calls, files, packages, variables and stamps.  A behaviour of        *)
(* LocalExecutors is one of a single executor, which is proved first; then *)
(* each executor is taken by itself, by an invariant that says for every   *)
(* place of a call that was left alone what is in the files and backups.   *)
(***************************************************************************)
EXTENDS LocalExecutors, TLAPS

-----------------------------------------------------------------------------
(* A behaviour is one of a single executor                                 *)

\* All calls are calls of executor e.
Works(e) == pc = [c \in Calls |-> <<e, pc[c][2]>>]

Place(c) == pc[c][2]

\* Where a call is, in terms of its place.
LEMMA Placing ==
    ASSUME NEW e, Works(e), NEW c \in Calls
    PROVE  /\ \A l : pc[c] = <<e, l>> <=> Place(c) = l
           /\ \A labels : pc[c] \in {e} \X labels <=> Place(c) \in labels
           /\ \A l : pc' = [pc EXCEPT ![c] = <<e, l>>] =>
                 Place(c)' = l /\ \A d \in Calls \ {c} : Place(d)' = Place(d)
           /\ \A l : pc' = pc => \A d \in Calls : Place(d)' = Place(d)
  BY DEF Works, Place

LEMMA SourceGoes ==
    ASSUME NEW c \in Calls, Source!Step(c)
    PROVE  /\ \A e : Works(e) => e = "source"
           /\ UNCHANGED pc \/ \E l \in Source!Labels : Source!Goto(c, l)
  BY DEF Works, Source!Step, Source!Refuse, Source!Read, Source!OpenBackup, Source!FillBackup,
         Source!FailBackup, Source!OpenSource, Source!FillSource, Source!FailSource,
         Source!Restart, Source!FailRestart, Source!Verify, Source!FailVerify,
         Source!OpenUndo, Source!FillUndo, Source!FailUndo, Source!Crash, Source!At,
         Source!Among, Source!Places, Source!Working, Source!Return, Source!Labels

LEMMA PackageGoes ==
    ASSUME NEW c \in Calls, Package!Step(c)
    PROVE  /\ \A e : Works(e) => e = "package"
           /\ UNCHANGED pc \/ \E l \in Package!Labels : Package!Goto(c, l)
  BY DEF Works, Package!Step, Package!Refuse, Package!Read, Package!OpenBackup, Package!FillBackup,
         Package!OpenManifest, Package!FillManifest, Package!FailRollbackData,
         Package!OpenFile, Package!FillFile, Package!FailFile, Package!Verify,
         Package!FailVerify, Package!OpenUndo, Package!FillUndo, Package!FailUndo,
         Package!Crash, Package!At, Package!Among, Package!Places, Package!Working,
         Package!Return, Package!Labels

LEMMA EnvGoes ==
    ASSUME NEW c \in Calls, Env!Step(c)
    PROVE  /\ \A e : Works(e) => e = "env"
           /\ UNCHANGED pc \/ \E l \in Env!Labels : Env!Goto(c, l)
  BY DEF Works, Env!Step, Env!NothingMissing, Env!Block, Env!Plan, Env!ReadFile, Env!OpenManifest,
         Env!FillManifest, Env!FailManifest, Env!OpenFile, Env!FillFile, Env!FailFile,
         Env!RemoveFile, Env!OpenUndo, Env!FillUndo, Env!FailUndo, Env!Crash, Env!At,
         Env!Among, Env!Places, Env!Working, Env!Return, Env!Labels

LEMMA ResourceGoes ==
    ASSUME NEW c \in Calls, Resource!Step(c)
    PROVE  /\ \A e : Works(e) => e = "resources"
           /\ UNCHANGED pc \/ \E l \in Resource!Labels : Resource!Goto(c, l)
  BY DEF Works, Resource!Step, Resource!Refuse, Resource!Inspect, Resource!Check,
         Resource!OpenManifest, Resource!FillManifest, Resource!FailManifest,
         Resource!MakeDirectory, Resource!MakeFile, Resource!Applied, Resource!FailApply,
         Resource!Verify, Resource!FailVerify, Resource!StartRollback, Resource!ReadManifest,
         Resource!RemoveCreated, Resource!Removed, Resource!FailRollback, Resource!Crash,
         Resource!At, Resource!Among, Resource!Places, Resource!Working, Resource!Return,
         Resource!Labels

LEMMA PermissionGoes ==
    ASSUME NEW c \in Calls, Permission!Step(c)
    PROVE  /\ \A e : Works(e) => e = "permissions"
           /\ UNCHANGED pc \/ \E l \in Permission!Labels : Permission!Goto(c, l)
  BY DEF Works, Permission!Step, Permission!Block, Permission!DryRun, Permission!NothingToDo,
         Permission!Inspect, Permission!StatEntries, Permission!FillManifest,
         Permission!FailManifest, Permission!Apply, Permission!FailApply,
         Permission!Recheck, Permission!FailRecheck, Permission!Verify,
         Permission!FailVerify, Permission!Undo, Permission!SkipUndo, Permission!Undone,
         Permission!Crash, Permission!At, Permission!Among, Permission!Places,
         Permission!Working, Permission!Return, Permission!Labels

LEMMA ReadinessGoes ==
    ASSUME NEW c \in Calls, Readiness!Step(c)
    PROVE  /\ \A e : Works(e) => e = "readiness"
           /\ UNCHANGED pc \/ \E l \in Readiness!Labels : Readiness!Goto(c, l)
<1>1. \A e : Works(e) => e = "readiness"
  <2>1. \/ \E l : Readiness!At(c, l)
        \/ Readiness!Among(c, {"verify", "verify again"})
        \/ Readiness!Working
    BY DEF Readiness!Step, Readiness!Refuse, Readiness!Begin, Readiness!Repair,
         Readiness!FailRepair, Readiness!OpenManifest, Readiness!FillManifest,
         Readiness!FailManifest, Readiness!Verify, Readiness!FailVerify,
         Readiness!Restart, Readiness!FailRestart, Readiness!Undo, Readiness!FailUndo,
         Readiness!Undone, Readiness!Crash
  <2>2. pc[c][1] = "readiness"
    <3>1. CASE \E l : Readiness!At(c, l)
      BY <3>1 DEF Readiness!At
    <3>2. CASE Readiness!Among(c, {"verify", "verify again"})
      BY <3>2 DEF Readiness!Among, Readiness!Places
    <3>3. CASE Readiness!Working
      BY <3>3 DEF Readiness!Working, Readiness!Places
    <3> QED BY <2>1, <3>1, <3>2, <3>3
  <2> QED BY <2>2 DEF Works
<1>2. CASE Readiness!FailVerify(c)
  <2>1. Readiness!Goto(c, "restart") \/ Readiness!Goto(c, "undo")
    BY <1>2 DEF Readiness!FailVerify
  <2> QED BY <1>1, <2>1 DEF Readiness!Labels
<1>3. CASE ~ Readiness!FailVerify(c)
  <2>1. UNCHANGED pc \/ \E l \in Readiness!Labels : Readiness!Goto(c, l)
    BY <1>3 DEF Readiness!Step, Readiness!Refuse, Readiness!Begin, Readiness!Repair,
         Readiness!FailRepair, Readiness!OpenManifest, Readiness!FillManifest,
         Readiness!FailManifest, Readiness!Verify, Readiness!Restart,
         Readiness!FailRestart, Readiness!Undo, Readiness!FailUndo, Readiness!Undone,
         Readiness!Crash, Readiness!Return, Readiness!Labels
  <2> QED BY <1>1, <2>1
<1> QED BY <1>2, <1>3

LEMMA RestartGoes ==
    ASSUME NEW c \in Calls, Restart!Step(c)
    PROVE  /\ \A e : Works(e) => e = "restart"
           /\ UNCHANGED pc \/ \E l \in Restart!Labels : Restart!Goto(c, l)
  BY DEF Works, Restart!Step, Restart!NoFailures, Restart!Block, Restart!Diagnose,
         Restart!RunCommand, Restart!FailCommand, Restart!Verify, Restart!FailVerify, Restart!Crash,
         Restart!At, Restart!Among, Restart!Places, Restart!Working, Restart!Return,
         Restart!Labels

LEMMA StubGoes ==
    ASSUME NEW c \in Calls, Stub!Step(c)
    PROVE  /\ \A e : Works(e) => e = "laravel"
           /\ UNCHANGED pc \/ \E l \in Stub!Labels : Stub!Goto(c, l)
  BY DEF Works, Stub!Step, Stub!Decline, Stub!Select, Stub!OpenMarker, Stub!FillMarker, Stub!Check,
         Stub!FailEarly, Stub!OpenStub, Stub!FillStub, Stub!FailStub, Stub!Lint,
         Stub!Fail, Stub!Probe, Stub!Remove, Stub!FailRemove, Stub!Crash, Stub!At,
         Stub!Among, Stub!Places, Stub!Working, Stub!Return, Stub!Labels

LEMMA ManifestGoes ==
    ASSUME NEW c \in Calls, Manifest!Step(c)
    PROVE  /\ \A e : Works(e) => e = "rollback"
           /\ UNCHANGED pc \/ \E l \in Manifest!Labels : Manifest!Goto(c, l)
  BY DEF Works, Manifest!Step, Manifest!Facing, Manifest!Refuse, Manifest!Begin,
         Manifest!RemovePath, Manifest!Chmod, Manifest!OpenFile, Manifest!FillFile,
         Manifest!FillUnlinked, Manifest!ChmodFile, Manifest!FailEntry, Manifest!Executed,
         Manifest!Crash, Manifest!At, Manifest!Among, Manifest!Places, Manifest!Working,
         Manifest!Return, Manifest!Labels

LEMMA StubDeveloper ==
    ASSUME Stub!DeveloperWrites
    PROVE  UNCHANGED pc /\ \A e : Works(e) => e = "laravel"
  BY LocalExecutorsAssumption
  DEF LocalExecutorsAssumption, Works, Stub!DeveloperWrites, Stub!Working, Stub!Places

LEMMA ResourceApplication ==
    ASSUME NEW p \in Paths, Resource!ApplicationWrites(p)
    PROVE  UNCHANGED pc /\ \A e : Works(e) => e = "resources"
  BY LocalExecutorsAssumption
  DEF LocalExecutorsAssumption, Works, Resource!ApplicationWrites, Resource!Working,
      Resource!Places

LEMMA Stays ==
    ASSUME NEW e, Works(e), NEW c \in Calls, NEW l, pc' = [pc EXCEPT ![c] = <<e, l>>]
    PROVE  Works(e)'
  BY DEF Works

LEMMA StaysPut == ASSUME NEW e, Works(e), UNCHANGED pc PROVE Works(e)'
  BY DEF Works

LEMMA OneExecutor ==
    ASSUME NEW e, Works(e), Next
    PROVE  /\ Works(e)'
           /\ \/ e = "source" /\ Source!Next
              \/ e = "package" /\ Package!Next
              \/ e = "env" /\ Env!Next
              \/ e = "resources" /\ Resource!Next
              \/ e = "permissions" /\ Permission!Next
              \/ e = "readiness" /\ Readiness!Next
              \/ e = "restart" /\ Restart!Next
              \/ e = "laravel" /\ Stub!Next
              \/ e = "rollback" /\ Manifest!Next
<1>1. ASSUME Source!Next PROVE e = "source" /\ Works(e)'
  <2>1. ASSUME NEW c \in Calls, Source!Step(c) PROVE e = "source" /\ Works(e)'
    BY <2>1, SourceGoes, Stays, StaysPut DEF Source!Goto
  <2> QED BY <1>1, <2>1 DEF Source!Next
<1>2. ASSUME Package!Next PROVE e = "package" /\ Works(e)'
  <2>1. ASSUME NEW c \in Calls, Package!Step(c) PROVE e = "package" /\ Works(e)'
    BY <2>1, PackageGoes, Stays, StaysPut DEF Package!Goto
  <2> QED BY <1>2, <2>1 DEF Package!Next
<1>3. ASSUME Env!Next PROVE e = "env" /\ Works(e)'
  <2>1. ASSUME NEW c \in Calls, Env!Step(c) PROVE e = "env" /\ Works(e)'
    BY <2>1, EnvGoes, Stays, StaysPut DEF Env!Goto
  <2> QED BY <1>3, <2>1 DEF Env!Next
<1>4. ASSUME Resource!Next PROVE e = "resources" /\ Works(e)'
  <2>1. ASSUME NEW c \in Calls, Resource!Step(c) PROVE e = "resources" /\ Works(e)'
    BY <2>1, ResourceGoes, Stays, StaysPut DEF Resource!Goto
  <2> QED BY <1>4, <2>1, ResourceApplication, StaysPut DEF Resource!Next
<1>5. ASSUME Permission!Next PROVE e = "permissions" /\ Works(e)'
  <2>1. ASSUME NEW c \in Calls, Permission!Step(c) PROVE e = "permissions" /\ Works(e)'
    BY <2>1, PermissionGoes, Stays, StaysPut DEF Permission!Goto
  <2> QED BY <1>5, <2>1 DEF Permission!Next
<1>6. ASSUME Readiness!Next PROVE e = "readiness" /\ Works(e)'
  <2>1. ASSUME NEW c \in Calls, Readiness!Step(c) PROVE e = "readiness" /\ Works(e)'
    BY <2>1, ReadinessGoes, Stays, StaysPut DEF Readiness!Goto
  <2> QED BY <1>6, <2>1 DEF Readiness!Next
<1>7. ASSUME Restart!Next PROVE e = "restart" /\ Works(e)'
  <2>1. ASSUME NEW c \in Calls, Restart!Step(c) PROVE e = "restart" /\ Works(e)'
    BY <2>1, RestartGoes, Stays, StaysPut DEF Restart!Goto
  <2> QED BY <1>7, <2>1 DEF Restart!Next
<1>8. ASSUME Stub!Next PROVE e = "laravel" /\ Works(e)'
  <2>1. ASSUME NEW c \in Calls, Stub!Step(c) PROVE e = "laravel" /\ Works(e)'
    BY <2>1, StubGoes, Stays, StaysPut DEF Stub!Goto
  <2> QED BY <1>8, <2>1, StubDeveloper, StaysPut DEF Stub!Next
<1>9. ASSUME Manifest!Next PROVE e = "rollback" /\ Works(e)'
  <2>1. ASSUME NEW c \in Calls, Manifest!Step(c) PROVE e = "rollback" /\ Works(e)'
    BY <2>1, ManifestGoes, Stays, StaysPut DEF Manifest!Goto
  <2> QED BY <1>9, <2>1 DEF Manifest!Next
<1> QED BY <1>1, <1>2, <1>3, <1>4, <1>5, <1>6, <1>7, <1>8, <1>9 DEF Next

\* Which executor it is never changes.
LEMMA WorksOn ==
    ASSUME NEW e, NEW f, Works(e), Works(f)', [Next]_vars
    PROVE  e = f
<1>1. Works(e)'
  BY OneExecutor DEF Works, vars
<1>2. PICK c \in Calls : TRUE
  BY LocalExecutorsAssumption DEF LocalExecutorsAssumption
<1> QED BY <1>1, <1>2 DEF Works

OneWorks == \E e : Works(e)

LEMMA InitWorks ==
    ASSUME Init
    PROVE  /\ OneWorks
           /\ \/ Works("source") /\ Source!Init
              \/ Works("package") /\ Package!Init
              \/ Works("env") /\ Env!Init
              \/ Works("resources") /\ Resource!Init
              \/ Works("permissions") /\ Permission!Init
              \/ Works("readiness") /\ Readiness!Init
              \/ Works("restart") /\ Restart!Init
              \/ Works("laravel") /\ Stub!Init
              \/ Works("rollback") /\ Manifest!Init
<1>1. Source!Init => Works("source")
  BY DEF Source!Init, Source!CallsInit, Works
<1>2. Package!Init => Works("package")
  BY DEF Package!Init, Package!CallsInit, Works
<1>3. Env!Init => Works("env")
  BY DEF Env!Init, Env!CallsInit, Works
<1>4. Resource!Init => Works("resources")
  BY DEF Resource!Init, Resource!CallsInit, Works
<1>5. Permission!Init => Works("permissions")
  BY DEF Permission!Init, Permission!CallsInit, Works
<1>6. Readiness!Init => Works("readiness")
  BY DEF Readiness!Init, Readiness!CallsInit, Works
<1>7. Restart!Init => Works("restart")
  BY DEF Restart!Init, Restart!CallsInit, Works
<1>8. Stub!Init => Works("laravel")
  BY DEF Stub!Init, Stub!CallsInit, Works
<1>9. Manifest!Init => Works("rollback")
  BY DEF Manifest!Init, Manifest!CallsInit, Works
<1> QED
  BY <1>1, <1>2, <1>3, <1>4, <1>5, <1>6, <1>7, <1>8, <1>9 DEF Init, OneWorks


LEMMA WorksAlone == ASSUME NEW e, NEW f, Works(e), Works(f) PROVE e = f
<1>1. PICK c \in Calls : TRUE
  BY LocalExecutorsAssumption DEF LocalExecutorsAssumption
<1> QED BY <1>1 DEF Works

LEMMA RunsWorks ==
    ASSUME NEW e, OneWorks, Runs(e)
    PROVE  Works(e)
<1>1. PICK f : Works(f)
  BY DEF OneWorks
<1>2. PICK c \in Calls : TRUE
  BY LocalExecutorsAssumption DEF LocalExecutorsAssumption
<1>3. f = e
  BY <1>1, <1>2 DEF Works, Runs
<1> QED BY <1>1, <1>3

\* A behaviour is one of a single executor: no step hands a call to another one.
THEOREM OneExecutorWorks == Spec => []OneWorks
<1>1. Init => OneWorks
  BY InitWorks
<1>2. OneWorks /\ [Next]_vars => OneWorks'
  <2>1. ASSUME OneWorks, UNCHANGED vars PROVE OneWorks'
    BY <2>1 DEF OneWorks, Works, vars
  <2>2. ASSUME OneWorks, Next PROVE OneWorks'
    BY <2>2, OneExecutor DEF OneWorks
  <2> QED BY <2>1, <2>2
<1> QED BY <1>1, <1>2, PTL DEF Spec
-----------------------------------------------------------------------------
(* ApplySourceEdit                                                         *)

\* What is in the files at each place of a call that nobody disturbed.
SourceFits(c) ==
    LET Found == disk.source = mem[c]
        Saved == Source!BackupOf(c) = mem[c]
        Edited == disk.source = Source!Patched(c)
        Loaded == c \in Restarts => disk.loaded = Source!Patched(c)
    IN  /\ Place(c) \in {"backup", "copy", "patch"} => Found
        /\ Place(c) \in {"patch", "write", "restart", "verify", "undo", "restore"} => Saved
        /\ Place(c) \in {"restart", "verify"} => Edited
        /\ Place(c) = "verify" => Loaded
        /\ Place(c) = "done" /\ report[c] # "declined" => Found \/ Saved
        /\ report[c] = "verified" => Edited /\ Loaded
        /\ report[c] \in {"rolled_back", "backup_failed"} => Found

\* A call has answered when it is done; from its copy on it has a backup.
SourceInv ==
    /\ Source!TypeOK
    /\ \A c \in Calls :
          /\ report[c] = "none" <=> Place(c) # "done"
          /\ Place(c) \in {"copy", "patch", "write", "restart", "verify", "undo", "restore"}
                => Source!BackupOf(c) \in Source!Texts \cup {Torn}
          /\ Source!Alone(c) => SourceFits(c)

LEMMA SourcePlaces ==
    ASSUME Source!TypeOK, NEW c \in Calls
    PROVE  /\ Works("source")
           /\ \A l : Source!At(c, l) <=> Place(c) = l
           /\ \A labels : Source!Among(c, labels) <=> Place(c) \in labels
           /\ \A l : Source!Goto(c, l) =>
                 Place(c)' = l /\ \A d \in Calls \ {c} : Place(d)' = Place(d)
           /\ Place(c) \in Source!Labels
<1>1. Works("source") /\ Place(c) \in Source!Labels
  BY DEF Source!TypeOK, Source!Places, Works, Place
<1> QED
  BY <1>1, Placing DEF Source!At, Source!Among, Source!Places, Source!Goto

LEMMA SourceWrites ==
    ASSUME Source!TypeOK, NEW c \in Calls, NEW text \in Source!Texts \cup {Torn}
    PROVE  /\ Source!SetSource(c, text) =>
                /\ disk'.source = text /\ disk'.loaded = disk.loaded
                /\ disk'.backup = disk.backup
                /\ \A d \in Calls \ {c} : ~ Source!At(d, "start") => d \in mixed'
           /\ Source!SetBackup(c, text) =>
                /\ disk'.source = disk.source /\ disk'.loaded = disk.loaded
                /\ Source!BackupOf(c)' = text
                /\ \A d \in Calls \ {c} : ~ Source!At(d, "start") =>
                      d \in mixed' \/ Source!BackupOf(d)' = Source!BackupOf(d)
                /\ \A d \in Calls :
                      Source!BackupOf(d)' \in {text, Source!BackupOf(d)}
           /\ Source!SetSource(c, text) \/ Source!SetBackup(c, text) =>
                /\ disk' \in [source : Source!Texts \cup {Torn},
                              loaded : Source!Texts \cup {Torn},
                              backup : [Source!Stamps -> Source!Texts \cup {Torn, NoFile}]]
                /\ mixed \subseteq mixed' /\ mixed' \subseteq Calls
<1> USE DEF Source!TypeOK
<1>1. \A d \in Calls : StampOf[d] \in Source!Stamps
  BY DEF Source!Stamps
<1>2. ASSUME Source!SetSource(c, text)
      PROVE  disk' = [source |-> text, loaded |-> disk.loaded, backup |-> disk.backup]
  BY <1>2 DEF Source!SetSource
<1>3. ASSUME Source!SetBackup(c, text)
      PROVE  disk' = [source |-> disk.source, loaded |-> disk.loaded,
                      backup |-> [disk.backup EXCEPT ![StampOf[c]] = text]]
  BY <1>3 DEF Source!SetBackup
<1> QED
  BY <1>1, <1>2, <1>3
  DEF Source!SetSource, Source!SetBackup, Source!Mix, Source!Sharing, Source!Begun,
      Source!BackupOf

\* What a step writes, reads and answers.
LEMMA SourceSteps ==
    ASSUME SourceInv, NEW c \in Calls, Source!Step(c)
    PROVE  /\ \/ \E text \in Source!Texts \cup {Torn} :
                    Source!SetSource(c, text) \/ Source!SetBackup(c, text)
              \/ mixed' = mixed /\ disk' = disk
              \/ mixed' = mixed /\ disk' = [disk EXCEPT !.loaded = disk.source]
           /\ \/ mem' = mem
              \/ mem' = [mem EXCEPT ![c] = disk.source]
           /\ \/ report' = report
              \/ \E answer \in Source!Reports : report' = [report EXCEPT ![c] = answer]
           /\ \E l \in Source!Labels : Source!Goto(c, l)
<1> USE DEF Source!Step
<1>1. \/ mem' = mem
      \/ mem' = [mem EXCEPT ![c] = disk.source]
  BY DEF Source!Refuse, Source!Read, Source!OpenBackup, Source!FillBackup,
         Source!FailBackup, Source!OpenSource, Source!FillSource, Source!FailSource,
         Source!Restart, Source!FailRestart, Source!Verify, Source!FailVerify,
         Source!OpenUndo, Source!FillUndo, Source!FailUndo, Source!Crash
<1>2. \/ report' = report
      \/ \E answer \in Source!Reports : report' = [report EXCEPT ![c] = answer]
  BY DEF Source!Refuse, Source!Read, Source!OpenBackup, Source!FillBackup,
         Source!FailBackup, Source!OpenSource, Source!FillSource, Source!FailSource,
         Source!Restart, Source!FailRestart, Source!Verify, Source!FailVerify,
         Source!OpenUndo, Source!FillUndo, Source!FailUndo, Source!Crash,
         Source!Return, Source!Reports
<1>3. \E l \in Source!Labels : Source!Goto(c, l)
  BY DEF Source!Refuse, Source!Read, Source!OpenBackup, Source!FillBackup,
         Source!FailBackup, Source!OpenSource, Source!FillSource, Source!FailSource,
         Source!Restart, Source!FailRestart, Source!Verify, Source!FailVerify,
         Source!OpenUndo, Source!FillUndo, Source!FailUndo, Source!Crash,
         Source!Return, Source!Labels
<1>4. \/ \E text \in {Torn, disk.source, Source!Patched(c)} :
            Source!SetSource(c, text) \/ Source!SetBackup(c, text)
      \/ Source!SetSource(c, Source!BackupOf(c)) /\ Source!At(c, "restore")
      \/ mixed' = mixed /\ disk' = disk
      \/ mixed' = mixed /\ disk' = [disk EXCEPT !.loaded = disk.source]
  BY DEF Source!Refuse, Source!Read, Source!OpenBackup, Source!FillBackup,
         Source!FailBackup, Source!OpenSource, Source!FillSource, Source!FailSource,
         Source!Restart, Source!FailRestart, Source!Verify, Source!FailVerify,
         Source!OpenUndo, Source!FillUndo, Source!FailUndo, Source!Crash,
         Source!Quiet
<1>5. {Torn, disk.source, Source!Patched(c)} \subseteq Source!Texts \cup {Torn}
  BY DEF SourceInv, Source!TypeOK, Source!Patched, Source!Texts
<1>6. Source!At(c, "restore") => Source!BackupOf(c) \in Source!Texts \cup {Torn}
  BY SourcePlaces DEF SourceInv, Source!TypeOK, Source!BackupOf, Source!Stamps
<1> QED BY <1>1, <1>2, <1>3, <1>4, <1>5, <1>6

LEMMA SourceTyped ==
    ASSUME SourceInv, NEW c \in Calls, Source!Step(c)
    PROVE  Source!TypeOK'
<1> USE DEF SourceInv
<1>1. /\ disk' \in [source : Source!Texts \cup {Torn}, loaded : Source!Texts \cup {Torn},
                   backup : [Source!Stamps -> Source!Texts \cup {Torn, NoFile}]]
      /\ mixed' \subseteq Calls
  <2>1. CASE disk' = [disk EXCEPT !.loaded = disk.source] /\ mixed' = mixed
    BY <2>1 DEF Source!TypeOK
  <2> QED BY <2>1, SourceSteps, SourceWrites DEF Source!TypeOK
<1>2. mem' \in [Calls -> Source!Texts \cup {Torn}]
  BY SourceSteps DEF Source!TypeOK
<1>3. report' \in [Calls -> Source!Reports]
  BY SourceSteps DEF Source!TypeOK
<1>4. pc' \in [Calls -> Source!Places(Source!Labels)]
  BY SourceSteps DEF Source!TypeOK, Source!Goto, Source!Places
<1> QED BY <1>1, <1>2, <1>3, <1>4 DEF Source!TypeOK, Source!Texts

\* The calls other than the one that takes a step.
LEMMA SourceOthers ==
    ASSUME SourceInv, NEW c \in Calls, Source!Step(c), NEW d \in Calls \ {c}
    PROVE  /\ Place(d)' = Place(d) /\ mem'[d] = mem[d] /\ report'[d] = report[d]
           /\ d \in mixed => d \in mixed'
           /\ Place(d) # "start" /\ d \notin mixed' =>
                 /\ disk'.source = disk.source
                 /\ disk'.loaded \in {disk.loaded, disk.source}
                 /\ Source!BackupOf(d)' = Source!BackupOf(d)
<1> USE DEF SourceInv
<1>1. /\ Place(d)' = Place(d) /\ mem'[d] = mem[d] /\ report'[d] = report[d]
  BY SourceSteps, SourcePlaces DEF Source!TypeOK
<1>2. CASE disk' = [disk EXCEPT !.loaded = disk.source] /\ mixed' = mixed
  BY <1>1, <1>2 DEF Source!TypeOK, Source!BackupOf
<1>3. CASE disk' = disk /\ mixed' = mixed
  BY <1>1, <1>3 DEF Source!BackupOf
<1>4. CASE \E text \in Source!Texts \cup {Torn} :
              Source!SetSource(c, text) \/ Source!SetBackup(c, text)
  BY <1>1, <1>4, SourceWrites, SourcePlaces DEF Source!BackupOf
<1> QED BY <1>2, <1>3, <1>4, SourceSteps

\* The call that takes a step: what it finds is what it has left.
LEMMA SourceOwn ==
    ASSUME SourceInv, NEW c \in Calls, Source!Step(c), Source!Alone(c)'
    PROVE  SourceFits(c)'
<1> DEFINE Text == Source!Texts \cup {Torn}
<1> USE DEF SourceInv
<1>0. /\ c \notin mixed /\ Place(c) \in Source!Labels
      /\ Place(c) # "start" => SourceFits(c)
      /\ Place(c) # "done" => report[c] = "none"
      /\ mem[c] \in Text /\ disk.source \in Text /\ Source!Patched(c) \in Text /\ Torn \in Text
  <2>1. mixed \subseteq mixed'
    BY SourceSteps, SourceWrites
  <2>2. c \notin mixed
    BY <2>1 DEF Source!Alone
  <2>3. mem[c] \in Text /\ disk.source \in Text
    BY DEF Source!TypeOK
  <2>4. Source!Patched(c) \in Text
    BY <2>3 DEF Source!Patched, Source!Texts
  <2> QED BY <2>2, <2>3, <2>4, SourcePlaces DEF Source!Alone, Source!Begun
<1>1. CASE Source!Refuse(c) \/ Source!Read(c)
  BY <1>0, <1>1, SourcePlaces
  DEF SourceFits, Source!Refuse, Source!Read, Source!Return, Source!Quiet, Source!TypeOK
<1>2. CASE Source!OpenBackup(c) \/ Source!FillBackup(c)
  <2>1. PICK text \in Text : /\ Source!SetBackup(c, text)
                             /\ Source!FillBackup(c) => text = disk.source
    BY <1>0, <1>2 DEF Source!OpenBackup, Source!FillBackup
  <2> QED
    BY <1>0, <1>2, <2>1, SourcePlaces, SourceWrites
    DEF SourceFits, Source!OpenBackup, Source!FillBackup, Source!Patched
<1>3. CASE Source!FailBackup(c) \/ Source!FailSource(c) \/ Source!FailUndo(c) \/ Source!Crash(c)
  BY <1>0, <1>3, SourcePlaces
  DEF SourceFits, Source!FailBackup, Source!FailSource, Source!FailUndo, Source!Crash,
      Source!Return, Source!Quiet, Source!TypeOK, Source!Patched, Source!BackupOf, Source!Labels
<1>4. CASE Source!OpenSource(c) \/ Source!FillSource(c) \/ Source!OpenUndo(c)
  <2>1. PICK text \in {Torn, Source!Patched(c)} :
            /\ Source!SetSource(c, text)
            /\ Source!FillSource(c) => text = Source!Patched(c)
    BY <1>4 DEF Source!OpenSource, Source!FillSource, Source!OpenUndo
  <2>2. disk'.source = text /\ disk'.loaded = disk.loaded /\ disk'.backup = disk.backup
    BY <1>0, <2>1, SourceWrites
  <2>3. mem' = mem /\ report' = report
    BY <1>4 DEF Source!OpenSource, Source!FillSource, Source!OpenUndo
  <2>4. \/ Place(c) = "patch" /\ Place(c)' = "write"
        \/ Place(c) = "write" /\ Place(c)' = "restart" /\ Source!FillSource(c)
        \/ Place(c) = "undo" /\ Place(c)' = "restore"
    BY <1>4, SourcePlaces DEF Source!OpenSource, Source!FillSource, Source!OpenUndo
  <2> QED
    BY <1>0, <2>1, <2>2, <2>3, <2>4 DEF SourceFits, Source!Patched, Source!BackupOf
<1>5. CASE Source!Restart(c) \/ Source!FailRestart(c)
  <2>1. /\ disk'.source = disk.source /\ disk'.backup = disk.backup
        /\ Source!Restart(c) /\ c \in Restarts => disk'.loaded = disk.source
    BY <1>5 DEF Source!Restart, Source!FailRestart, Source!TypeOK
  <2>2. /\ mem' = mem /\ report' = report
    BY <1>5 DEF Source!Restart, Source!FailRestart
  <2>3. /\ Place(c) = "restart"
        /\ \/ Place(c)' = "verify" /\ Source!Restart(c)
           \/ Place(c)' = "undo"
    BY <1>5, SourcePlaces DEF Source!Restart, Source!FailRestart
  <2> QED
    BY <1>0, <2>1, <2>2, <2>3 DEF SourceFits, Source!Patched, Source!BackupOf
<1>6. CASE Source!Verify(c) \/ Source!FailVerify(c)
  <2>1. disk' = disk /\ mem' = mem
    BY <1>6 DEF Source!Verify, Source!FailVerify, Source!Quiet
  <2>2. /\ Place(c) = "verify"
        /\ \/ Place(c)' = "done" /\ report'[c] = "verified"
           \/ Place(c)' = "undo" /\ report' = report
    BY <1>6, SourcePlaces
    DEF Source!Verify, Source!FailVerify, Source!Return, Source!TypeOK
  <2> QED BY <1>0, <2>1, <2>2 DEF SourceFits, Source!Patched, Source!BackupOf
<1>7. CASE Source!FillUndo(c)
  BY <1>0, <1>7, SourcePlaces, SourceWrites
  DEF SourceFits, Source!FillUndo, Source!Return, Source!TypeOK, Source!Patched,
      Source!BackupOf
<1> QED BY <1>1, <1>2, <1>3, <1>4, <1>5, <1>6, <1>7 DEF Source!Step

\* Every step of a call keeps the invariant.
LEMMA SourceStep ==
    ASSUME SourceInv, NEW c \in Calls, Source!Step(c)
    PROVE  SourceInv'
<1> USE DEF SourceInv
<1>1. Source!TypeOK'
  BY SourceTyped
<1>2. ASSUME NEW d \in Calls
      PROVE  report'[d] = "none" <=> Place(d)' # "done"
  BY <1>2, SourcePlaces, SourceOthers
  DEF Source!TypeOK, Source!Step, Source!Refuse, Source!Read, Source!OpenBackup,
      Source!FillBackup, Source!FailBackup, Source!OpenSource, Source!FillSource,
      Source!FailSource, Source!Restart, Source!FailRestart, Source!Verify,
      Source!FailVerify, Source!OpenUndo, Source!FillUndo, Source!FailUndo,
      Source!Crash, Source!Return
<1>3. ASSUME NEW d \in Calls,
             Place(d)' \in {"copy", "patch", "write", "restart", "verify", "undo", "restore"}
      PROVE  Source!BackupOf(d)' \in Source!Texts \cup {Torn}
  <2>1. CASE d # c
    <3>1. Source!BackupOf(d) \in Source!Texts \cup {Torn}
      BY <1>3, <2>1, SourceOthers
    <3>2. CASE \E text \in Source!Texts \cup {Torn} :
                  Source!SetSource(c, text) \/ Source!SetBackup(c, text)
      BY <3>1, <3>2, SourceWrites DEF Source!BackupOf
    <3>3. CASE disk'.backup = disk.backup
      BY <3>1, <3>3 DEF Source!BackupOf
    <3> QED BY <3>2, <3>3, SourceSteps DEF Source!TypeOK
  <2>2. CASE d = c
    <3>1. \/ Source!OpenBackup(c)
          \/ Place(c) \in {"copy", "patch", "write", "restart", "verify", "undo", "restore"}
      BY <1>3, <2>2, SourcePlaces
      DEF Source!Step, Source!Refuse, Source!Read, Source!FillBackup, Source!FailBackup,
          Source!OpenSource, Source!FillSource, Source!FailSource, Source!Restart,
          Source!FailRestart, Source!Verify, Source!FailVerify, Source!OpenUndo,
          Source!FillUndo, Source!FailUndo, Source!Crash, Source!Return
    <3>2. CASE \E text \in Source!Texts \cup {Torn} : Source!SetBackup(c, text)
      BY <2>2, <3>2, SourceWrites
    <3>3. CASE /\ disk'.backup = disk.backup
               /\ ~ \E text \in Source!Texts \cup {Torn} : Source!SetBackup(c, text)
      <4>1. ~ Source!OpenBackup(c)
        BY <3>3 DEF Source!OpenBackup
      <4> QED BY <2>2, <3>1, <3>3, <4>1 DEF Source!BackupOf
    <3> QED BY <2>2, <3>2, <3>3, SourceSteps, SourceWrites DEF Source!TypeOK
  <2> QED BY <2>1, <2>2
<1>4. ASSUME NEW d \in Calls, Source!Alone(d)' PROVE SourceFits(d)'
  <2>1. CASE d = c
    BY <1>4, <2>1, SourceOwn
  <2>2. CASE d # c
    <3>0. /\ Place(d)' = Place(d) /\ mem'[d] = mem[d] /\ report'[d] = report[d]
          /\ d \notin mixed /\ d \notin mixed'
      BY <1>4, <2>2, SourceOthers DEF Source!Alone
    <3>1. Place(d) # "start" /\ Source!Alone(d)
      <4>1. pc'[d] = <<"source", Place(d)'>>
        BY <1>1 DEF Source!TypeOK, Source!Places, Place
      <4>2. Place(d)' # "start"
        BY <1>4, <4>1 DEF Source!Alone, Source!Begun, Source!At
      <4> QED BY <3>0, <4>2, SourcePlaces DEF Source!Alone, Source!Begun
    <3>2. SourceFits(d) /\ Source!Patched(d)' = Source!Patched(d)
      BY <3>0, <3>1 DEF Source!Patched
    <3> QED BY <2>2, <3>0, <3>1, <3>2, SourceOthers DEF SourceFits
  <2> QED BY <2>1, <2>2
<1> QED BY <1>1, <1>2, <1>3, <1>4


LEMMA SourceInit == ASSUME Source!Init, Works("source") PROVE SourceInv
<1>1. Source!TypeOK
  BY DEF Source!Init, Source!CallsInit, Source!TypeOK, Source!Places, Source!Texts,
         Source!Labels, Source!Reports
<1>2. ASSUME NEW c \in Calls PROVE ~ Source!Alone(c) /\ Place(c) = "start" /\ report[c] = "none"
  BY DEF Source!Init, Source!CallsInit, Source!Alone, Source!Begun, Source!At, Place
<1> QED BY <1>1, <1>2 DEF SourceInv

LEMMA SourceStutters == ASSUME SourceInv, UNCHANGED vars PROVE SourceInv'
  BY DEF SourceInv, vars, Source!TypeOK, Source!Alone, Source!Begun, Source!At, SourceFits, Place,
         Source!BackupOf, Source!Patched

LEMMA SourceHolds == Spec => [](Works("source") => SourceInv)
<1>1. Init => (Works("source") => SourceInv)
  BY InitWorks, WorksAlone, SourceInit
<1>2. ASSUME OneWorks, Works("source") => SourceInv, [Next]_vars, Works("source")'
      PROVE  SourceInv'
  <2>1. Works("source")
    BY <1>2, WorksOn DEF OneWorks
  <2>2. CASE Next
    BY <1>2, <2>1, <2>2, OneExecutor, SourceStep DEF Source!Next
  <2> QED BY <1>2, <2>1, <2>2, SourceStutters
<1> QED BY <1>1, <1>2, OneExecutorWorks, PTL DEF Spec

\* ApplySourceEdit: for any number of edits of one file, at any places of it and in any
\* seconds, the text that an undisturbed call has found is in the file or in its backup.
THEOREM TextRecoverable == Spec => []TextIsRecoverable
<1>1. ASSUME SourceInv PROVE Source!TextIsRecoverable
  <2>1. ASSUME NEW c \in Calls, Source!Alone(c), report[c] # "declined"
        PROVE  mem[c] \in {disk.source, Source!BackupOf(c)}
    BY <1>1, <2>1, SourcePlaces DEF SourceInv, SourceFits, Source!Alone, Source!Begun, Source!Labels
  <2> QED BY <2>1 DEF Source!TextIsRecoverable
<1>2. OneWorks /\ (Works("source") => SourceInv) => TextIsRecoverable
  BY <1>1, RunsWorks DEF TextIsRecoverable
<1> QED BY <1>2, OneExecutorWorks, SourceHolds, PTL

\* ApplySourceEdit: verified, rolled_back and the refusal to write are true of the file,
\* and verified of the service that was restarted.
THEOREM SourceReportsTrue == Spec => []SourceReportIsTrue
<1>1. ASSUME SourceInv PROVE Source!ReportIsTrue
  BY <1>1 DEF SourceInv, SourceFits, Source!ReportIsTrue
<1>2. OneWorks /\ (Works("source") => SourceInv) => SourceReportIsTrue
  BY <1>1, RunsWorks DEF SourceReportIsTrue
<1> QED BY <1>2, OneExecutorWorks, SourceHolds, PTL

-----------------------------------------------------------------------------
(* envvars.Run                                                             *)

\* The env file is as it was found until it is opened; before that the manifest lists
\* what was found.
EnvFits(c) ==
    LET Kept == disk.file = mem[c].found
        Listed == Env!ManifestOf(c) = [content |-> mem[c].found]
    IN  /\ Place(c) \in {"manifest", "listing", "patch"} => Kept
        /\ Place(c) \in {"patch", "write", "undo", "restore"} => Listed
        /\ Place(c) = "done" /\ mem[c].missing # {} => Kept \/ Listed

\* A call that has not begun has not planned anything.
EnvInv ==
    /\ Env!TypeOK
    /\ \A c \in Calls :
          /\ Place(c) = "start" => mem[c].missing = {}
          /\ Env!Alone(c) => EnvFits(c)

LEMMA EnvPlaces ==
    ASSUME Env!TypeOK, NEW c \in Calls
    PROVE  /\ Works("env")
           /\ \A l : Env!At(c, l) <=> Place(c) = l
           /\ \A labels : Env!Among(c, labels) <=> Place(c) \in labels
           /\ \A l : Env!Goto(c, l) =>
                 Place(c)' = l /\ \A d \in Calls \ {c} : Place(d)' = Place(d)
           /\ Place(c) \in Env!Labels
<1>1. Works("env") /\ Place(c) \in Env!Labels
  BY DEF Env!TypeOK, Env!Places, Works, Place
<1> QED BY <1>1, Placing DEF Env!At, Env!Among, Env!Places, Env!Goto

EnvEntries == {Torn, NoFile} \cup [content : Env!Files]

LEMMA EnvWrites ==
    ASSUME Env!TypeOK, NEW c \in Calls
    PROVE  /\ \A content \in Env!Files : Env!SetFile(c, content) =>
                /\ disk' = [file |-> content, manifest |-> disk.manifest]
                /\ disk'.file = content /\ disk'.manifest = disk.manifest
                /\ \A d \in Calls \ {c} : ~ Env!At(d, "start") => d \in mixed'
           /\ \A content \in EnvEntries : Env!SetManifest(c, content) =>
                /\ disk' = [file |-> disk.file,
                            manifest |-> [disk.manifest EXCEPT ![StampOf[c]] = content]]
                /\ disk'.file = disk.file /\ Env!ManifestOf(c)' = content
                /\ \A d \in Calls \ {c} : ~ Env!At(d, "start") =>
                      d \in mixed' \/ Env!ManifestOf(d)' = Env!ManifestOf(d)
           /\ \A content : Env!SetFile(c, content) \/ Env!SetManifest(c, content) =>
                mixed \subseteq mixed' /\ mixed' \subseteq Calls
<1>1. \A d \in Calls : StampOf[d] \in Env!Stamps
  BY DEF Env!Stamps
<1>2. ASSUME NEW content \in Env!Files, Env!SetFile(c, content)
      PROVE  disk' = [file |-> content, manifest |-> disk.manifest]
  BY <1>2 DEF Env!SetFile, Env!TypeOK
<1>3. ASSUME NEW content \in EnvEntries, Env!SetManifest(c, content)
      PROVE  disk' = [file |-> disk.file,
                      manifest |-> [disk.manifest EXCEPT ![StampOf[c]] = content]]
  BY <1>3 DEF Env!SetManifest, Env!TypeOK
<1>4. ASSUME NEW content, Env!SetFile(c, content) \/ Env!SetManifest(c, content)
      PROVE  mixed \subseteq mixed' /\ mixed' \subseteq Calls
  BY <1>4 DEF Env!SetFile, Env!SetManifest, Env!Mix, Env!Sharing, Env!TypeOK
<1>5. ASSUME NEW content \in Env!Files, Env!SetFile(c, content), NEW d \in Calls \ {c},
             ~ Env!At(d, "start")
      PROVE  d \in mixed'
  BY <1>5 DEF Env!SetFile, Env!Mix, Env!Begun
<1>6. ASSUME NEW content \in EnvEntries, Env!SetManifest(c, content), NEW d \in Calls \ {c},
             ~ Env!At(d, "start")
      PROVE  d \in mixed' \/ Env!ManifestOf(d)' = Env!ManifestOf(d)
  BY <1>1, <1>3, <1>6
  DEF Env!SetManifest, Env!Mix, Env!Begun, Env!Sharing, Env!ManifestOf, Env!TypeOK
<1>7. ASSUME NEW content \in EnvEntries, Env!SetManifest(c, content)
      PROVE  Env!ManifestOf(c)' = content
  BY <1>1, <1>3, <1>7 DEF Env!ManifestOf, Env!TypeOK
<1> QED BY <1>2, <1>3, <1>4, <1>5, <1>6, <1>7

\* What a step writes, plans and answers.
LEMMA EnvSteps ==
    ASSUME EnvInv, NEW c \in Calls, Env!Step(c)
    PROVE  /\ \/ \E content \in Env!Files : Env!SetFile(c, content)
              \/ \E content \in EnvEntries : Env!SetManifest(c, content)
              \/ mixed' = mixed /\ disk' = disk
           /\ \/ mem' = mem
              \/ \E missing \in SUBSET Names, found \in Env!Files :
                    mem' = [mem EXCEPT ![c] = [missing |-> missing, found |-> found]]
           /\ \/ report' = report
              \/ \E answer \in Env!Reports : report' = [report EXCEPT ![c] = answer]
           /\ \E l \in Env!Labels \ {"start"} : Env!Goto(c, l)
<1> USE DEF Env!Step
<1>0. /\ disk.file \in Env!Files /\ mem[c].found \in Env!Files /\ mem[c].missing \in SUBSET Names
      /\ Env!ManifestOf(c) \in EnvEntries
      /\ Env!Written(c) \in Env!Files /\ Required[c] \in SUBSET Names
      /\ Torn \in Env!Files /\ NoFile \in Env!Files
      /\ mem[c] = [missing |-> mem[c].missing, found |-> mem[c].found]
  <2>1. disk.file \in Env!Files /\ mem[c] \in [missing : SUBSET Names, found : Env!Files]
    BY DEF EnvInv, Env!TypeOK
  <2>2. Env!ManifestOf(c) \in EnvEntries
    BY DEF EnvInv, Env!TypeOK, Env!ManifestOf, Env!Stamps, EnvEntries
  <2>3. Env!Written(c) \in Env!Contents
    BY DEF Env!Written, Env!Contents
  <2>4. Required[c] \in SUBSET Names
    BY LocalExecutorsAssumption DEF LocalExecutorsAssumption
  <2> QED BY <2>1, <2>2, <2>3, <2>4 DEF Env!Files
<1>1. \/ mem' = mem
      \/ \E missing \in SUBSET Names, found \in Env!Files :
            mem' = [mem EXCEPT ![c] = [missing |-> missing, found |-> found]]
  <2>1. CASE Env!OpenUndo(c)
    <3>1. Env!ManifestOf(c).content \in Env!Files
      BY <1>0, <2>1 DEF Env!OpenUndo, Env!IsManifest, EnvEntries
    <3>2. [mem[c] EXCEPT !.found = Env!ManifestOf(c).content] =
              [missing |-> mem[c].missing, found |-> Env!ManifestOf(c).content]
      BY DEF EnvInv, Env!TypeOK
    <3>3. mem' = [mem EXCEPT ![c] = [missing |-> mem[c].missing,
                                     found |-> Env!ManifestOf(c).content]]
      BY <2>1, <3>2 DEF Env!OpenUndo
    <3> QED BY <1>0, <3>1, <3>3
  <2>2. CASE Env!ReadFile(c)
    BY <1>0, <2>2 DEF Env!ReadFile
  <2> QED
    BY <2>1, <2>2
    DEF Env!NothingMissing, Env!Block, Env!Plan, Env!OpenManifest, Env!FillManifest,
        Env!FailManifest, Env!OpenFile, Env!FillFile, Env!FailFile, Env!RemoveFile,
        Env!FillUndo, Env!FailUndo, Env!Crash
<1>2. \/ report' = report
      \/ \E answer \in Env!Reports : report' = [report EXCEPT ![c] = answer]
  BY DEF Env!NothingMissing, Env!Block, Env!Plan, Env!ReadFile, Env!OpenManifest,
         Env!FillManifest, Env!FailManifest, Env!OpenFile, Env!FillFile, Env!FailFile,
         Env!RemoveFile, Env!OpenUndo, Env!FillUndo, Env!FailUndo, Env!Crash,
         Env!Return, Env!Reports
<1>3. \E l \in Env!Labels \ {"start"} : Env!Goto(c, l)
  BY DEF Env!NothingMissing, Env!Block, Env!Plan, Env!ReadFile, Env!OpenManifest,
         Env!FillManifest, Env!FailManifest, Env!OpenFile, Env!FillFile, Env!FailFile,
         Env!RemoveFile, Env!OpenUndo, Env!FillUndo, Env!FailUndo, Env!Crash,
         Env!Return, Env!Labels
<1>4. \/ \E content \in {Torn, NoFile, Env!Written(c), mem[c].found} : Env!SetFile(c, content)
      \/ \E content \in {Torn, [content |-> mem[c].found]} : Env!SetManifest(c, content)
      \/ mixed' = mixed /\ disk' = disk
  BY DEF Env!NothingMissing, Env!Block, Env!Plan, Env!ReadFile, Env!OpenManifest,
         Env!FillManifest, Env!FailManifest, Env!OpenFile, Env!FillFile, Env!FailFile,
         Env!RemoveFile, Env!OpenUndo, Env!FillUndo, Env!FailUndo, Env!Crash, Env!Quiet
<1>5. {Torn, [content |-> mem[c].found]} \subseteq EnvEntries
  BY <1>0 DEF EnvEntries
<1> QED BY <1>0, <1>1, <1>2, <1>3, <1>4, <1>5

LEMMA EnvTyped ==
    ASSUME EnvInv, NEW c \in Calls, Env!Step(c)
    PROVE  Env!TypeOK'
<1> USE DEF EnvInv
<1>1. disk' \in [file : Env!Files, manifest : [Env!Stamps -> EnvEntries]] /\ mixed' \subseteq Calls
  <2>1. disk \in [file : Env!Files, manifest : [Env!Stamps -> EnvEntries]]
    BY DEF Env!TypeOK, EnvEntries
  <2>2. CASE \E content \in Env!Files : Env!SetFile(c, content)
    BY <2>1, <2>2, EnvWrites
  <2>3. CASE \E content \in EnvEntries : Env!SetManifest(c, content)
    BY <2>1, <2>3, EnvWrites
  <2>4. CASE mixed' = mixed /\ disk' = disk
    BY <2>1, <2>4 DEF Env!TypeOK
  <2> QED BY <2>2, <2>3, <2>4, EnvSteps
<1>2. mem' \in [Calls -> [missing : SUBSET Names, found : Env!Files]]
  BY EnvSteps DEF Env!TypeOK
<1>3. report' \in [Calls -> Env!Reports]
  BY EnvSteps DEF Env!TypeOK
<1>4. pc' \in [Calls -> Env!Places(Env!Labels)]
  BY EnvSteps DEF Env!TypeOK, Env!Goto, Env!Places
<1> QED BY <1>1, <1>2, <1>3, <1>4 DEF Env!TypeOK, EnvEntries, Env!Files, Env!Contents

\* The calls other than the one that takes a step.
LEMMA EnvOthers ==
    ASSUME EnvInv, NEW c \in Calls, Env!Step(c), NEW d \in Calls \ {c}
    PROVE  /\ Place(d)' = Place(d) /\ mem'[d] = mem[d]
           /\ d \in mixed => d \in mixed'
           /\ Place(d) # "start" /\ d \notin mixed' =>
                 disk'.file = disk.file /\ Env!ManifestOf(d)' = Env!ManifestOf(d)
<1> USE DEF EnvInv
<1>1. Place(d)' = Place(d) /\ mem'[d] = mem[d]
  BY EnvSteps, EnvPlaces DEF Env!TypeOK
<1>2. CASE \E content \in Env!Files : Env!SetFile(c, content)
  BY <1>1, <1>2, EnvWrites, EnvPlaces DEF Env!ManifestOf
<1>3. CASE \E content \in EnvEntries : Env!SetManifest(c, content)
  BY <1>1, <1>3, EnvWrites, EnvPlaces
<1>4. CASE disk' = disk /\ mixed' = mixed
  BY <1>1, <1>4 DEF Env!ManifestOf
<1> QED BY <1>2, <1>3, <1>4, EnvSteps

\* The call that takes a step: what it finds is what it has left.
LEMMA EnvOwn ==
    ASSUME EnvInv, NEW c \in Calls, Env!Step(c), Env!Alone(c)'
    PROVE  EnvFits(c)'
<1> DEFINE Listing == [content |-> mem[c].found]
<1> USE DEF EnvInv
<1>0. /\ Place(c) \in Env!Labels
      /\ Place(c) # "start" => EnvFits(c)
      /\ Place(c) = "start" => mem[c].missing = {}
      /\ Torn \in Env!Files /\ NoFile \in Env!Files /\ Env!Written(c) \in Env!Files
      /\ mem[c].found \in Env!Files /\ Torn \in EnvEntries /\ Listing \in EnvEntries
  <2>1. mixed \subseteq mixed'
    BY EnvSteps, EnvWrites
  <2>2. c \notin mixed
    BY <2>1 DEF Env!Alone
  <2>3. mem[c] \in [missing : SUBSET Names, found : Env!Files]
    BY DEF Env!TypeOK
  <2>4. Env!Written(c) \in Env!Contents
    BY DEF Env!Written, Env!Contents
  <2> QED
    BY <2>2, <2>3, <2>4, EnvPlaces DEF Env!Alone, Env!Begun, Env!Files, EnvEntries
<1>1. CASE Env!NothingMissing(c) \/ Env!Block(c) \/ Env!Plan(c)
  <2>1. Place(c)' = "done" /\ mem' = mem /\ mem[c].missing = {}
    BY <1>0, <1>1, EnvPlaces DEF Env!NothingMissing, Env!Block, Env!Plan, Env!Return
  <2> QED BY <2>1 DEF EnvFits
<1>2. CASE Env!ReadFile(c)
  <2>1. Place(c)' = "manifest" /\ disk' = disk /\ mem'[c].found = disk.file
    BY <1>2, EnvPlaces DEF Env!ReadFile, Env!Quiet, Env!TypeOK
  <2> QED BY <2>1 DEF EnvFits
<1>3. CASE Env!OpenManifest(c) \/ Env!FillManifest(c)
  <2>1. PICK content \in {Torn, Listing} :
            /\ Env!SetManifest(c, content)
            /\ Env!FillManifest(c) => content = Listing
    BY <1>3 DEF Env!OpenManifest, Env!FillManifest
  <2>2. disk'.file = disk.file /\ Env!ManifestOf(c)' = content
    BY <1>0, <2>1, EnvWrites
  <2>3. /\ mem' = mem
        /\ \/ Place(c) = "manifest" /\ Place(c)' = "listing"
           \/ Place(c) = "listing" /\ Place(c)' = "patch" /\ Env!FillManifest(c)
    BY <1>3, EnvPlaces DEF Env!OpenManifest, Env!FillManifest
  <2> QED BY <1>0, <2>1, <2>2, <2>3 DEF EnvFits
<1>4. CASE Env!FailManifest(c) \/ Env!FailFile(c) \/ Env!FailUndo(c) \/ Env!Crash(c)
  <2>1. disk' = disk /\ mem' = mem
    BY <1>4 DEF Env!FailManifest, Env!FailFile, Env!FailUndo, Env!Crash, Env!Quiet
  <2>2. \/ Place(c) \in {"patch", "write"} /\ Place(c)' = "undo"
        \/ Place(c) # "done" /\ Place(c)' = "done"
    BY <1>4, EnvPlaces
    DEF Env!FailManifest, Env!FailFile, Env!FailUndo, Env!Crash, Env!Return
  <2> QED BY <1>0, <2>1, <2>2 DEF EnvFits, Env!ManifestOf, Env!Labels
<1>5. CASE Env!OpenFile(c) \/ Env!FillFile(c) \/ Env!RemoveFile(c)
  <2>1. PICK content \in Env!Files : Env!SetFile(c, content)
    BY <1>0, <1>5 DEF Env!OpenFile, Env!FillFile, Env!RemoveFile
  <2>2. disk'.manifest = disk.manifest /\ mem' = mem
    BY <1>5, <2>1, EnvWrites DEF Env!OpenFile, Env!FillFile, Env!RemoveFile
  <2>3. /\ Place(c) \in {"patch", "write", "undo"}
        /\ Place(c)' \in {"write", "done"}
    BY <1>5, EnvPlaces DEF Env!OpenFile, Env!FillFile, Env!RemoveFile, Env!Return
  <2> QED BY <1>0, <2>2, <2>3 DEF EnvFits, Env!ManifestOf
<1>6. CASE Env!OpenUndo(c)
  <2>1. Place(c) = "undo" /\ Place(c)' = "restore" /\ Env!ManifestOf(c) = Listing
    BY <1>0, <1>6, EnvPlaces DEF Env!OpenUndo, EnvFits
  <2>2. disk'.manifest = disk.manifest
    BY <1>0, <1>6, EnvWrites DEF Env!OpenUndo
  <2>3. mem'[c].found = mem[c].found
    BY <1>6, <2>1 DEF Env!OpenUndo, Env!TypeOK
  <2> QED BY <2>1, <2>2, <2>3 DEF EnvFits, Env!ManifestOf
<1>7. CASE Env!FillUndo(c)
  <2>1. disk'.file = mem[c].found /\ mem' = mem
    BY <1>0, <1>7, EnvWrites DEF Env!FillUndo
  <2>2. Place(c)' = "done"
    BY <1>7, EnvPlaces DEF Env!FillUndo, Env!Return
  <2> QED BY <2>1, <2>2 DEF EnvFits
<1> QED BY <1>1, <1>2, <1>3, <1>4, <1>5, <1>6, <1>7 DEF Env!Step

\* Every step of a call keeps the invariant.
LEMMA EnvStep ==
    ASSUME EnvInv, NEW c \in Calls, Env!Step(c)
    PROVE  EnvInv'
<1> USE DEF EnvInv
<1>1. Env!TypeOK'
  BY EnvTyped
<1>2. ASSUME NEW d \in Calls, Place(d)' = "start" PROVE mem'[d].missing = {}
  <2>1. d # c
    BY <1>2, EnvSteps, EnvPlaces
  <2> QED BY <1>2, <2>1, EnvOthers
<1>3. ASSUME NEW d \in Calls, Env!Alone(d)' PROVE EnvFits(d)'
  <2>1. CASE d = c
    BY <1>3, <2>1, EnvOwn
  <2>2. CASE d # c
    <3>1. Place(d)' = Place(d) /\ mem'[d] = mem[d] /\ d \notin mixed /\ d \notin mixed'
      BY <1>3, <2>2, EnvOthers DEF Env!Alone
    <3>2. Place(d) # "start" /\ Env!Alone(d)
      <4>1. pc'[d] = <<"env", Place(d)'>>
        BY <1>1 DEF Env!TypeOK, Env!Places, Place
      <4>2. Place(d)' # "start"
        BY <1>3, <4>1 DEF Env!Alone, Env!Begun, Env!At
      <4> QED BY <3>1, <4>2, EnvPlaces DEF Env!Alone, Env!Begun
    <3> QED BY <2>2, <3>1, <3>2, EnvOthers DEF EnvFits
  <2> QED BY <2>1, <2>2
<1> QED BY <1>1, <1>2, <1>3

LEMMA EnvInit == ASSUME Env!Init, Works("env") PROVE EnvInv
<1>1. Env!TypeOK
  BY DEF Env!Init, Env!CallsInit, Env!TypeOK, Env!Places, Env!Files, Env!Labels, Env!Reports
<1>2. ASSUME NEW c \in Calls PROVE ~ Env!Alone(c) /\ mem[c].missing = {}
  BY DEF Env!Init, Env!CallsInit, Env!Alone, Env!Begun, Env!At
<1> QED BY <1>1, <1>2 DEF EnvInv

LEMMA EnvStutters == ASSUME EnvInv, UNCHANGED vars PROVE EnvInv'
  BY DEF EnvInv, vars, Env!TypeOK, Env!Alone, Env!Begun, Env!At, EnvFits, Place,
         Env!ManifestOf

LEMMA EnvHolds == Spec => [](Works("env") => EnvInv)
<1>1. Init => (Works("env") => EnvInv)
  BY InitWorks, WorksAlone, EnvInit
<1>2. ASSUME OneWorks, Works("env") => EnvInv, [Next]_vars, Works("env")'
      PROVE  EnvInv'
  <2>1. Works("env")
    BY <1>2, WorksOn DEF OneWorks
  <2>2. CASE Next
    BY <1>2, <2>1, <2>2, OneExecutor, EnvStep DEF Env!Next
  <2> QED BY <1>2, <2>1, <2>2, EnvStutters
<1> QED BY <1>1, <1>2, OneExecutorWorks, PTL DEF Spec

\* envvars.Run: for any variables, policies and number of calls, every line that the env
\* file had is in it or in the manifest of an undisturbed call.
THEOREM EnvRecoverable == Spec => []EnvIsRecoverable
<1>1. ASSUME EnvInv PROVE Env!EnvIsRecoverable
  BY <1>1, EnvPlaces
  DEF EnvInv, EnvFits, Env!EnvIsRecoverable, Env!Alone, Env!Begun, Env!Labels
<1>2. OneWorks /\ (Works("env") => EnvInv) => EnvIsRecoverable
  BY <1>1, RunsWorks DEF EnvIsRecoverable
<1> QED BY <1>2, OneExecutorWorks, EnvHolds, PTL

-----------------------------------------------------------------------------
(* laravel.Run                                                             *)

\* The marker is complete before the class file is opened, and the class file is the
\* stub from the end of its write on.
StubFits(c) ==
    LET Gone == disk.file = NoFile
        Marked == Stub!MarkerOf(c) = "marker"
        Stubbed == disk.file = "stub"
    IN  /\ Place(c) \in {"mark", "marking", "check", "open"} => Gone
        /\ Place(c) \in {"check", "open", "write", "lint", "probe", "undo"} => Marked
        /\ Place(c) \in {"lint", "probe"} => Stubbed
        /\ Place(c) = "done" /\ mem[c] # Torn =>
              /\ Gone \/ Marked
              /\ report[c] = "succeeded" => Stubbed
              /\ report[c] \in {"error", "failed"} /\ mem[c] # "kept" => Gone

\* A call that has not looked at the class file has not selected it, and one that has
\* not ended has not answered.
StubInv ==
    /\ Stub!TypeOK
    /\ \A c \in Calls :
          /\ Place(c) = "start" => mem[c] = Torn
          /\ Place(c) # "done" => report[c] = "none"
          /\ Stub!Alone(c) => StubFits(c)

LEMMA StubPlaces ==
    ASSUME Stub!TypeOK, NEW c \in Calls
    PROVE  /\ Works("laravel")
           /\ \A l : Stub!At(c, l) <=> Place(c) = l
           /\ \A labels : Stub!Among(c, labels) <=> Place(c) \in labels
           /\ \A l : Stub!Goto(c, l) =>
                 Place(c)' = l /\ \A d \in Calls \ {c} : Place(d)' = Place(d)
           /\ Place(c) \in Stub!Labels
<1>1. Works("laravel") /\ Place(c) \in Stub!Labels
  BY DEF Stub!TypeOK, Stub!Places, Works, Place
<1> QED BY <1>1, Placing DEF Stub!At, Stub!Among, Stub!Places, Stub!Goto

StubMarkers == {NoFile, Torn, "marker"}

LEMMA StubWrites ==
    ASSUME Stub!TypeOK, NEW c \in Calls
    PROVE  /\ \A content \in Stub!Contents : Stub!SetFile(c, content) =>
                /\ disk' = [file |-> content, marker |-> disk.marker]
                /\ disk'.file = content /\ disk'.marker = disk.marker
                /\ \A d \in Calls \ {c} : ~ Stub!At(d, "start") => d \in mixed'
           /\ \A content \in StubMarkers : Stub!SetMarker(c, content) =>
                /\ disk' = [file |-> disk.file,
                            marker |-> [disk.marker EXCEPT ![StampOf[c]] = content]]
                /\ disk'.file = disk.file /\ Stub!MarkerOf(c)' = content
                /\ \A d \in Calls \ {c} : ~ Stub!At(d, "start") =>
                      d \in mixed' \/ Stub!MarkerOf(d)' = Stub!MarkerOf(d)
           /\ \A content : Stub!SetFile(c, content) \/ Stub!SetMarker(c, content) =>
                mixed \subseteq mixed' /\ mixed' \subseteq Calls
<1>1. \A d \in Calls : StampOf[d] \in Stub!Stamps
  BY DEF Stub!Stamps
<1>2. ASSUME NEW content \in Stub!Contents, Stub!SetFile(c, content)
      PROVE  disk' = [file |-> content, marker |-> disk.marker]
  BY <1>2 DEF Stub!SetFile, Stub!TypeOK
<1>3. ASSUME NEW content \in StubMarkers, Stub!SetMarker(c, content)
      PROVE  disk' = [file |-> disk.file,
                      marker |-> [disk.marker EXCEPT ![StampOf[c]] = content]]
  BY <1>3 DEF Stub!SetMarker, Stub!TypeOK
<1>4. ASSUME NEW content, Stub!SetFile(c, content) \/ Stub!SetMarker(c, content)
      PROVE  mixed \subseteq mixed' /\ mixed' \subseteq Calls
  BY <1>4 DEF Stub!SetFile, Stub!SetMarker, Stub!Mix, Stub!Sharing, Stub!TypeOK
<1>5. ASSUME NEW content \in Stub!Contents, Stub!SetFile(c, content), NEW d \in Calls \ {c},
             ~ Stub!At(d, "start")
      PROVE  d \in mixed'
  BY <1>5 DEF Stub!SetFile, Stub!Mix, Stub!Begun
<1>6. ASSUME NEW content \in StubMarkers, Stub!SetMarker(c, content), NEW d \in Calls \ {c},
             ~ Stub!At(d, "start")
      PROVE  d \in mixed' \/ Stub!MarkerOf(d)' = Stub!MarkerOf(d)
  BY <1>1, <1>3, <1>6
  DEF Stub!SetMarker, Stub!Mix, Stub!Begun, Stub!Sharing, Stub!MarkerOf, Stub!TypeOK
<1>7. ASSUME NEW content \in StubMarkers, Stub!SetMarker(c, content)
      PROVE  Stub!MarkerOf(c)' = content
  BY <1>1, <1>3, <1>7 DEF Stub!MarkerOf, Stub!TypeOK
<1> QED BY <1>2, <1>3, <1>4, <1>5, <1>6, <1>7

\* What a step writes, finds and answers.
LEMMA StubSteps ==
    ASSUME StubInv, NEW c \in Calls, Stub!Step(c)
    PROVE  /\ \/ \E content \in {Torn, NoFile, "stub"} : Stub!SetFile(c, content)
              \/ \E content \in StubMarkers : Stub!SetMarker(c, content)
              \/ mixed' = mixed /\ disk' = disk
           /\ \/ mem' = mem
              \/ \E found \in {NoFile, "kept"} : mem' = [mem EXCEPT ![c] = found]
           /\ \/ report' = report
              \/ \E answer \in Stub!Reports : report' = [report EXCEPT ![c] = answer]
           /\ \E l \in Stub!Labels \ {"start"} : Stub!Goto(c, l)
<1> USE DEF Stub!Step
<1>1. \/ mem' = mem
      \/ \E found \in {NoFile, "kept"} : mem' = [mem EXCEPT ![c] = found]
  BY DEF Stub!Decline, Stub!Select, Stub!OpenMarker, Stub!FillMarker, Stub!Check,
         Stub!FailEarly, Stub!OpenStub, Stub!FillStub, Stub!FailStub, Stub!Lint,
         Stub!Fail, Stub!Probe, Stub!Remove, Stub!FailRemove, Stub!Crash
<1>2. \/ report' = report
      \/ \E answer \in Stub!Reports : report' = [report EXCEPT ![c] = answer]
  BY DEF Stub!Decline, Stub!Select, Stub!OpenMarker, Stub!FillMarker, Stub!Check,
         Stub!FailEarly, Stub!OpenStub, Stub!FillStub, Stub!FailStub, Stub!Lint,
         Stub!Fail, Stub!Probe, Stub!Remove, Stub!FailRemove, Stub!Crash,
         Stub!Return, Stub!Reports
<1>3. \E l \in Stub!Labels \ {"start"} : Stub!Goto(c, l)
  BY DEF Stub!Decline, Stub!Select, Stub!OpenMarker, Stub!FillMarker, Stub!Check,
         Stub!FailEarly, Stub!OpenStub, Stub!FillStub, Stub!FailStub, Stub!Lint,
         Stub!Fail, Stub!Probe, Stub!Remove, Stub!FailRemove, Stub!Crash,
         Stub!Return, Stub!Labels
<1>4. \/ \E content \in {Torn, NoFile, "stub"} : Stub!SetFile(c, content)
      \/ \E content \in StubMarkers : Stub!SetMarker(c, content)
      \/ mixed' = mixed /\ disk' = disk
  BY DEF Stub!Decline, Stub!Select, Stub!OpenMarker, Stub!FillMarker, Stub!Check,
         Stub!FailEarly, Stub!OpenStub, Stub!FillStub, Stub!FailStub, Stub!Lint,
         Stub!Fail, Stub!Probe, Stub!Remove, Stub!FailRemove, Stub!Crash,
         Stub!Quiet, StubMarkers
<1> QED BY <1>1, <1>2, <1>3, <1>4

LEMMA StubTyped ==
    ASSUME StubInv, NEW c \in Calls, Stub!Step(c)
    PROVE  Stub!TypeOK'
<1> USE DEF StubInv
<1>1. disk' \in [file : Stub!Contents, marker : [Stub!Stamps -> StubMarkers]]
      /\ mixed' \subseteq Calls
  <2>1. disk \in [file : Stub!Contents, marker : [Stub!Stamps -> StubMarkers]]
    BY DEF Stub!TypeOK, StubMarkers
  <2>2. CASE \E content \in {Torn, NoFile, "stub"} : Stub!SetFile(c, content)
    BY <2>1, <2>2, StubWrites DEF Stub!Contents
  <2>3. CASE \E content \in StubMarkers : Stub!SetMarker(c, content)
    BY <2>1, <2>3, StubWrites
  <2>4. CASE mixed' = mixed /\ disk' = disk
    BY <2>1, <2>4 DEF Stub!TypeOK
  <2> QED BY <2>2, <2>3, <2>4, StubSteps
<1>2. mem' \in [Calls -> {Torn, NoFile, "kept"}]
  BY StubSteps DEF Stub!TypeOK
<1>3. report' \in [Calls -> Stub!Reports]
  BY StubSteps DEF Stub!TypeOK
<1>4. pc' \in [Calls -> Stub!Places(Stub!Labels)]
  BY StubSteps DEF Stub!TypeOK, Stub!Goto, Stub!Places
<1> QED BY <1>1, <1>2, <1>3, <1>4 DEF Stub!TypeOK, StubMarkers, Stub!Contents

\* The calls other than the one that takes a step.
LEMMA StubOthers ==
    ASSUME StubInv, NEW c \in Calls, Stub!Step(c), NEW d \in Calls \ {c}
    PROVE  /\ Place(d)' = Place(d) /\ mem'[d] = mem[d] /\ report'[d] = report[d]
           /\ d \in mixed => d \in mixed'
           /\ Place(d) # "start" /\ d \notin mixed' =>
                 disk'.file = disk.file /\ Stub!MarkerOf(d)' = Stub!MarkerOf(d)
<1> USE DEF StubInv
<1>1. Place(d)' = Place(d) /\ mem'[d] = mem[d] /\ report'[d] = report[d]
  BY StubSteps, StubPlaces DEF Stub!TypeOK
<1>2. CASE \E content \in {Torn, NoFile, "stub"} : Stub!SetFile(c, content)
  BY <1>1, <1>2, StubWrites, StubPlaces DEF Stub!MarkerOf, Stub!Contents
<1>3. CASE \E content \in StubMarkers : Stub!SetMarker(c, content)
  BY <1>1, <1>3, StubWrites, StubPlaces
<1>4. CASE disk' = disk /\ mixed' = mixed
  BY <1>1, <1>4 DEF Stub!MarkerOf
<1> QED BY <1>2, <1>3, <1>4, StubSteps

\* The call that takes a step: what it finds is what it has left.
LEMMA StubOwn ==
    ASSUME StubInv, NEW c \in Calls, Stub!Step(c), Stub!Alone(c)'
    PROVE  StubFits(c)'
<1> USE DEF StubInv
<1>0. /\ Place(c) \in Stub!Labels
      /\ Place(c) # "start" => StubFits(c)
      /\ Place(c) = "start" => mem[c] = Torn
      /\ Place(c) # "done" => report[c] = "none"
      /\ {Torn, NoFile, "stub"} \subseteq Stub!Contents /\ {Torn, "marker"} \subseteq StubMarkers
  <2>1. mixed \subseteq mixed'
    BY StubSteps, StubWrites
  <2>2. c \notin mixed
    BY <2>1 DEF Stub!Alone
  <2> QED
    BY <2>2, StubPlaces DEF Stub!Alone, Stub!Begun, Stub!Contents, StubMarkers
<1>1. CASE Stub!Decline(c)
  <2>1. Place(c)' = "done" /\ mem' = mem /\ mem[c] = Torn
    BY <1>0, <1>1, StubPlaces DEF Stub!Decline, Stub!Return
  <2> QED BY <2>1 DEF StubFits
<1>2. CASE Stub!Select(c)
  <2>1. Place(c)' = "mark" /\ disk' = disk /\ disk.file = NoFile
    BY <1>2, StubPlaces DEF Stub!Select, Stub!Quiet
  <2> QED BY <2>1 DEF StubFits
<1>3. CASE Stub!OpenMarker(c) \/ Stub!FillMarker(c)
  <2>1. PICK content \in {Torn, "marker"} :
            /\ Stub!SetMarker(c, content)
            /\ Stub!FillMarker(c) => content = "marker"
    BY <1>3 DEF Stub!OpenMarker, Stub!FillMarker
  <2>2. disk'.file = disk.file /\ Stub!MarkerOf(c)' = content
    BY <1>0, <2>1, StubWrites
  <2>3. \/ Place(c) = "mark" /\ Place(c)' = "marking"
        \/ Place(c) = "marking" /\ Place(c)' = "check" /\ Stub!FillMarker(c)
    BY <1>3, StubPlaces DEF Stub!OpenMarker, Stub!FillMarker
  <2> QED BY <1>0, <2>1, <2>2, <2>3 DEF StubFits
<1>4. CASE Stub!Check(c) \/ Stub!Lint(c) \/ Stub!Fail(c)
  <2>1. disk' = disk
    BY <1>4 DEF Stub!Check, Stub!Lint, Stub!Fail, Stub!Quiet
  <2>2. \/ Place(c) = "check" /\ Place(c)' = "open"
        \/ Place(c) = "lint" /\ Place(c)' = "probe"
        \/ Place(c) \in {"lint", "probe"} /\ Place(c)' = "undo"
    BY <1>4, StubPlaces DEF Stub!Check, Stub!Lint, Stub!Fail
  <2> QED BY <1>0, <2>1, <2>2 DEF StubFits, Stub!MarkerOf
<1>5. CASE Stub!FailEarly(c) \/ Stub!FailStub(c) \/ Stub!Probe(c) \/ Stub!Crash(c)
  <2>1. disk' = disk /\ mem' = mem /\ Place(c)' = "done"
    BY <1>5, StubPlaces
    DEF Stub!FailEarly, Stub!FailStub, Stub!Probe, Stub!Crash, Stub!Quiet, Stub!Return
  <2>2. \/ Place(c) \in {"mark", "marking", "check", "open"} /\ report'[c] = "error"
        \/ Place(c) = "write" /\ report'[c] = "half_written"
        \/ Place(c) = "probe" /\ report'[c] = "succeeded"
        \/ Place(c) \notin {"start", "done"} /\ report'[c] = "crashed"
    BY <1>5, StubPlaces
    DEF Stub!FailEarly, Stub!FailStub, Stub!Probe, Stub!Crash, Stub!Return, Stub!TypeOK
  <2> QED BY <1>0, <2>1, <2>2 DEF StubFits, Stub!MarkerOf, Stub!Labels
<1>6. CASE Stub!OpenStub(c) \/ Stub!FillStub(c)
  <2>1. PICK content \in {Torn, "stub"} :
            /\ Stub!SetFile(c, content)
            /\ Stub!FillStub(c) => content = "stub"
    BY <1>6 DEF Stub!OpenStub, Stub!FillStub
  <2>2. disk'.file = content /\ disk'.marker = disk.marker
    BY <1>0, <2>1, StubWrites
  <2>3. \/ Place(c) = "open" /\ Place(c)' = "write"
        \/ Place(c) = "write" /\ Place(c)' = "lint" /\ Stub!FillStub(c)
    BY <1>6, StubPlaces DEF Stub!OpenStub, Stub!FillStub
  <2> QED BY <1>0, <2>1, <2>2, <2>3 DEF StubFits, Stub!MarkerOf
<1>7. CASE Stub!Remove(c)
  <2>1. disk'.file = NoFile
    BY <1>0, <1>7, StubWrites DEF Stub!Remove
  <2>2. Place(c)' = "done" /\ report'[c] = "failed"
    BY <1>7, StubPlaces DEF Stub!Remove, Stub!Return, Stub!TypeOK
  <2> QED BY <2>1, <2>2 DEF StubFits
<1>8. CASE Stub!FailRemove(c)
  <2>1. disk' = disk /\ mem'[c] = "kept"
    BY <1>8 DEF Stub!FailRemove, Stub!Quiet, Stub!TypeOK
  <2>2. Place(c) = "undo" /\ Place(c)' = "done" /\ report'[c] = "failed"
    BY <1>8, StubPlaces DEF Stub!FailRemove, Stub!Return, Stub!TypeOK
  <2> QED BY <1>0, <2>1, <2>2 DEF StubFits, Stub!MarkerOf
<1> QED BY <1>1, <1>2, <1>3, <1>4, <1>5, <1>6, <1>7, <1>8 DEF Stub!Step

\* Every step of a call keeps the invariant.
LEMMA StubStep ==
    ASSUME StubInv, NEW c \in Calls, Stub!Step(c)
    PROVE  StubInv'
<1> USE DEF StubInv
<1>1. Stub!TypeOK'
  BY StubTyped
<1>2. ASSUME NEW d \in Calls, Place(d)' = "start" PROVE mem'[d] = Torn
  <2>1. d # c
    BY <1>2, StubSteps, StubPlaces
  <2> QED BY <1>2, <2>1, StubOthers
<1>3. ASSUME NEW d \in Calls, Place(d)' # "done" PROVE report'[d] = "none"
  <2>1. CASE d = c
    BY <1>3, <2>1, StubPlaces
    DEF Stub!Step, Stub!Decline, Stub!Select, Stub!OpenMarker, Stub!FillMarker,
        Stub!Check, Stub!FailEarly, Stub!OpenStub, Stub!FillStub, Stub!FailStub,
        Stub!Lint, Stub!Fail, Stub!Probe, Stub!Remove, Stub!FailRemove, Stub!Crash,
        Stub!Return
  <2> QED BY <1>3, <2>1, StubOthers
<1>4. ASSUME NEW d \in Calls, Stub!Alone(d)' PROVE StubFits(d)'
  <2>1. CASE d = c
    BY <1>4, <2>1, StubOwn
  <2>2. CASE d # c
    <3>1. /\ Place(d)' = Place(d) /\ mem'[d] = mem[d] /\ report'[d] = report[d]
          /\ d \notin mixed /\ d \notin mixed'
      BY <1>4, <2>2, StubOthers DEF Stub!Alone
    <3>2. Place(d) # "start" /\ Stub!Alone(d)
      <4>1. pc'[d] = <<"laravel", Place(d)'>>
        BY <1>1 DEF Stub!TypeOK, Stub!Places, Place
      <4>2. Place(d)' # "start"
        BY <1>4, <4>1 DEF Stub!Alone, Stub!Begun, Stub!At
      <4> QED BY <3>1, <4>2, StubPlaces DEF Stub!Alone, Stub!Begun
    <3> QED BY <2>2, <3>1, <3>2, StubOthers DEF StubFits
  <2> QED BY <2>1, <2>2
<1> QED BY <1>1, <1>2, <1>3, <1>4

\* A developer disturbs every call that has begun.
LEMMA StubEdited == ASSUME StubInv, Stub!DeveloperWrites PROVE StubInv'
<1> USE DEF StubInv, Stub!DeveloperWrites
<1>1. Stub!TypeOK'
  <2>1. PICK content \in {"custom", NoFile} : disk' = [disk EXCEPT !.file = content]
    OBVIOUS
  <2> QED BY <2>1 DEF Stub!TypeOK, Stub!Contents
<1>2. ASSUME NEW c \in Calls PROVE ~ Stub!Alone(c)'
  BY DEF Stub!Alone, Stub!Begun, Stub!At
<1> QED BY <1>1, <1>2 DEF Place

LEMMA StubInit == ASSUME Stub!Init, Works("laravel") PROVE StubInv
<1>1. Stub!TypeOK
  BY DEF Stub!Init, Stub!CallsInit, Stub!TypeOK, Stub!Places, Stub!Contents, Stub!Labels,
         Stub!Reports
<1>2. ASSUME NEW c \in Calls PROVE ~ Stub!Alone(c) /\ mem[c] = Torn /\ report[c] = "none"
  BY DEF Stub!Init, Stub!CallsInit, Stub!Alone, Stub!Begun, Stub!At
<1> QED BY <1>1, <1>2 DEF StubInv

LEMMA StubStutters == ASSUME StubInv, UNCHANGED vars PROVE StubInv'
  BY DEF StubInv, vars, Stub!TypeOK, Stub!Alone, Stub!Begun, Stub!At, StubFits, Place,
         Stub!MarkerOf

LEMMA StubHolds == Spec => [](Works("laravel") => StubInv)
<1>1. Init => (Works("laravel") => StubInv)
  BY InitWorks, WorksAlone, StubInit
<1>2. ASSUME OneWorks, Works("laravel") => StubInv, [Next]_vars, Works("laravel")'
      PROVE  StubInv'
  <2>1. Works("laravel")
    BY <1>2, WorksOn DEF OneWorks
  <2>2. CASE Next
    BY <1>2, <2>1, <2>2, OneExecutor, StubStep, StubEdited DEF Stub!Next
  <2> QED BY <1>2, <2>1, <2>2, StubStutters
<1> QED BY <1>1, <1>2, OneExecutorWorks, PTL DEF Spec

\* laravel.Run: for any number of calls and whatever developers do, an undisturbed call
\* leaves a stub only with its marker, and a failed one leaves none that it may remove.
THEOREM StubMarkedOrGone == Spec => []StubIsMarkedOrGone
<1>1. ASSUME StubInv, NEW c \in Calls, Stub!Alone(c), mem[c] # Torn
      PROVE  /\ disk.file # NoFile => Stub!MarkerOf(c) = "marker"
             /\ report[c] = "succeeded" => disk.file = "stub"
             /\ report[c] \in {"error", "failed"} /\ mem[c] # "kept" => disk.file = NoFile
  BY <1>1, StubPlaces DEF StubInv, StubFits, Stub!Alone, Stub!Begun, Stub!Labels
<1>2. OneWorks /\ (Works("laravel") => StubInv) => StubIsMarkedOrGone
  BY <1>1, RunsWorks DEF StubIsMarkedOrGone, Stub!StubIsMarkedOrGone
<1> QED BY <1>2, OneExecutorWorks, StubHolds, PTL

-----------------------------------------------------------------------------
(* restart.Run                                                             *)

\* A call runs its command, and has run it, only when its options allow that; it
\* verifies after it has run it, and answers once.
RestartInv ==
    /\ Restart!TypeOK
    /\ \A c \in Calls :
          /\ Place(c) = "run" \/ disk.ran[c] => Restart!MayRun(mem[c])
          /\ Place(c) = "verify" => disk.ran[c]
          /\ Place(c) # "done" => report[c] = "none"
          /\ report[c] = "succeeded" =>
                disk.ran[c] /\ (Restart!Alone(c) => disk.service = "fresh")

LEMMA RestartPlaces ==
    ASSUME Restart!TypeOK, NEW c \in Calls
    PROVE  /\ Works("restart")
           /\ \A l : Restart!At(c, l) <=> Place(c) = l
           /\ \A l : Restart!Goto(c, l) =>
                 Place(c)' = l /\ \A d \in Calls \ {c} : Place(d)' = Place(d)
           /\ Place(c) \in Restart!Labels
<1>1. Works("restart") /\ Place(c) \in Restart!Labels
  BY DEF Restart!TypeOK, Restart!Places, Works, Place
<1> QED BY <1>1, Placing DEF Restart!At, Restart!Goto

\* The command of a call marks every other call that has begun.
LEMMA RestartTouches ==
    ASSUME Restart!TypeOK, NEW c \in Calls, NEW service \in {"stale", "fresh", "down"},
           Restart!Touch(c, service)
    PROVE  /\ disk' = [service |-> service, ran |-> [disk.ran EXCEPT ![c] = TRUE]]
           /\ disk'.ran[c] /\ \A d \in Calls \ {c} : disk'.ran[d] = disk.ran[d]
           /\ mixed \subseteq mixed' /\ mixed' \subseteq Calls
           /\ \A d \in Calls \ {c} : ~ Restart!At(d, "start") => d \in mixed'
<1>1. disk' = [service |-> service, ran |-> [disk.ran EXCEPT ![c] = TRUE]]
  BY DEF Restart!Touch, Restart!TypeOK
<1>2. /\ mixed \subseteq mixed' /\ mixed' \subseteq Calls
      /\ \A d \in Calls \ {c} : ~ Restart!At(d, "start") => d \in mixed'
  BY DEF Restart!Touch, Restart!TypeOK, Restart!Mix, Restart!Begun
<1> QED BY <1>1, <1>2 DEF Restart!TypeOK

\* What a step does, place by place.
LEMMA RestartSteps ==
    ASSUME RestartInv, NEW c \in Calls, Restart!Step(c)
    PROVE  /\ mem' = mem
           /\ \/ /\ disk' = disk /\ mixed' = mixed
                 /\ \/ /\ Place(c) = "start" /\ Place(c)' = "run" /\ report' = report
                       /\ Restart!MayRun(mem[c])
                    \/ /\ Place(c)' = "done"
                       /\ \E answer \in Restart!Reports :
                             /\ report' = [report EXCEPT ![c] = answer]
                             /\ answer = "succeeded" =>
                                   Place(c) = "verify" /\ disk.service = "fresh"
              \/ /\ \E service \in {"stale", "fresh", "down"} : Restart!Touch(c, service)
                 /\ Place(c) = "run"
                 /\ \/ Place(c)' = "verify" /\ report' = report
                    \/ /\ Place(c)' = "done"
                       /\ report' = [report EXCEPT ![c] = "command_failed"]
           /\ \E l \in Restart!Labels \ {"start"} : Restart!Goto(c, l)
<1> USE RestartPlaces DEF RestartInv
<1>1. CASE Restart!NoFailures(c) \/ Restart!Block(c) \/ Restart!FailVerify(c) \/ Restart!Crash(c)
  BY <1>1
  DEF Restart!NoFailures, Restart!Block, Restart!FailVerify, Restart!Crash, Restart!Return,
      Restart!Quiet, Restart!Reports, Restart!Labels
<1>2. CASE Restart!Diagnose(c)
  BY <1>2 DEF Restart!Diagnose, Restart!Quiet, Restart!Labels
<1>3. CASE Restart!RunCommand(c)
  BY <1>3 DEF Restart!RunCommand, Restart!Labels, Restart!TypeOK
<1>4. CASE Restart!FailCommand(c)
  BY <1>4 DEF Restart!FailCommand, Restart!Return, Restart!Labels, Restart!TypeOK
<1>5. CASE Restart!Verify(c)
  BY <1>5 DEF Restart!Verify, Restart!Return, Restart!Quiet, Restart!Reports, Restart!Labels
<1> QED BY <1>1, <1>2, <1>3, <1>4, <1>5 DEF Restart!Step

LEMMA RestartTyped ==
    ASSUME RestartInv, NEW c \in Calls, Restart!Step(c)
    PROVE  Restart!TypeOK'
<1> USE DEF RestartInv
<1>1. /\ disk' \in [service : {"stale", "fresh", "down"}, ran : [Calls -> BOOLEAN]]
      /\ mixed' \subseteq Calls
  <2>1. CASE disk' = disk /\ mixed' = mixed
    BY <2>1 DEF Restart!TypeOK
  <2>2. CASE \E service \in {"stale", "fresh", "down"} : Restart!Touch(c, service)
    <3>1. PICK service \in {"stale", "fresh", "down"} :
              disk' = [service |-> service, ran |-> [disk.ran EXCEPT ![c] = TRUE]]
      BY <2>2, RestartTouches
    <3>2. disk.ran \in [Calls -> BOOLEAN]
      BY DEF Restart!TypeOK
    <3>3. mixed' \subseteq Calls
      BY <2>2, RestartTouches
    <3> QED BY <3>1, <3>2, <3>3
  <2> QED BY <2>1, <2>2, RestartSteps
<1>2. report' \in [Calls -> Restart!Reports]
  BY RestartSteps DEF Restart!TypeOK, Restart!Reports
<1>3. pc' \in [Calls -> Restart!Places(Restart!Labels)]
  BY RestartSteps DEF Restart!TypeOK, Restart!Goto, Restart!Places
<1>4. mem' \in [Calls -> Restart!Options]
  BY RestartSteps DEF Restart!TypeOK
<1> QED BY <1>1, <1>2, <1>3, <1>4 DEF Restart!TypeOK

\* Every step of a call keeps the invariant.
LEMMA RestartStep ==
    ASSUME RestartInv, NEW c \in Calls, Restart!Step(c)
    PROVE  RestartInv'
<1> USE DEF RestartInv
<1>1. Restart!TypeOK'
  BY RestartTyped
<1>2. ASSUME NEW d \in Calls
      PROVE  /\ Place(d)' = "run" \/ disk'.ran[d] => Restart!MayRun(mem'[d])
             /\ Place(d)' = "verify" => disk'.ran[d]
             /\ Place(d)' # "done" => report'[d] = "none"
             /\ report'[d] = "succeeded" =>
                   disk'.ran[d] /\ (Restart!Alone(d)' => disk'.service = "fresh")
  <2>0. mem' = mem /\ (Restart!MayRun(mem[d]) <=> Restart!MayRun(mem'[d]))
    BY RestartSteps
  <2>1. CASE d = c
    <3>1. CASE /\ disk' = disk
               /\ Place(c) = "start" /\ Place(c)' = "run" /\ report' = report
               /\ Restart!MayRun(mem[c])
      BY <2>0, <2>1, <3>1
    <3>2. CASE /\ disk' = disk /\ Place(c)' = "done"
               /\ \E answer \in Restart!Reports :
                     /\ report' = [report EXCEPT ![c] = answer]
                     /\ answer = "succeeded" => Place(c) = "verify" /\ disk.service = "fresh"
      BY <2>0, <2>1, <3>2 DEF Restart!TypeOK
    <3>3. CASE /\ \E service \in {"stale", "fresh", "down"} : Restart!Touch(c, service)
               /\ Place(c) = "run"
      <4>1. disk'.ran[c] /\ Restart!MayRun(mem'[c])
        BY <2>0, <2>1, <3>3, RestartTouches
      <4>2. /\ Place(c)' # "done" => report'[c] = "none"
            /\ report'[c] # "succeeded"
        BY <3>3, RestartSteps DEF Restart!TypeOK
      <4> QED BY <2>1, <4>1, <4>2
    <3> QED BY <3>1, <3>2, <3>3, RestartSteps
  <2>2. CASE d # c
    <3>1. Place(d)' = Place(d) /\ report'[d] = report[d] /\ pc'[d] = pc[d]
      BY <2>2, RestartSteps, RestartPlaces DEF Restart!TypeOK, Restart!Goto
    <3>2. CASE disk' = disk /\ mixed' = mixed
      BY <2>0, <3>1, <3>2 DEF Restart!Alone, Restart!Begun, Restart!At
    <3>3. CASE \E service \in {"stale", "fresh", "down"} : Restart!Touch(c, service)
      <4>1. disk'.ran[d] = disk.ran[d] /\ (~ Restart!At(d, "start") => d \in mixed')
        BY <2>2, <3>3, RestartTouches
      <4> QED BY <2>0, <3>1, <4>1, RestartPlaces DEF Restart!Alone
    <3> QED BY <3>2, <3>3, RestartSteps
  <2> QED BY <2>1, <2>2
<1> QED BY <1>1, <1>2

LEMMA RestartInit == ASSUME Restart!Init, Works("restart") PROVE RestartInv
<1>1. Restart!TypeOK
  BY DEF Restart!Init, Restart!CallsInit, Restart!TypeOK, Restart!Places, Restart!Labels,
         Restart!Reports
<1>2. ASSUME NEW c \in Calls
      PROVE  Place(c) = "start" /\ ~ disk.ran[c] /\ report[c] = "none"
  BY DEF Restart!Init, Restart!CallsInit, Place
<1> QED BY <1>1, <1>2 DEF RestartInv

LEMMA RestartStutters == ASSUME RestartInv, UNCHANGED vars PROVE RestartInv'
  BY DEF RestartInv, vars, Restart!TypeOK, Restart!Alone, Restart!Begun, Restart!At, Place

LEMMA RestartHolds == Spec => [](Works("restart") => RestartInv)
<1>1. Init => (Works("restart") => RestartInv)
  BY InitWorks, WorksAlone, RestartInit
<1>2. ASSUME OneWorks, Works("restart") => RestartInv, [Next]_vars, Works("restart")'
      PROVE  RestartInv'
  <2>1. Works("restart")
    BY <1>2, WorksOn DEF OneWorks
  <2>2. CASE Next
    BY <1>2, <2>1, <2>2, OneExecutor, RestartStep DEF Restart!Next
  <2> QED BY <1>2, <2>1, <2>2, RestartStutters
<1> QED BY <1>1, <1>2, OneExecutorWorks, PTL DEF Spec

\* restart.Run: whatever the policy and the number of calls, a command runs only for this
\* service and with one probe to tell its outcome, and a success has seen it healthy.
THEOREM RestartVerified == Spec => []RestartIsVerified
<1>1. ASSUME RestartInv, NEW c \in Calls, disk.ran[c]
      PROVE  /\ \E i \in DOMAIN mem[c].policy :
                    /\ mem[c].policy[i].service = Service
                    /\ mem[c].policy[i].name = Restart!ActionName(mem[c])
                    /\ mem[c].policy[i].command = "script"
             /\ (mem[c].probe.http = "absent") # (mem[c].probe.command = "absent")
  <2>1. Restart!MayRun(mem[c])
    BY <1>1 DEF RestartInv
  <2> QED BY <2>1 DEF Restart!MayRun, Restart!Allowed, Restart!Verifiable
<1>2. ASSUME RestartInv PROVE Restart!RestartIsVerified
  BY <1>1, <1>2 DEF RestartInv, Restart!RestartIsVerified
<1>3. OneWorks /\ (Works("restart") => RestartInv) => RestartIsVerified
  BY <1>2, RunsWorks DEF RestartIsVerified
<1> QED BY <1>3, OneExecutorWorks, RestartHolds, PTL

-----------------------------------------------------------------------------
(* packages.Rollback                                                       *)

PackageTexts == Package!Documents \cup {Torn}

\* The document lists the package of the call once, with the broken spec.
BreaksOnce(c) ==
    \E s \in Sections : /\ Package!SectionsWith(mem[c], PackageOf[c]) = {s}
                        /\ mem[c][PackageOf[c]][s] = Broken

\* The package file is as it was parsed until it is opened; by then the backup and the
\* manifest are complete.
PackageFits(c) ==
    LET Kept == disk.file = mem[c]
        Backed == Package!BackupOf(c) = mem[c]
        Listed == disk.manifest[Package!DirOf(c)] = c
        Edited == disk.file = Package!Patched(c)
    IN  /\ Place(c) \in {"backup", "backing", "manifest", "listing", "patch"} => Kept
        /\ Place(c) \in {"manifest", "listing", "patch", "write", "verify", "undo", "restore"}
              => Backed
        /\ Place(c) \in {"patch", "write", "verify", "undo", "restore"} => Listed
        /\ Place(c) = "verify" => Edited
        /\ Place(c) = "done" /\ mem[c] # Torn =>
              /\ ~ Kept => Backed /\ Listed
              /\ report[c] = "verified" => Edited
              /\ report[c] \in {"rolled_back", "no_rollback_data"} => Kept

\* What a call that has begun has parsed, and that from its backup on there is one,
\* whichever call has written it.
PackageInv ==
    /\ Package!TypeOK
    /\ \A c \in Calls :
          /\ Place(c) = "start" => mem[c] = Torn
          /\ Place(c) # "done" => report[c] = "none"
          /\ Place(c) \notin {"start", "done"} => mem[c] # Torn
          /\ mem[c] # Torn => BreaksOnce(c)
          /\ Place(c) \notin {"start", "backup", "done"} => Package!BackupOf(c) \in PackageTexts
          /\ Package!Alone(c) => PackageFits(c)

LEMMA PackagePlaces ==
    ASSUME Package!TypeOK, NEW c \in Calls
    PROVE  /\ Works("package")
           /\ \A l : Package!At(c, l) <=> Place(c) = l
           /\ \A labels : Package!Among(c, labels) <=> Place(c) \in labels
           /\ \A l : Package!Goto(c, l) =>
                 Place(c)' = l /\ \A d \in Calls \ {c} : Place(d)' = Place(d)
           /\ Place(c) \in Package!Labels
<1>1. Works("package") /\ Place(c) \in Package!Labels
  BY DEF Package!TypeOK, Package!Places, Works, Place
<1> QED BY <1>1, Placing DEF Package!At, Package!Among, Package!Places, Package!Goto

PackageEntries == Calls \cup {Torn, NoCall}

LEMMA PackageWrites ==
    ASSUME Package!TypeOK, NEW c \in Calls
    PROVE  /\ \A text \in PackageTexts : Package!SetFile(c, text) =>
                /\ disk' = [file |-> text, backup |-> disk.backup, manifest |-> disk.manifest]
                /\ \A d \in Calls \ {c} : ~ Package!At(d, "start") => d \in mixed'
           /\ \A text \in PackageTexts : Package!SetBackup(c, text) =>
                /\ disk' = [file |-> disk.file, manifest |-> disk.manifest,
                            backup |-> [disk.backup EXCEPT ![Package!DirOf(c)] = text]]
                /\ Package!BackupOf(c)' = text
                /\ \A d \in Calls : Package!BackupOf(d)' \in {text, Package!BackupOf(d)}
                /\ \A d \in Calls \ {c} : ~ Package!At(d, "start") =>
                      d \in mixed' \/ Package!BackupOf(d)' = Package!BackupOf(d)
           /\ \A entry \in PackageEntries : Package!SetManifest(c, entry) =>
                /\ disk' = [file |-> disk.file, backup |-> disk.backup,
                            manifest |-> [disk.manifest EXCEPT ![Package!DirOf(c)] = entry]]
                /\ disk'.manifest[Package!DirOf(c)] = entry
                /\ \A d \in Calls \ {c} : ~ Package!At(d, "start") =>
                      \/ d \in mixed'
                      \/ disk'.manifest[Package!DirOf(d)] = disk.manifest[Package!DirOf(d)]
           /\ \A text :
                (\/ Package!SetFile(c, text)
                 \/ Package!SetBackup(c, text)
                 \/ Package!SetManifest(c, text))
                => mixed \subseteq mixed' /\ mixed' \subseteq Calls
<1>1. \A d \in Calls : Package!DirOf(d) \in Package!Dirs
  BY DEF Package!Dirs
<1>2. ASSUME NEW text \in PackageTexts, Package!SetFile(c, text)
      PROVE  disk' = [file |-> text, backup |-> disk.backup, manifest |-> disk.manifest]
  BY <1>2 DEF Package!SetFile, Package!TypeOK
<1>3. ASSUME NEW text \in PackageTexts, Package!SetBackup(c, text)
      PROVE  disk' = [file |-> disk.file, manifest |-> disk.manifest,
                      backup |-> [disk.backup EXCEPT ![Package!DirOf(c)] = text]]
  BY <1>3 DEF Package!SetBackup, Package!TypeOK
<1>4. ASSUME NEW entry \in PackageEntries, Package!SetManifest(c, entry)
      PROVE  disk' = [file |-> disk.file, backup |-> disk.backup,
                      manifest |-> [disk.manifest EXCEPT ![Package!DirOf(c)] = entry]]
  BY <1>4 DEF Package!SetManifest, Package!TypeOK
<1>5. ASSUME NEW text,
             Package!SetFile(c, text) \/ Package!SetBackup(c, text) \/ Package!SetManifest(c, text)
      PROVE  mixed \subseteq mixed' /\ mixed' \subseteq Calls
  BY <1>5
  DEF Package!SetFile, Package!SetBackup, Package!SetManifest, Package!Mix, Package!Sharers,
      Package!TypeOK
<1>6. ASSUME NEW text, Package!SetFile(c, text), NEW d \in Calls \ {c}, ~ Package!At(d, "start")
      PROVE  d \in mixed'
  BY <1>6 DEF Package!SetFile, Package!Mix, Package!Begun
<1>7. ASSUME NEW text, Package!SetBackup(c, text) \/ Package!SetManifest(c, text),
             NEW d \in Calls \ {c}, ~ Package!At(d, "start")
      PROVE  d \in mixed' \/ Package!DirOf(d) # Package!DirOf(c)
  BY <1>7
  DEF Package!SetBackup, Package!SetManifest, Package!Mix, Package!Begun, Package!Sharers
<1>8. ASSUME NEW text \in PackageTexts, Package!SetBackup(c, text), NEW d \in Calls
      PROVE  Package!BackupOf(d)' =
                IF Package!DirOf(d) = Package!DirOf(c) THEN text ELSE Package!BackupOf(d)
  <2>1. disk'.backup = [disk.backup EXCEPT ![Package!DirOf(c)] = text]
    BY <1>3, <1>8
  <2>2. disk.backup \in [Package!Dirs -> Package!Documents \cup {Torn, NoFile}]
    BY DEF Package!TypeOK
  <2> QED BY <1>1, <2>1, <2>2 DEF Package!BackupOf
<1>9. ASSUME NEW entry \in PackageEntries, Package!SetManifest(c, entry), NEW d \in Calls
      PROVE  disk'.manifest[Package!DirOf(d)] =
                IF Package!DirOf(d) = Package!DirOf(c) THEN entry
                ELSE disk.manifest[Package!DirOf(d)]
  <2>1. disk'.manifest = [disk.manifest EXCEPT ![Package!DirOf(c)] = entry]
    BY <1>4, <1>9
  <2>2. disk.manifest \in [Package!Dirs -> PackageEntries]
    BY DEF Package!TypeOK, PackageEntries
  <2> QED BY <1>1, <2>1, <2>2
<1> QED BY <1>2, <1>3, <1>4, <1>5, <1>6, <1>7, <1>8, <1>9

\* What a step writes, parses and answers.
LEMMA PackageSteps ==
    ASSUME PackageInv, NEW c \in Calls, Package!Step(c)
    PROVE  /\ \/ \E text \in PackageTexts : Package!SetFile(c, text)
              \/ \E text \in PackageTexts : Package!SetBackup(c, text)
              \/ \E entry \in {Torn, c} : Package!SetManifest(c, entry)
              \/ mixed' = mixed /\ disk' = disk
           /\ \/ mem' = mem
              \/ mem' = [mem EXCEPT ![c] = disk.file]
           /\ \/ report' = report
              \/ \E answer \in Package!Reports : report' = [report EXCEPT ![c] = answer]
           /\ \E l \in Package!Labels \ {"start"} : Package!Goto(c, l)
<1> USE DEF Package!Step
<1>1. \/ mem' = mem
      \/ mem' = [mem EXCEPT ![c] = disk.file]
  BY DEF Package!Refuse, Package!Read, Package!OpenBackup, Package!FillBackup,
         Package!OpenManifest, Package!FillManifest, Package!FailRollbackData,
         Package!OpenFile, Package!FillFile, Package!FailFile, Package!Verify,
         Package!FailVerify, Package!OpenUndo, Package!FillUndo, Package!FailUndo,
         Package!Crash
<1>2. \/ report' = report
      \/ \E answer \in Package!Reports : report' = [report EXCEPT ![c] = answer]
  BY DEF Package!Refuse, Package!Read, Package!OpenBackup, Package!FillBackup,
         Package!OpenManifest, Package!FillManifest, Package!FailRollbackData,
         Package!OpenFile, Package!FillFile, Package!FailFile, Package!Verify,
         Package!FailVerify, Package!OpenUndo, Package!FillUndo, Package!FailUndo,
         Package!Crash, Package!Return, Package!Reports
<1>3. \E l \in Package!Labels \ {"start"} : Package!Goto(c, l)
  BY DEF Package!Refuse, Package!Read, Package!OpenBackup, Package!FillBackup,
         Package!OpenManifest, Package!FillManifest, Package!FailRollbackData,
         Package!OpenFile, Package!FillFile, Package!FailFile, Package!Verify,
         Package!FailVerify, Package!OpenUndo, Package!FillUndo, Package!FailUndo,
         Package!Crash, Package!Return, Package!Labels
<1>4. \/ \E text \in {Torn, Package!Patched(c)} :
            Package!SetFile(c, text) /\ (text # Torn => Place(c) = "write")
      \/ Package!SetFile(c, Package!BackupOf(c)) /\ Place(c) = "restore"
      \/ \E text \in {Torn, mem[c]} : Package!SetBackup(c, text)
      \/ \E entry \in {Torn, c} : Package!SetManifest(c, entry)
      \/ mixed' = mixed /\ disk' = disk
  BY PackagePlaces
  DEF PackageInv, Package!Refuse, Package!Read, Package!OpenBackup, Package!FillBackup,
      Package!OpenManifest, Package!FillManifest, Package!FailRollbackData,
      Package!OpenFile, Package!FillFile, Package!FailFile, Package!Verify,
      Package!FailVerify, Package!OpenUndo, Package!FillUndo, Package!FailUndo,
      Package!Crash, Package!Quiet
<1>5. {Torn, mem[c]} \subseteq PackageTexts
  BY DEF PackageInv, Package!TypeOK, PackageTexts
<1>6. Place(c) = "restore" => Package!BackupOf(c) \in PackageTexts
  BY DEF PackageInv
<1>7. Place(c) = "write" => Package!Patched(c) \in PackageTexts
  <2>1. ASSUME mem[c] # Torn PROVE Package!Patched(c) \in Package!Documents
    <3>1. mem[c] \in Package!Documents
      BY <1>5, <2>1 DEF PackageTexts
    <3> QED BY <3>1 DEF Package!Patched, Package!Documents, Package!Specs
  <2> QED BY <2>1 DEF PackageTexts, PackageInv
<1> QED BY <1>1, <1>2, <1>3, <1>4, <1>5, <1>6, <1>7

LEMMA PackageTyped ==
    ASSUME PackageInv, NEW c \in Calls, Package!Step(c)
    PROVE  Package!TypeOK'
<1> USE DEF PackageInv
<1>1. /\ disk' \in [file : PackageTexts,
                    backup : [Package!Dirs -> Package!Documents \cup {Torn, NoFile}],
                    manifest : [Package!Dirs -> PackageEntries]]
      /\ mixed' \subseteq Calls
  <2>1. disk \in [file : PackageTexts,
                  backup : [Package!Dirs -> Package!Documents \cup {Torn, NoFile}],
                  manifest : [Package!Dirs -> PackageEntries]]
    BY DEF Package!TypeOK, PackageTexts, PackageEntries
  <2>2. CASE \E text \in PackageTexts : Package!SetFile(c, text)
    BY <2>1, <2>2, PackageWrites
  <2>3. CASE \E text \in PackageTexts : Package!SetBackup(c, text)
    <3>1. PICK text \in PackageTexts :
              disk' = [file |-> disk.file, manifest |-> disk.manifest,
                       backup |-> [disk.backup EXCEPT ![Package!DirOf(c)] = text]]
      BY <2>3, PackageWrites
    <3>2. mixed' \subseteq Calls
      BY <2>3, PackageWrites
    <3> QED BY <2>1, <3>1, <3>2 DEF PackageTexts
  <2>4. CASE \E entry \in {Torn, c} : Package!SetManifest(c, entry)
    <3>1. PICK entry \in PackageEntries :
              disk' = [file |-> disk.file, backup |-> disk.backup,
                       manifest |-> [disk.manifest EXCEPT ![Package!DirOf(c)] = entry]]
      BY <2>4, PackageWrites DEF PackageEntries
    <3>2. mixed' \subseteq Calls
      BY <2>4, PackageWrites
    <3> QED BY <2>1, <3>1, <3>2
  <2>5. CASE mixed' = mixed /\ disk' = disk
    BY <2>1, <2>5 DEF Package!TypeOK
  <2> QED BY <2>2, <2>3, <2>4, <2>5, PackageSteps
<1>2. mem' \in [Calls -> PackageTexts]
  <2>1. mem \in [Calls -> PackageTexts] /\ disk.file \in PackageTexts
    BY DEF Package!TypeOK, PackageTexts
  <2> QED BY <2>1, PackageSteps
<1>3. report' \in [Calls -> Package!Reports]
  BY PackageSteps DEF Package!TypeOK
<1>4. pc' \in [Calls -> Package!Places(Package!Labels)]
  BY PackageSteps DEF Package!TypeOK, Package!Goto, Package!Places
<1> QED
  BY <1>1, <1>2, <1>3, <1>4
  DEF Package!TypeOK, PackageTexts, PackageEntries, Package!Documents, Package!Packages,
      Package!Specs, Package!Dirs, Package!DirOf

\* The calls other than the one that takes a step.
LEMMA PackageOthers ==
    ASSUME PackageInv, NEW c \in Calls, Package!Step(c), NEW d \in Calls \ {c}
    PROVE  /\ Place(d)' = Place(d) /\ mem'[d] = mem[d] /\ report'[d] = report[d]
           /\ d \in mixed => d \in mixed'
           /\ Package!BackupOf(d) \in PackageTexts => Package!BackupOf(d)' \in PackageTexts
           /\ Place(d) # "start" /\ d \notin mixed' =>
                 /\ disk'.file = disk.file
                 /\ Package!BackupOf(d)' = Package!BackupOf(d)
                 /\ disk'.manifest[Package!DirOf(d)] = disk.manifest[Package!DirOf(d)]
<1> USE DEF PackageInv
<1>1. Place(d)' = Place(d) /\ mem'[d] = mem[d] /\ report'[d] = report[d]
  BY PackageSteps, PackagePlaces DEF Package!TypeOK
<1>2. CASE \E text \in PackageTexts : Package!SetFile(c, text)
  BY <1>1, <1>2, PackageWrites, PackagePlaces DEF Package!BackupOf
<1>3. CASE \E text \in PackageTexts : Package!SetBackup(c, text)
  BY <1>1, <1>3, PackageWrites, PackagePlaces
<1>4. CASE \E entry \in {Torn, c} : Package!SetManifest(c, entry)
  BY <1>1, <1>4, PackageWrites, PackagePlaces DEF Package!BackupOf, PackageEntries
<1>5. CASE disk' = disk /\ mixed' = mixed
  BY <1>1, <1>5 DEF Package!BackupOf
<1> QED BY <1>2, <1>3, <1>4, <1>5, PackageSteps

\* The call that takes a step: what it finds is what it has left.
LEMMA PackageOwn ==
    ASSUME PackageInv, NEW c \in Calls, Package!Step(c), Package!Alone(c)'
    PROVE  PackageFits(c)'
<1> USE DEF PackageInv
<1>0. /\ Place(c) \in Package!Labels
      /\ Place(c) # "start" => PackageFits(c)
      /\ Place(c) = "start" => mem[c] = Torn
      /\ Place(c) # "done" => report[c] = "none"
      /\ {Torn, mem[c]} \subseteq PackageTexts /\ {Torn, c} \subseteq PackageEntries
  <2>1. mixed \subseteq mixed'
    BY PackageSteps, PackageWrites
  <2>2. c \notin mixed
    BY <2>1 DEF Package!Alone
  <2> QED
    BY <2>2, PackagePlaces
    DEF Package!Alone, Package!Begun, Package!TypeOK, PackageTexts, PackageEntries
<1>1. CASE Package!Refuse(c)
  <2>1. Place(c)' = "done" /\ mem' = mem /\ mem[c] = Torn
    BY <1>0, <1>1, PackagePlaces DEF Package!Refuse, Package!Return
  <2> QED BY <2>1 DEF PackageFits
<1>2. CASE Package!Read(c)
  <2>1. Place(c)' = "backup" /\ disk' = disk /\ mem'[c] = disk.file
    BY <1>2, PackagePlaces DEF Package!Read, Package!Quiet, Package!TypeOK
  <2> QED BY <2>1 DEF PackageFits
<1>3. CASE Package!OpenBackup(c) \/ Package!FillBackup(c)
  <2>1. PICK text \in {Torn, mem[c]} :
            /\ Package!SetBackup(c, text)
            /\ Package!FillBackup(c) => text = mem[c]
    BY <1>3 DEF Package!OpenBackup, Package!FillBackup
  <2>2. disk'.file = disk.file /\ Package!BackupOf(c)' = text
    BY <1>0, <2>1, PackageWrites
  <2>3. /\ mem' = mem
        /\ \/ Place(c) = "backup" /\ Place(c)' = "backing"
           \/ Place(c) = "backing" /\ Place(c)' = "manifest" /\ Package!FillBackup(c)
    BY <1>3, PackagePlaces DEF Package!OpenBackup, Package!FillBackup
  <2> QED BY <1>0, <2>1, <2>2, <2>3 DEF PackageFits
<1>4. CASE Package!OpenManifest(c) \/ Package!FillManifest(c)
  <2>1. PICK entry \in {Torn, c} :
            /\ Package!SetManifest(c, entry)
            /\ Package!FillManifest(c) => entry = c
    BY <1>4 DEF Package!OpenManifest, Package!FillManifest
  <2>2. /\ disk'.file = disk.file /\ disk'.backup = disk.backup
        /\ disk'.manifest[Package!DirOf(c)] = entry
    BY <1>0, <2>1, PackageWrites
  <2>3. /\ mem' = mem
        /\ \/ Place(c) = "manifest" /\ Place(c)' = "listing"
           \/ Place(c) = "listing" /\ Place(c)' = "patch" /\ Package!FillManifest(c)
    BY <1>4, PackagePlaces DEF Package!OpenManifest, Package!FillManifest
  <2> QED BY <1>0, <2>1, <2>2, <2>3 DEF PackageFits, Package!BackupOf
<1>5. CASE \/ Package!FailRollbackData(c) \/ Package!FailFile(c) \/ Package!Verify(c)
           \/ Package!FailUndo(c) \/ Package!Crash(c)
  <2>1. disk' = disk /\ mem' = mem /\ Place(c)' = "done"
    BY <1>5, PackagePlaces
    DEF Package!FailRollbackData, Package!FailFile, Package!Verify, Package!FailUndo,
        Package!Crash, Package!Quiet, Package!Return
  <2>2. \/ /\ Place(c) \in {"backup", "backing", "manifest", "listing"}
           /\ report'[c] = "no_rollback_data"
        \/ Place(c) \in {"patch", "write"} /\ report'[c] = "write_failed"
        \/ Place(c) = "verify" /\ report'[c] = "verified"
        \/ Place(c) \in {"undo", "restore"} /\ report'[c] = "not_rolled_back"
        \/ Place(c) \notin {"start", "done"} /\ report'[c] = "crashed"
    BY <1>5, PackagePlaces
    DEF Package!FailRollbackData, Package!FailFile, Package!Verify, Package!FailUndo,
        Package!Crash, Package!Return, Package!TypeOK
  <2> QED
    BY <1>0, <2>1, <2>2
    DEF PackageFits, Package!BackupOf, Package!Patched, Package!Labels
<1>6. CASE Package!FailVerify(c)
  <2>1. disk' = disk /\ mem' = mem /\ Place(c) = "verify" /\ Place(c)' = "undo"
    BY <1>6, PackagePlaces DEF Package!FailVerify, Package!Quiet
  <2> QED BY <1>0, <2>1 DEF PackageFits, Package!BackupOf
<1>7. CASE Package!OpenFile(c) \/ Package!OpenUndo(c) \/ Package!FillFile(c)
  <2>1. /\ mem' = mem
        /\ \/ Place(c) = "patch" /\ Place(c)' = "write"
           \/ Place(c) = "undo" /\ Place(c)' = "restore"
           \/ Place(c) = "write" /\ Place(c)' = "verify" /\ Package!FillFile(c)
    BY <1>7, PackagePlaces DEF Package!OpenFile, Package!OpenUndo, Package!FillFile
  <2>2. \E text \in {Torn, Package!Patched(c)} :
            /\ Package!SetFile(c, text)
            /\ Package!FillFile(c) => text = Package!Patched(c)
    BY <1>7 DEF Package!OpenFile, Package!OpenUndo, Package!FillFile
  <2>3. PICK text :
            /\ disk'.file = text /\ disk'.backup = disk.backup /\ disk'.manifest = disk.manifest
            /\ Package!FillFile(c) => text = Package!Patched(c)
    BY <2>2 DEF Package!SetFile, Package!TypeOK
  <2> QED BY <1>0, <2>1, <2>3 DEF PackageFits, Package!BackupOf, Package!Patched
<1>8. CASE Package!FillUndo(c)
  <2>1. disk'.file = Package!BackupOf(c) /\ mem' = mem
    BY <1>8 DEF Package!FillUndo, Package!SetFile, Package!TypeOK
  <2>2. Place(c) = "restore" /\ Place(c)' = "done" /\ report'[c] = "rolled_back"
    BY <1>8, PackagePlaces DEF Package!FillUndo, Package!Return, Package!TypeOK
  <2> QED BY <1>0, <2>1, <2>2 DEF PackageFits
<1> QED BY <1>1, <1>2, <1>3, <1>4, <1>5, <1>6, <1>7, <1>8 DEF Package!Step

\* Every step of a call keeps the invariant.
LEMMA PackageStep ==
    ASSUME PackageInv, NEW c \in Calls, Package!Step(c)
    PROVE  PackageInv'
<1> USE DEF PackageInv
<1>1. Package!TypeOK'
  BY PackageTyped
<1>2. /\ Place(c)' # "start"
      /\ Place(c)' # "done" => report'[c] = "none"
      /\ Place(c)' # "done" => mem'[c] # Torn
      /\ mem'[c] # Torn => BreaksOnce(c)'
      /\ Place(c)' \notin {"start", "backup", "done"} => Package!BackupOf(c)' \in PackageTexts
  <2>1. CASE Package!Refuse(c)
    <3>1. Place(c)' = "done" /\ mem' = mem /\ mem[c] = Torn
      BY <2>1, PackagePlaces DEF Package!Refuse, Package!Return
    <3> QED BY <3>1
  <2>2. CASE Package!Read(c)
    <3>1. /\ Place(c) = "start" /\ Place(c)' = "backup" /\ report' = report
          /\ mem'[c] = disk.file /\ disk.file # Torn
          /\ \E s \in Sections :
                /\ Package!SectionsWith(disk.file, PackageOf[c]) = {s}
                /\ disk.file[PackageOf[c]][s] = Broken
      BY <2>2, PackagePlaces DEF Package!Read, Package!TypeOK
    <3> QED BY <3>1 DEF BreaksOnce, Package!SectionsWith
  <2>3. CASE ~ Package!Refuse(c) /\ ~ Package!Read(c)
    <3>1. /\ mem' = mem /\ Place(c) \notin {"start", "done"}
          /\ Place(c)' # "start" /\ (report' = report \/ Place(c)' = "done")
      BY <2>3, PackagePlaces
      DEF Package!Step, Package!OpenBackup, Package!FillBackup,
          Package!OpenManifest, Package!FillManifest, Package!FailRollbackData,
          Package!OpenFile, Package!FillFile, Package!FailFile, Package!Verify,
          Package!FailVerify, Package!OpenUndo, Package!FillUndo, Package!FailUndo,
          Package!Crash, Package!Return
    <3>2. mem'[c] # Torn /\ BreaksOnce(c)' /\ (Place(c)' # "done" => report'[c] = "none")
      BY <3>1 DEF BreaksOnce, Package!SectionsWith
    <3>3. CASE \E text \in PackageTexts : Package!SetBackup(c, text)
      BY <3>1, <3>2, <3>3, PackageWrites
    <3>4. CASE disk'.backup = disk.backup /\ ~ Package!OpenBackup(c)
      <4>1. Place(c) = "backup" => Place(c)' = "done"
        BY <2>3, <3>4, PackagePlaces
        DEF Package!Step, Package!FillBackup,
            Package!OpenManifest, Package!FillManifest, Package!FailRollbackData,
            Package!OpenFile, Package!FillFile, Package!FailFile, Package!Verify,
            Package!FailVerify, Package!OpenUndo, Package!FillUndo, Package!FailUndo,
            Package!Crash, Package!Return
      <4> QED BY <3>1, <3>2, <3>4, <4>1 DEF Package!BackupOf
    <3>5. ~ (\E text \in PackageTexts : Package!SetBackup(c, text)) =>
             disk'.backup = disk.backup /\ ~ Package!OpenBackup(c)
      <4>1. ASSUME ~ \E text \in PackageTexts : Package!SetBackup(c, text)
            PROVE  disk'.backup = disk.backup
        BY <4>1, PackageSteps, PackageWrites DEF PackageEntries
      <4>2. Package!OpenBackup(c) => \E text \in PackageTexts : Package!SetBackup(c, text)
        BY DEF Package!OpenBackup, PackageTexts
      <4> QED BY <4>1, <4>2
    <3> QED BY <3>3, <3>4, <3>5
  <2> QED BY <2>1, <2>2, <2>3
<1>3. ASSUME NEW d \in Calls \ {c}
      PROVE  /\ Place(d)' = "start" => mem'[d] = Torn
             /\ Place(d)' # "done" => report'[d] = "none"
             /\ Place(d)' \notin {"start", "done"} => mem'[d] # Torn
             /\ mem'[d] # Torn => BreaksOnce(d)'
             /\ Place(d)' \notin {"start", "backup", "done"} =>
                   Package!BackupOf(d)' \in PackageTexts
  BY PackageOthers DEF BreaksOnce, Package!SectionsWith
<1>4. ASSUME NEW d \in Calls, Package!Alone(d)' PROVE PackageFits(d)'
  <2>1. CASE d = c
    BY <1>4, <2>1, PackageOwn
  <2>2. CASE d # c
    <3>1. /\ Place(d)' = Place(d) /\ mem'[d] = mem[d] /\ report'[d] = report[d]
          /\ d \notin mixed /\ d \notin mixed'
      BY <1>4, <2>2, PackageOthers DEF Package!Alone
    <3>2. Place(d) # "start" /\ Package!Alone(d)
      <4>1. pc'[d] = <<"package", Place(d)'>>
        BY <1>1 DEF Package!TypeOK, Package!Places, Place
      <4>2. Place(d)' # "start"
        BY <1>4, <4>1 DEF Package!Alone, Package!Begun, Package!At
      <4> QED BY <3>1, <4>2, PackagePlaces DEF Package!Alone, Package!Begun
    <3>3. PackageFits(d) /\ Package!Patched(d)' = Package!Patched(d)
      BY <3>1, <3>2 DEF Package!Patched, Package!SectionsWith
    <3>4. /\ disk'.file = disk.file /\ Package!BackupOf(d)' = Package!BackupOf(d)
          /\ disk'.manifest[Package!DirOf(d)] = disk.manifest[Package!DirOf(d)]
      BY <2>2, <3>1, <3>2, PackageOthers
    <3> QED BY <3>1, <3>3, <3>4 DEF PackageFits
  <2> QED BY <2>1, <2>2
<1>5. ASSUME NEW d \in Calls
      PROVE  /\ Place(d)' = "start" => mem'[d] = Torn
             /\ Place(d)' # "done" => report'[d] = "none"
             /\ Place(d)' \notin {"start", "done"} => mem'[d] # Torn
             /\ mem'[d] # Torn => BreaksOnce(d)'
             /\ Place(d)' \notin {"start", "backup", "done"} =>
                   Package!BackupOf(d)' \in PackageTexts
  <2>1. CASE d = c
    BY <1>2, <2>1
  <2>2. CASE d # c
    BY <1>3, <2>2
  <2> QED BY <2>1, <2>2
<1> QED BY <1>1, <1>4, <1>5 DEF PackageTexts, Package!Documents, Package!Packages, Package!Specs

LEMMA PackageInit == ASSUME Package!Init, Works("package") PROVE PackageInv
<1>1. Package!TypeOK
  BY DEF Package!Init, Package!CallsInit, Package!TypeOK, Package!Places, Package!Labels,
         Package!Reports
<1>2. ASSUME NEW c \in Calls
      PROVE  /\ Place(c) = "start" /\ mem[c] = Torn /\ report[c] = "none"
             /\ ~ Package!Alone(c)
  BY DEF Package!Init, Package!CallsInit, Package!Alone, Package!Begun, Package!At, Place
<1> QED BY <1>1, <1>2 DEF PackageInv

LEMMA PackageStutters == ASSUME PackageInv, UNCHANGED vars PROVE PackageInv'
<1>1. Package!TypeOK'
  BY DEF PackageInv, vars, Package!TypeOK
<1>2. ASSUME NEW c \in Calls
      PROVE  /\ Place(c)' = Place(c) /\ BreaksOnce(c)' = BreaksOnce(c)
             /\ Package!BackupOf(c)' = Package!BackupOf(c)
             /\ Package!Alone(c)' = Package!Alone(c) /\ PackageFits(c)' = PackageFits(c)
  BY DEF vars, Package!Alone, Package!Begun, Package!At, PackageFits, Place, BreaksOnce,
         Package!SectionsWith, Package!BackupOf, Package!Patched
<1> QED BY <1>1, <1>2 DEF PackageInv, vars

LEMMA PackageHolds == Spec => [](Works("package") => PackageInv)
<1>1. Init => (Works("package") => PackageInv)
  BY InitWorks, WorksAlone, PackageInit
<1>2. ASSUME OneWorks, Works("package") => PackageInv, [Next]_vars, Works("package")'
      PROVE  PackageInv'
  <2>1. Works("package")
    BY <1>2, WorksOn DEF OneWorks
  <2>2. CASE Next
    BY <1>2, <2>1, <2>2, OneExecutor, PackageStep DEF Package!Next
  <2> QED BY <1>2, <2>1, <2>2, PackageStutters
<1> QED BY <1>1, <1>2, OneExecutorWorks, PTL DEF Spec

\* The patch of a document that breaks once replaces this one spec.
LEMMA PatchMovesOneSpec ==
    ASSUME Package!TypeOK, NEW c \in Calls, mem[c] # Torn, BreaksOnce(c)
    PROVE  /\ \A p \in Package!Packages, s \in Sections :
                 Package!Patched(c)[p][s] # mem[c][p][s] =>
                    /\ p = PackageOf[c] /\ mem[c][p][s] = Broken
                    /\ Package!Patched(c)[p][s] = Good
           /\ Package!Patched(c) # mem[c]
<1>1. PICK s \in Sections : /\ Package!SectionsWith(mem[c], PackageOf[c]) = {s}
                            /\ mem[c][PackageOf[c]][s] = Broken
  BY DEF BreaksOnce
<1>2. mem[c] \in [Package!Packages -> [Sections -> Package!Specs]]
  BY DEF Package!TypeOK, Package!Documents
<1>3. PackageOf[c] \in Package!Packages
  BY DEF Package!Packages
<1>4. Package!Patched(c) =
          [mem[c] EXCEPT ![PackageOf[c]] =
              [t \in Sections |-> IF t = s THEN Good ELSE Absent]]
  BY <1>1 DEF Package!Patched
<1>5. \A t \in Sections \ {s} : mem[c][PackageOf[c]][t] = Absent
  BY <1>1 DEF Package!SectionsWith
<1>6. Package!Patched(c)[PackageOf[c]][s] = Good /\ Good # Broken
  BY <1>2, <1>3, <1>4, LocalExecutorsAssumption DEF LocalExecutorsAssumption
<1> QED BY <1>1, <1>2, <1>3, <1>4, <1>5, <1>6

\* packages.Rollback: for any packages, sections and calls, a changed package file has its
\* manifest and its backup, and only the broken spec of the one package has moved.
THEOREM PackageChangeRecorded == Spec => []PackageChangeIsRecorded
<1>1. ASSUME PackageInv PROVE Package!ChangeIsRecorded
  BY <1>1, PackagePlaces
  DEF PackageInv, PackageFits, Package!ChangeIsRecorded, Package!HasParsed, Package!Alone,
      Package!Begun, Package!Labels
<1>2. ASSUME PackageInv PROVE Package!OnlyBrokenSpecMoves
  <2>1. ASSUME NEW c \in Calls, Package!Alone(c), mem[c] # Torn
        PROVE  /\ report[c] = "verified" =>
                     /\ \A p \in Package!Packages, s \in Sections :
                           disk.file[p][s] # mem[c][p][s] =>
                              /\ p = PackageOf[c] /\ mem[c][p][s] = Broken
                              /\ disk.file[p][s] = Good
                     /\ disk.file # mem[c]
               /\ report[c] \in {"rolled_back", "no_rollback_data"} => disk.file = mem[c]
    <3>1. /\ Package!TypeOK /\ BreaksOnce(c) /\ PackageFits(c)
          /\ report[c] # "none" => Place(c) = "done"
      BY <1>2, <2>1 DEF PackageInv
    <3>2. CASE report[c] = "verified"
      <4>1. disk.file = Package!Patched(c)
        BY <2>1, <3>1, <3>2 DEF PackageFits
      <4> QED BY <2>1, <3>1, <3>2, <4>1, PatchMovesOneSpec
    <3>3. CASE report[c] \in {"rolled_back", "no_rollback_data"}
      BY <2>1, <3>1, <3>3 DEF PackageFits
    <3> QED BY <3>2, <3>3
  <2> QED BY <2>1 DEF Package!OnlyBrokenSpecMoves, Package!HasParsed
<1>3. OneWorks /\ (Works("package") => PackageInv) => PackageChangeIsRecorded
  BY <1>1, <1>2, RunsWorks DEF PackageChangeIsRecorded
<1> QED BY <1>3, OneExecutorWorks, PackageHolds, PTL

=============================================================================
