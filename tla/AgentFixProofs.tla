---------------------------- MODULE AgentFixProofs ----------------------------
(***************************************************************************)
(* Theorems about AgentFix for any number of runs and files, every scope   *)
(* and every way in which runs share backup directories.                   *)
(***************************************************************************)
EXTENDS AgentFix, TLAPS, WellFoundedInduction

-----------------------------------------------------------------------------
(* Paths in their order                                                    *)

LEMMA LeastExists ==
    ASSUME NEW S \in SUBSET Nat, S # {} PROVE \E m \in S : \A i \in S : m <= i
<1>. DEFINE R == {ss \in Nat \X Nat : ss[1] < ss[2]}
<1>1. IsWellFoundedOn(R, Nat)
  BY NatLessThanWellFounded DEF OpToRel
<1>2. \A i, j \in Nat : i < j => <<i, j>> \in R
  OBVIOUS
<1>. HIDE DEF R
<1>3. PICK m \in S : \A i \in S : <<i, m>> \notin R
  BY <1>1, WFMin
<1>4. ASSUME NEW i \in S PROVE m <= i
  <2>1. i \in Nat /\ m \in Nat /\ ~(i < m)
    BY <1>2, <1>3
  <2>. QED
    BY <2>1
<1>. QED
  BY <1>4

LEMMA LeastIsMember ==
    ASSUME NEW S \in SUBSET Paths, S # {} PROVE Min(S) \in S
<1>1. S \in SUBSET Nat
  BY AgentAssumption DEF Paths
<1>. QED
  BY <1>1, LeastExists DEF Min

LEMMA LargestIsMember ==
    ASSUME NEW S \in SUBSET Paths, S # {} PROVE Max(S) \in S
<1>. DEFINE T == {i \in Nat : NPaths - i \in S}
<1>1. PICK k \in S : TRUE
  OBVIOUS
<1>2. \A i \in S : i \in Int /\ NPaths - i \in Nat /\ NPaths - (NPaths - i) = i
  BY AgentAssumption DEF Paths
<1>3. NPaths - k \in T
  BY <1>1, <1>2
<1>4. PICK m \in T : \A i \in T : m <= i
  BY <1>3, LeastExists
<1>5. NPaths - m \in S
  BY <1>4
<1>6. ASSUME NEW i \in S PROVE NPaths - m >= i
  <2>1. m <= NPaths - i
    BY <1>2, <1>4
  <2>. QED
    BY <1>2, <2>1, AgentAssumption
<1>. QED
  BY <1>5, <1>6 DEF Max

-----------------------------------------------------------------------------
(* Types                                                                   *)

ChangeTypes == {"create", "modify", "delete"}

Manifests == [by : Runs, entries : ChangeSets \ {NoChanges}]

Undos == [stamp : Stamps, manifest : Manifests, todo : (SUBSET Paths) \ {{}},
          buf : Contents \cup {Absent}]

\* The steps of a run that visit one file after the other, and those that apply changes.
Visiting == {"copy", "diff", "apply", "fill backup", "write", "fill target"}
Applying == {"apply", "fill backup", "write", "fill target", "manifest", "fill manifest"}

\* What a run has to itself.
WorkTypes ==
    /\ staging \in [Runs -> Trees]
    /\ before \in [Runs -> Trees]
    /\ changes \in [Runs -> ChangeSets]
    /\ todo \in [Runs -> SUBSET Paths]
    /\ buf \in [Runs -> Contents \cup {Absent}]
    /\ pc \in [Runs -> Labels]
    /\ outcome \in [Runs -> Outcomes]
    /\ \A r \in Runs : pc[r] \in Visiting => todo[r] # {}
    /\ \A r \in Runs : pc[r] \in Applying => changes[r] # NoChanges

FileTypes ==
    /\ target \in Trees
    /\ backup \in [Stamps -> Trees]
    /\ manifest \in [Stamps -> Manifests \cup {Torn, Absent}]
    /\ disturbed \subseteq Runs

UndoTypes ==
    /\ undo \in [Undoers -> Undos \cup {NoUndo}]
    /\ rollback \in [Runs -> {"none", "begun", "done"}]
    /\ undos \in 0 .. MaxUndos

Types == WorkTypes /\ FileTypes /\ UndoTypes /\ validated \subseteq Runs

LEMMA UndoFields ==
    ASSUME NEW u \in Undoers, UndoTypes, IsUndoing(u)
    PROVE  /\ undo[u] \in Undos
           /\ undo[u].stamp \in Stamps /\ undo[u].manifest.by \in Runs
           /\ undo[u].manifest.entries \in ChangeSets
           /\ undo[u].todo \in SUBSET Paths /\ undo[u].todo # {}
           /\ undo[u].buf \in Contents \cup {Absent}
           /\ UndoPath(u) \in undo[u].todo
<1>1. undo[u] \in Undos
  BY DEF UndoTypes, IsUndoing
<1>2. undo[u].todo \in SUBSET Paths /\ undo[u].todo # {}
  BY <1>1 DEF Undos
<1>. QED
  BY <1>1, <1>2, LargestIsMember DEF Undos, Manifests, UndoPath

LEMMA TypesAreTypeOK == Types => TypeOK
<1>. SUFFICES ASSUME Types PROVE TypeOK
  OBVIOUS
<1>1. \A t \in Stamps : manifest[t] \in [by : Runs, entries : ChangeSets] \cup {Torn, Absent}
  BY DEF Types, FileTypes, Manifests
<1>2. \A u \in Undoers : IsUndoing(u) => undo[u].todo # {}
  BY UndoFields DEF Types
<1>. QED
  BY <1>1, <1>2 DEF Types, WorkTypes, FileTypes, UndoTypes, TypeOK, Visiting

LEMMA EmptyChanges ==
    /\ NoChanges \in ChangeSets
    /\ \A c \in ChangeSets : /\ DOMAIN c \in SUBSET Paths
                             /\ \A p \in DOMAIN c : c[p] \in ChangeTypes
                             /\ c # NoChanges => DOMAIN c # {}
<1>1. NoChanges \in [{} -> {"create", "modify", "delete"}]
  BY DEF NoChanges
<1>2. NoChanges \in ChangeSets
  BY <1>1 DEF ChangeSets
<1>3. ASSUME NEW c \in ChangeSets
      PROVE  /\ DOMAIN c \in SUBSET Paths
             /\ \A p \in DOMAIN c : c[p] \in ChangeTypes
             /\ DOMAIN c = {} => c = NoChanges
  <2>1. PICK S \in SUBSET Paths : c \in [S -> {"create", "modify", "delete"}]
    BY DEF ChangeSets
  <2>2. DOMAIN c = {} => c = NoChanges
    BY <2>1 DEF NoChanges
  <2>. QED
    BY <2>1, <2>2 DEF ChangeTypes
<1>. QED
  BY <1>2, <1>3

LEMMA TypesInit == Init => Types
<1>. SUFFICES ASSUME Init PROVE Types
  OBVIOUS
<1>1. EmptyTree \in Trees /\ target \in Trees
  BY DEF Init, EmptyTree, Trees, Contents
<1>2. WorkTypes
  BY <1>1, EmptyChanges, AgentAssumption
  DEF Init, WorkTypes, Labels, Outcomes, Visiting, Applying
<1>3. FileTypes
  BY <1>1 DEF Init, FileTypes
<1>4. UndoTypes
  BY AgentAssumption DEF Init, UndoTypes
<1>. QED
  BY <1>2, <1>3, <1>4 DEF Types, Init

LEMMA PathIsPath ==
    ASSUME WorkTypes, NEW r \in Runs, pc[r] \in Visiting
    PROVE  Path(r) \in todo[r] /\ Path(r) \in Paths
<1>1. todo[r] \in SUBSET Paths /\ todo[r] # {}
  BY DEF WorkTypes
<1>. QED
  BY <1>1, LeastIsMember DEF Path

LEMMA VisitedTypes ==
    ASSUME WorkTypes, NEW r \in Runs, pc[r] \in Visiting, NEW again \in Labels,
           NEW next \in Labels, Visited(r, again, next)
    PROVE  /\ todo' \in [Runs -> SUBSET Paths]
           /\ pc' \in [Runs -> Labels] /\ outcome' = outcome
           /\ \A s \in Runs \ {r} : todo'[s] = todo[s] /\ pc'[s] = pc[s]
           /\ \/ pc'[r] = again /\ todo'[r] # {}
              \/ pc'[r] = next
<1>1. Path(r) \in todo[r]
  BY PathIsPath
<1>2. ~IsLast(r) => todo[r] \ {Path(r)} # {}
  BY <1>1 DEF IsLast
<1>. QED
  BY <1>1, <1>2 DEF WorkTypes, Visited, Goto

LEMMA ReturnTypes ==
    ASSUME WorkTypes, NEW r \in Runs, NEW result \in Outcomes, Return(r, result)
    PROVE  WorkTypes'
<1>1. EmptyTree \in Trees
  BY DEF EmptyTree, Trees
<1>2. /\ staging' \in [Runs -> Trees] /\ before' \in [Runs -> Trees]
      /\ changes' \in [Runs -> ChangeSets]
  BY <1>1, EmptyChanges DEF WorkTypes, Return
<1>3. /\ todo' \in [Runs -> SUBSET Paths] /\ buf' \in [Runs -> Contents \cup {Absent}]
      /\ pc' \in [Runs -> Labels] /\ outcome' \in [Runs -> Outcomes]
  BY DEF WorkTypes, Return, Labels
<1>4. \A s \in Runs : /\ pc'[s] = IF s = r THEN "done" ELSE pc[s]
                      /\ s # r => todo'[s] = todo[s] /\ changes'[s] = changes[s]
  BY DEF WorkTypes, Return
<1>. QED
  BY <1>2, <1>3, <1>4 DEF WorkTypes, Visiting, Applying

LEMMA WriteTypes ==
    ASSUME FileTypes, NEW r \in Runs, NEW p \in Paths, NEW content \in Contents \cup {Absent},
           \/ NoWrite
           \/ WriteTarget(p, content, r)
           \/ p = Path(r) /\ WriteBackup(r, content)
    PROVE  FileTypes'
<1>1. CASE NoWrite
  BY <1>1 DEF NoWrite, files, FileTypes
<1>2. CASE WriteTarget(p, content, r)
  BY <1>2 DEF WriteTarget, FileTypes, Trees
<1>3. CASE p = Path(r) /\ WriteBackup(r, content)
  <2>1. StampOf[r] \in Stamps
    BY DEF Stamps
  <2>2. backup' \in [Stamps -> Trees]
    BY <1>3, <2>1 DEF WriteBackup, FileTypes, Trees
  <2>. QED
    BY <1>3, <2>2 DEF WriteBackup, DisturbStamp, FileTypes
<1>. QED
  BY <1>1, <1>2, <1>3

LEMMA WriteManifestTypes ==
    ASSUME FileTypes, NEW r \in Runs, NEW content \in Manifests \cup {Torn, Absent},
           WriteManifest(r, content)
    PROVE  FileTypes'
  BY DEF FileTypes, WriteManifest, DisturbStamp

\* The steps before the first write.
LEMMA StagingTypes ==
    ASSUME Types, NEW r \in Runs,
           \/ CopyFile(r) \/ AgentEdits(r) \/ Diff(r) \/ StagingFails(r)
           \/ NothingChanged(r) \/ StagedOnly(r) \/ ValidationsPass(r) \/ ValidationFails(r)
    PROVE  Types'
<1>. USE DEF At
<1>1. FileTypes'
  BY DEF Types, FileTypes, NoWrite, files, CopyFile, AgentEdits, Diff, StagingFails,
         NothingChanged, StagedOnly, ValidationsPass, ValidationFails
<1>2. UndoTypes'
  BY DEF Types, UndoTypes, undoing, IsUndoing, CopyFile, AgentEdits, Diff, StagingFails,
         NothingChanged, StagedOnly, ValidationsPass, ValidationFails
<1>3. validated' \subseteq Runs
  BY DEF Types, CopyFile, AgentEdits, Diff, StagingFails, NothingChanged, StagedOnly,
         ValidationsPass, ValidationFails
<1>4. WorkTypes'
  <2>1. CASE CopyFile(r)
    <3>1. pc[r] \in Visiting /\ Path(r) \in Paths
      BY <2>1, PathIsPath DEF CopyFile, Visiting, Types
    <3>2. staging' \in [Runs -> Trees] /\ before' \in [Runs -> Trees]
      BY <2>1, <3>1 DEF CopyFile, Types, WorkTypes, FileTypes, Trees
    <3>. QED
      BY <2>1, <3>1, <3>2, VisitedTypes
      DEF CopyFile, Types, WorkTypes, Visiting, Applying, Labels
  <2>2. CASE AgentEdits(r)
    <3>1. staging' \in [Runs -> Trees]
      BY <2>2 DEF AgentEdits, Types, WorkTypes
    <3>2. /\ todo' = [todo EXCEPT ![r] = ScopeOf[r]]
          /\ pc' = [pc EXCEPT ![r] = "diff"]
          /\ UNCHANGED <<before, changes, buf, outcome>>
      BY <2>2 DEF AgentEdits, Goto
    <3>3. ScopeOf[r] \in SUBSET Paths /\ ScopeOf[r] # {}
      BY AgentAssumption
    <3>. QED
      BY <3>1, <3>2, <3>3 DEF Types, WorkTypes, Visiting, Applying, Labels
  <2>3. CASE Diff(r)
    <3>1. pc[r] \in Visiting /\ Path(r) \in Paths
      BY <2>3, PathIsPath DEF Diff, Visiting, Types
    <3>2. changes' \in [Runs -> ChangeSets]
      <4>. DEFINE p == Path(r)
                  change == TypeOfChange(target[p], staging[r][p])
                  withChange == [q \in DOMAIN changes[r] \cup {p} |->
                                    IF q = p THEN change ELSE changes[r][q]]
      <4>1. change \in ChangeTypes
        BY DEF TypeOfChange, ChangeTypes
      <4>2. withChange \in ChangeSets
        <5>1. changes[r] \in ChangeSets
          BY DEF Types, WorkTypes
        <5>2. DOMAIN changes[r] \cup {p} \in SUBSET Paths
          BY <3>1, <5>1, EmptyChanges
        <5>3. withChange \in [DOMAIN changes[r] \cup {p} -> ChangeTypes]
          BY <4>1, <5>1, EmptyChanges
        <5>. QED
          BY <5>2, <5>3 DEF ChangeSets, ChangeTypes
      <4>3. changes' = changes \/ changes' = [changes EXCEPT ![r] = withChange]
        BY <2>3 DEF Diff
      <4>. QED
        BY <4>2, <4>3 DEF Types, WorkTypes
    <3>3. \A s \in Runs \ {r} : changes'[s] = changes[s]
      BY <2>3 DEF Diff, Types, WorkTypes
    <3>4. /\ todo' \in [Runs -> SUBSET Paths]
          /\ pc' \in [Runs -> Labels] /\ outcome' = outcome
          /\ \A s \in Runs \ {r} : todo'[s] = todo[s] /\ pc'[s] = pc[s]
          /\ pc'[r] = "diff" => todo'[r] # {}
          /\ pc'[r] \in {"diff", "validate"}
      BY <2>3, <3>1, VisitedTypes DEF Diff, Types, Labels
    <3>5. UNCHANGED <<staging, before, buf>>
      BY <2>3 DEF Diff
    <3>. QED
      BY <3>2, <3>3, <3>4, <3>5 DEF Types, WorkTypes, Visiting, Applying
  <2>4. CASE ValidationsPass(r)
    <3>1. changes[r] \in ChangeSets /\ changes[r] # NoChanges
      BY <2>4 DEF ValidationsPass, Types, WorkTypes
    <3>2. DOMAIN changes[r] \in SUBSET Paths /\ DOMAIN changes[r] # {}
      BY <3>1, EmptyChanges
    <3>3. staging' \in [Runs -> Trees]
      BY <2>4 DEF ValidationsPass, ValidatedTrees, Types, WorkTypes
    <3>4. /\ todo' = [todo EXCEPT ![r] = DOMAIN changes[r]]
          /\ pc' = [pc EXCEPT ![r] = "apply"]
          /\ UNCHANGED <<before, changes, buf, outcome>>
      BY <2>4 DEF ValidationsPass, Goto
    <3>. QED
      BY <3>1, <3>2, <3>3, <3>4 DEF Types, WorkTypes, Visiting, Applying, Labels
  <2>5. CASE StagingFails(r) \/ NothingChanged(r) \/ StagedOnly(r) \/ ValidationFails(r)
    BY <2>5, ReturnTypes
    DEF StagingFails, NothingChanged, StagedOnly, ValidationFails, Types, Outcomes
  <2>. QED
    BY <2>1, <2>2, <2>3, <2>4, <2>5
<1>. QED
  BY <1>1, <1>2, <1>3, <1>4 DEF Types

\* A step of a run from one place to another that has the same files still to visit.
LEMMA GotoTypes ==
    ASSUME WorkTypes, NEW r \in Runs, NEW label \in Labels, Goto(r, label),
           label \in Visiting => pc[r] \in Visiting,
           label \in Applying => pc[r] \in Applying,
           UNCHANGED <<staging, before, changes, todo>>,
           buf' \in [Runs -> Contents \cup {Absent}]
    PROVE  WorkTypes'
  BY DEF WorkTypes, Goto

LEMMA ApplyTypes ==
    ASSUME Types, NEW r \in Runs,
           \/ OpenBackup(r) \/ FillBackup(r) \/ OpenTarget(r) \/ FillTarget(r) \/ Remove(r)
           \/ OpenManifest(r) \/ FillManifest(r) \/ ApplyFails(r)
           \/ ProbePasses(r) \/ ProbeFails(r)
    PROVE  Types'
<1>. USE DEF At
<1>1. Torn \in Contents /\ Labels = Labels \cup Visiting \cup Applying \cup {"probe", "rollback"}
  BY DEF Contents, Labels, Visiting, Applying
<1>2. UndoTypes' /\ validated' \subseteq Runs
  BY DEF Types, UndoTypes, undoing, IsUndoing, OpenBackup, FillBackup, OpenTarget, FillTarget,
         Remove, OpenManifest, FillManifest, ApplyFails, ProbePasses, ProbeFails
<1>3. CASE OpenBackup(r) \/ FillBackup(r)
  <2>1. Path(r) \in Paths /\ pc[r] \in Visiting
    BY <1>3, PathIsPath DEF OpenBackup, FillBackup, Visiting, Types
  <2>2. target[Path(r)] \in Contents \cup {Absent} /\ buf[r] \in Contents \cup {Absent}
    BY <2>1 DEF Types, FileTypes, WorkTypes, Trees
  <2>3. buf' \in [Runs -> Contents \cup {Absent}]
    BY <1>3, <2>2 DEF OpenBackup, FillBackup, Types, WorkTypes
  <2>4. WorkTypes'
    BY <1>1, <1>3, <2>3, GotoTypes
    DEF OpenBackup, FillBackup, Types, Visiting, Applying
  <2>5. FileTypes'
    BY <1>1, <1>3, <2>1, <2>2, WriteTypes DEF OpenBackup, FillBackup, Types
  <2>. QED
    BY <1>2, <2>4, <2>5 DEF Types
<1>4. CASE OpenTarget(r)
  <2>1. Path(r) \in Paths
    BY <1>4, PathIsPath DEF OpenTarget, Visiting, Types
  <2>2. WorkTypes'
    BY <1>1, <1>4, GotoTypes DEF OpenTarget, Types, WorkTypes, work, Visiting, Applying
  <2>3. FileTypes'
    BY <1>1, <1>4, <2>1, WriteTypes DEF OpenTarget, Types
  <2>. QED
    BY <1>2, <2>2, <2>3 DEF Types
<1>5. CASE FillTarget(r) \/ Remove(r)
  <2>1. Path(r) \in Paths /\ pc[r] \in Visiting /\ pc[r] \in Applying
    BY <1>5, PathIsPath DEF FillTarget, Remove, Visiting, Applying, Types
  <2>2. staging[r][Path(r)] \in Contents \cup {Absent}
    BY <2>1 DEF Types, WorkTypes, Trees
  <2>3. FileTypes'
    BY <1>5, <2>1, <2>2, WriteTypes DEF FillTarget, Remove, Types
  <2>4. /\ todo' \in [Runs -> SUBSET Paths]
        /\ pc' \in [Runs -> Labels] /\ outcome' = outcome
        /\ \A s \in Runs \ {r} : todo'[s] = todo[s] /\ pc'[s] = pc[s]
        /\ pc'[r] = "apply" => todo'[r] # {}
        /\ pc'[r] \in {"apply", "manifest"}
    BY <1>5, <2>1, VisitedTypes DEF FillTarget, Remove, Types, Labels
  <2>5. UNCHANGED <<staging, before, changes, buf>>
    BY <1>5 DEF FillTarget, Remove
  <2>6. WorkTypes'
    BY <2>1, <2>4, <2>5 DEF Types, WorkTypes, Visiting, Applying
  <2>. QED
    BY <1>2, <2>3, <2>6 DEF Types
<1>6. CASE OpenManifest(r) \/ FillManifest(r)
  <2>1. ManifestOf(r) \in Manifests
    BY <1>6 DEF OpenManifest, FillManifest, Types, WorkTypes, Applying, ManifestOf, Manifests
  <2>2. FileTypes'
    BY <1>6, <2>1, WriteManifestTypes DEF OpenManifest, FillManifest, Types
  <2>3. WorkTypes'
    BY <1>1, <1>6, GotoTypes
    DEF OpenManifest, FillManifest, Types, WorkTypes, work, Visiting, Applying
  <2>. QED
    BY <1>2, <2>2, <2>3 DEF Types
<1>7. CASE ApplyFails(r) \/ ProbePasses(r)
  <2>1. WorkTypes'
    BY <1>7, ReturnTypes DEF ApplyFails, ProbePasses, Types, Outcomes
  <2>2. FileTypes'
    BY <1>7 DEF ApplyFails, ProbePasses, Types, FileTypes, NoWrite, files
  <2>. QED
    BY <1>2, <2>1, <2>2 DEF Types
<1>8. CASE ProbeFails(r)
  <2>1. WorkTypes'
    BY <1>1, <1>8, GotoTypes DEF ProbeFails, Types, WorkTypes, work, Visiting, Applying
  <2>2. FileTypes'
    BY <1>8 DEF ProbeFails, Types, FileTypes, NoWrite, files
  <2>. QED
    BY <1>2, <2>1, <2>2 DEF Types
<1>. QED
  BY <1>3, <1>4, <1>5, <1>6, <1>7, <1>8

LEMMA BeginUndoTypes ==
    ASSUME Types, NEW u \in Undoers, NEW t \in Stamps, BeginUndo(u, t)
    PROVE  /\ undo' \in [Undoers -> Undos \cup {NoUndo}]
           /\ rollback' \in [Runs -> {"none", "begun", "done"}]
           /\ FileTypes'
<1>1. manifest[t] \in Manifests
  BY DEF BeginUndo, Types, FileTypes
<1>2. manifest[t].by \in Runs /\ manifest[t].entries \in ChangeSets \ {NoChanges}
  BY <1>1 DEF Manifests
<1>3. Undo(t) \in Undos
  BY <1>1, <1>2, EmptyChanges DEF Undo, Undos
<1>4. undo' = [undo EXCEPT ![u] = Undo(t)] /\ rollback' = [rollback EXCEPT ![manifest[t].by] = "begun"]
  BY DEF BeginUndo
<1>5. FileTypes'
  BY <1>2 DEF BeginUndo, files, Types, FileTypes
<1>. QED
  BY <1>3, <1>4, <1>5 DEF Types, UndoTypes

LEMMA UndoReturnsTypes ==
    ASSUME Types, NEW u \in Undoers, NEW result \in Outcomes, UndoReturns(u, result)
    PROVE  WorkTypes' /\ undo' \in [Undoers -> Undos \cup {NoUndo}]
<1>1. WorkTypes'
  <2>1. CASE u \in Runs
    BY <2>1, ReturnTypes DEF UndoReturns, Types
  <2>2. CASE u \notin Runs
    BY <2>2 DEF UndoReturns, Types, WorkTypes, work
  <2>. QED
    BY <2>1, <2>2
<1>. QED
  BY <1>1 DEF UndoReturns, Types, UndoTypes

LEMMA EntryUndoneTypes ==
    ASSUME Types, NEW u \in Undoers, IsUndoing(u), EntryUndone(u)
    PROVE  /\ WorkTypes'
           /\ undo' \in [Undoers -> Undos \cup {NoUndo}]
           /\ rollback' \in [Runs -> {"none", "begun", "done"}]
<1>1. CASE undo[u].todo = {UndoPath(u)}
  BY <1>1, UndoReturnsTypes, UndoFields DEF EntryUndone, Types, UndoTypes, Outcomes
<1>2. CASE undo[u].todo # {UndoPath(u)}
  <2>1. undo[u] \in Undos /\ undo[u].todo \ {UndoPath(u)} \in (SUBSET Paths) \ {{}}
    BY <1>2, UndoFields DEF Types
  <2>2. [undo[u] EXCEPT !.todo = @ \ {UndoPath(u)}, !.buf = Absent] \in Undos
    BY <2>1 DEF Undos
  <2>3. undo' = [undo EXCEPT ![u] = [undo[u] EXCEPT !.todo = @ \ {UndoPath(u)}, !.buf = Absent]]
    BY <1>2 DEF EntryUndone, Types, UndoTypes
  <2>. QED
    BY <1>2, <2>2, <2>3 DEF EntryUndone, Types, UndoTypes, WorkTypes, work
<1>. QED
  BY <1>1, <1>2

LEMMA UndoingTypes ==
    ASSUME Types, NEW u \in Undoers,
           RemoveCreated(u) \/ OpenRestore(u) \/ FillRestore(u) \/ UndoFails(u)
    PROVE  Types'
<1>1. /\ IsUndoing(u) /\ undo[u] \in Undos
      /\ undo[u].stamp \in Stamps /\ undo[u].manifest.by \in Runs
      /\ undo[u].buf \in Contents \cup {Absent} /\ UndoPath(u) \in Paths
  BY UndoFields DEF Types, RemoveCreated, OpenRestore, FillRestore, UndoFails
<1>2. undos' \in 0 .. MaxUndos /\ validated' \subseteq Runs
  BY DEF Types, UndoTypes, RemoveCreated, OpenRestore, FillRestore, UndoFails
<1>3. CASE RemoveCreated(u) \/ FillRestore(u)
  <2>1. FileTypes'
    BY <1>1, <1>3, WriteTypes DEF RemoveCreated, FillRestore, Types
  <2>2. EntryUndone(u)
    BY <1>3 DEF RemoveCreated, FillRestore
  <2>. QED
    BY <1>1, <1>2, <2>1, <2>2, EntryUndoneTypes DEF Types, UndoTypes
<1>4. CASE OpenRestore(u)
  <2>. DEFINE saved == backup[undo[u].stamp][UndoPath(u)]
  <2>1. saved \in Contents \cup {Absent}
    BY <1>1 DEF Types, FileTypes, Trees
  <2>2. [undo[u] EXCEPT !.buf = saved] \in Undos
    BY <1>1, <2>1 DEF Undos
  <2>3. undo' = [undo EXCEPT ![u] = [undo[u] EXCEPT !.buf = saved]]
    BY <1>4 DEF OpenRestore, Types, UndoTypes
  <2>4. WriteTarget(UndoPath(u), Torn, undo[u].manifest.by) /\ Torn \in Contents
    BY <1>4 DEF OpenRestore, Contents
  <2>5. FileTypes'
    BY <1>1, <2>4, WriteTypes DEF Types
  <2>6. WorkTypes' /\ rollback' = rollback
    BY <1>4 DEF OpenRestore, Types, WorkTypes, work
  <2>. QED
    BY <1>2, <2>2, <2>3, <2>5, <2>6 DEF Types, UndoTypes
<1>5. CASE UndoFails(u)
  <2>1. FileTypes' /\ rollback' = rollback
    BY <1>5 DEF UndoFails, Types, FileTypes, NoWrite, files
  <2>. QED
    BY <1>2, <1>5, <2>1, UndoReturnsTypes DEF UndoFails, Types, UndoTypes, Outcomes
<1>. QED
  BY <1>3, <1>4, <1>5

LEMMA TypesStep == Types /\ [Next]_vars => Types'
<1>. SUFFICES ASSUME Types, [Next]_vars PROVE Types'
  OBVIOUS
<1>1. ASSUME NEW r \in Runs, RunUndoes(r) PROVE Types'
  <2>1. StampOf[r] \in Stamps /\ r \in Undoers
    BY DEF Stamps, Undoers
  <2>2. WorkTypes'
    BY <1>1, GotoTypes
    DEF RunUndoes, BeginUndo, Types, WorkTypes, work, Labels, Visiting, Applying
  <2>3. undos' = undos /\ validated' = validated /\ BeginUndo(r, StampOf[r])
    BY <1>1 DEF RunUndoes, BeginUndo
  <2>. QED
    BY <2>1, <2>2, <2>3, BeginUndoTypes DEF Types, UndoTypes
<1>2. ASSUME NEW t \in Stamps, OperatorUndoes(t) PROVE Types'
  <2>1. WorkTypes' /\ validated' = validated
    BY <1>2 DEF OperatorUndoes, BeginUndo, Types, WorkTypes, work
  <2>2. undos' \in 0 .. MaxUndos
    BY <1>2, AgentAssumption DEF OperatorUndoes, Types, UndoTypes
  <2>. QED
    BY <1>2, <2>1, <2>2, BeginUndoTypes DEF OperatorUndoes, Types, UndoTypes, Undoers
<1>3. ASSUME NEW r \in Runs, ManifestUnreadable(r) \/ Crash(r) PROVE Types'
  <2>1. WorkTypes'
    BY <1>3, ReturnTypes DEF ManifestUnreadable, Crash, Types, Outcomes
  <2>. QED
    BY <1>3, <2>1
    DEF ManifestUnreadable, Crash, Types, FileTypes, UndoTypes, NoWrite, files, undoing
<1>4. CASE UNCHANGED vars
  BY <1>4 DEF vars, work, files, undoing, Types, WorkTypes, FileTypes, UndoTypes
<1>. QED
  BY <1>1, <1>2, <1>3, <1>4, StagingTypes, ApplyTypes, UndoingTypes DEF Next

-----------------------------------------------------------------------------
(* Only validated patches                                                  *)

\* What is not the work of an agent, or of one whose changes passed the validations.
Clean(content) == content \in Runs => content \in validated

\* The work of an agent without validated changes is nowhere but in its own staging copy.
CleanFiles ==
    /\ \A p \in Paths : Clean(target[p])
    /\ \A t \in Stamps : \A p \in Paths : Clean(backup[t][p])

CleanWork ==
    \A r \in Runs :
        /\ pc[r] \in Applying => r \in validated
        /\ Clean(buf[r])
        /\ \A p \in Paths : staging[r][p] = r \/ Clean(staging[r][p])

CleanUndo == \A u \in Undoers : IsUndoing(u) => Clean(undo[u].buf)

CleanInv == CleanFiles /\ CleanWork /\ CleanUndo

LEMMA NobodysWork == Clean(Original) /\ Clean(Torn) /\ Clean(Absent)
  BY AgentAssumption DEF Clean

LEMMA CleanWrite ==
    ASSUME Types, CleanFiles, NEW r \in Runs, NEW p \in Paths, NEW content, Clean(content),
           validated' = validated,
           \/ WriteTarget(p, content, r)
           \/ p = Path(r) /\ WriteBackup(r, content)
    PROVE  CleanFiles'
<1>1. CASE WriteTarget(p, content, r)
  <2>1. \A q \in Paths : target'[q] = IF q = p THEN content ELSE target[q]
    BY <1>1 DEF WriteTarget, Types, FileTypes, Trees
  <2>2. backup' = backup
    BY <1>1 DEF WriteTarget
  <2>. QED
    BY <2>1, <2>2 DEF CleanFiles, Clean
<1>2. CASE p = Path(r) /\ WriteBackup(r, content)
  <2>1. \A t \in Stamps : \A q \in Paths :
           backup'[t][q] = content \/ backup'[t][q] = backup[t][q]
    BY <1>2 DEF WriteBackup, Types, FileTypes, Trees
  <2>2. target' = target
    BY <1>2 DEF WriteBackup
  <2>. QED
    BY <2>1, <2>2 DEF CleanFiles, Clean
<1>. QED
  BY <1>1, <1>2

\* A step that writes a manifest or nothing.
LEMMA CleanAside ==
    ASSUME CleanFiles, validated' = validated,
           NoWrite \/ \E r \in Runs : \E content : WriteManifest(r, content)
    PROVE  CleanFiles'
  BY DEF CleanFiles, Clean, NoWrite, files, WriteManifest

LEMMA CleanReturn ==
    ASSUME WorkTypes, CleanWork, NEW r \in Runs, NEW result, Return(r, result),
           validated \subseteq validated'
    PROVE  CleanWork'
<1>1. \A s \in Runs \ {r} : pc'[s] = pc[s] /\ buf'[s] = buf[s] /\ staging'[s] = staging[s]
  BY DEF WorkTypes, Return
<1>2. pc'[r] = "done" /\ buf'[r] = Absent /\ \A p \in Paths : staging'[r][p] = Absent
  BY DEF WorkTypes, Return, EmptyTree
<1>. QED
  BY <1>1, <1>2, AgentAssumption DEF CleanWork, Clean, Applying

LEMMA CleanStaging ==
    ASSUME Types, CleanInv, NEW r \in Runs,
           \/ CopyFile(r) \/ AgentEdits(r) \/ Diff(r) \/ StagingFails(r)
           \/ NothingChanged(r) \/ StagedOnly(r) \/ ValidationsPass(r) \/ ValidationFails(r)
    PROVE  CleanInv'
<1>. USE DEF At
<1>1. validated \subseteq validated' /\ NoWrite /\ undo' = undo
  BY DEF undoing, CopyFile, AgentEdits, Diff, StagingFails, NothingChanged, StagedOnly,
         ValidationsPass, ValidationFails
<1>2. CleanFiles' /\ CleanUndo'
  BY <1>1 DEF CleanInv, CleanFiles, CleanUndo, Clean, NoWrite, files, IsUndoing
<1>3. CleanWork'
  <2>1. CASE CopyFile(r)
    <3>1. Path(r) \in Paths
      BY <2>1, PathIsPath DEF CopyFile, Visiting, Types
    <3>2. \A s \in Runs : \A p \in Paths :
             staging'[s][p] = staging[s][p] \/ staging'[s][p] = target[p]
      BY <2>1, <3>1 DEF CopyFile, Types, WorkTypes, Trees
    <3>3. /\ buf' = buf /\ validated' = validated
          /\ \A s \in Runs : pc'[s] \in Applying => pc[s] \in Applying
      BY <2>1 DEF CopyFile, Visited, Goto, Types, WorkTypes, Applying
    <3>. QED
      BY <3>2, <3>3 DEF CleanInv, CleanWork, CleanFiles, Clean
  <2>2. CASE AgentEdits(r)
    <3>1. PICK tree \in Trees :
               /\ \A p \in ScopeOf[r] : tree[p] \in {staging[r][p], r, Absent}
               /\ \A p \in Paths \ ScopeOf[r] : tree[p] = staging[r][p]
               /\ staging' = [staging EXCEPT ![r] = tree]
      BY <2>2 DEF AgentEdits
    <3>2. \A s \in Runs : \A p \in Paths :
             \/ staging'[s][p] = staging[s][p]
             \/ s = r /\ staging'[s][p] \in {r, Absent}
      BY <3>1 DEF Types, WorkTypes
    <3>3. /\ buf' = buf /\ validated' = validated
          /\ \A s \in Runs : pc'[s] \in Applying => pc[s] \in Applying
      BY <2>2 DEF AgentEdits, Goto, Types, WorkTypes, Applying
    <3>. QED
      BY <3>2, <3>3, AgentAssumption DEF CleanInv, CleanWork, Clean
  <2>3. CASE Diff(r)
    <3>1. /\ UNCHANGED <<staging, buf, validated>>
          /\ \A s \in Runs : pc'[s] \in Applying => pc[s] \in Applying
      BY <2>3 DEF Diff, Visited, Goto, Types, WorkTypes, Applying
    <3>. QED
      BY <3>1 DEF CleanInv, CleanWork, Clean
  <2>4. CASE ValidationsPass(r)
    <3>1. /\ buf' = buf /\ validated' = validated \cup {r}
          /\ \A s \in Runs \ {r} : pc'[s] = pc[s]
      BY <2>4 DEF ValidationsPass, Goto, Types, WorkTypes
    <3>2. PICK tree \in ValidatedTrees(r) : staging' = [staging EXCEPT ![r] = tree]
      BY <2>4 DEF ValidationsPass
    <3>3. \A s \in Runs : \A p \in Paths :
             staging'[s][p] = staging[s][p] \/ staging'[s][p] \in {Rewritten, Absent}
      BY <3>2 DEF ValidatedTrees, Types, WorkTypes
    <3>. QED
      BY <3>1, <3>3, AgentAssumption DEF CleanInv, CleanWork, Clean
  <2>5. CASE StagingFails(r) \/ NothingChanged(r) \/ StagedOnly(r) \/ ValidationFails(r)
    BY <1>1, <2>5, CleanReturn
    DEF StagingFails, NothingChanged, StagedOnly, ValidationFails, CleanInv, Types
  <2>. QED
    BY <2>1, <2>2, <2>3, <2>4, <2>5
<1>. QED
  BY <1>2, <1>3 DEF CleanInv

\* A step of a run that does not begin to apply its changes, leaves the staging copies
\* alone and reads at most what is clean.
LEMMA CleanGoto ==
    ASSUME CleanWork, UNCHANGED <<staging, validated>>,
           \A s \in Runs : pc'[s] \in Applying => pc[s] \in Applying,
           \A s \in Runs : buf'[s] = buf[s] \/ Clean(buf'[s])
    PROVE  CleanWork'
  BY DEF CleanWork, Clean

LEMMA CleanApply ==
    ASSUME Types, CleanInv, NEW r \in Runs,
           \/ OpenBackup(r) \/ FillBackup(r) \/ OpenTarget(r) \/ FillTarget(r) \/ Remove(r)
           \/ OpenManifest(r) \/ FillManifest(r) \/ ApplyFails(r)
           \/ ProbePasses(r) \/ ProbeFails(r)
    PROVE  CleanInv'
<1>. USE DEF At
<1>1. validated' = validated /\ undo' = undo
  BY DEF undoing, OpenBackup, FillBackup, OpenTarget, FillTarget, Remove, OpenManifest,
         FillManifest, ApplyFails, ProbePasses, ProbeFails
<1>2. CleanUndo'
  BY <1>1 DEF CleanInv, CleanUndo, Clean, IsUndoing
<1>3. CASE OpenBackup(r) \/ FillBackup(r)
  <2>1. Path(r) \in Paths
    BY <1>3, PathIsPath DEF OpenBackup, FillBackup, Visiting, Types
  <2>2. Clean(target[Path(r)]) /\ Clean(buf[r])
    BY <2>1 DEF CleanInv, CleanFiles, CleanWork
  <2>3. CleanFiles'
    BY <1>1, <1>3, <2>1, <2>2, NobodysWork, CleanWrite
    DEF OpenBackup, FillBackup, CleanInv
  <2>4. \A s \in Runs : /\ pc'[s] \in Applying => pc[s] \in Applying
                        /\ buf'[s] = buf[s] \/ Clean(buf'[s])
    BY <1>3, <2>2, NobodysWork
    DEF OpenBackup, FillBackup, Goto, Applying, Types, WorkTypes
  <2>5. CleanWork'
    BY <1>1, <1>3, <2>4, CleanGoto DEF OpenBackup, FillBackup, CleanInv
  <2>. QED
    BY <1>2, <2>3, <2>5 DEF CleanInv
<1>4. CASE OpenTarget(r) \/ FillTarget(r) \/ Remove(r)
  <2>1. Path(r) \in Paths
    BY <1>4, PathIsPath DEF OpenTarget, FillTarget, Remove, Visiting, Types
  <2>2. Clean(staging[r][Path(r)])
    BY <1>4, <2>1
    DEF OpenTarget, FillTarget, Remove, Applying, CleanInv, CleanWork, Clean
  <2>3. CleanFiles'
    BY <1>1, <1>4, <2>1, <2>2, NobodysWork, CleanWrite
    DEF OpenTarget, FillTarget, Remove, CleanInv
  <2>4. /\ UNCHANGED <<staging, buf>>
        /\ \A s \in Runs : pc'[s] \in Applying => pc[s] \in Applying
    BY <1>4
    DEF OpenTarget, FillTarget, Remove, Visited, Goto, work, Applying, Types, WorkTypes
  <2>5. CleanWork'
    BY <1>1, <2>4, CleanGoto DEF CleanInv
  <2>. QED
    BY <1>2, <2>3, <2>5 DEF CleanInv
<1>5. CASE OpenManifest(r) \/ FillManifest(r) \/ ProbeFails(r)
  <2>1. CleanFiles'
    BY <1>1, <1>5, NobodysWork, CleanAside
    DEF OpenManifest, FillManifest, ProbeFails, CleanInv
  <2>2. /\ UNCHANGED <<staging, buf>>
        /\ \A s \in Runs : pc'[s] \in Applying => pc[s] \in Applying
    BY <1>5 DEF OpenManifest, FillManifest, ProbeFails, Goto, work, Applying, Types, WorkTypes
  <2>3. CleanWork'
    BY <1>1, <2>2, CleanGoto DEF CleanInv
  <2>. QED
    BY <1>2, <2>1, <2>3 DEF CleanInv
<1>6. CASE ApplyFails(r) \/ ProbePasses(r)
  <2>1. CleanFiles'
    BY <1>1, <1>6, CleanAside DEF ApplyFails, ProbePasses, CleanInv
  <2>2. CleanWork'
    BY <1>1, <1>6, CleanReturn DEF ApplyFails, ProbePasses, Types, CleanInv
  <2>. QED
    BY <1>2, <2>1, <2>2 DEF CleanInv
<1>. QED
  BY <1>3, <1>4, <1>5, <1>6

\* What an undoer restores comes from a backup.
LEMMA CleanUndoing ==
    ASSUME Types, CleanInv, NEW u \in Undoers,
           RemoveCreated(u) \/ OpenRestore(u) \/ FillRestore(u) \/ UndoFails(u)
    PROVE  CleanInv'
<1>1. /\ IsUndoing(u) /\ undo[u].stamp \in Stamps /\ undo[u].manifest.by \in Runs
      /\ UndoPath(u) \in Paths /\ Clean(undo[u].buf)
  BY UndoFields DEF Types, CleanInv, CleanUndo, RemoveCreated, OpenRestore, FillRestore,
                    UndoFails
<1>2. validated' = validated
  BY DEF RemoveCreated, OpenRestore, FillRestore, UndoFails
<1>3. CleanFiles'
  <2>1. CASE UndoFails(u)
    BY <1>2, <2>1, CleanAside DEF UndoFails, CleanInv
  <2>2. CASE RemoveCreated(u) \/ OpenRestore(u) \/ FillRestore(u)
    BY <1>1, <1>2, <2>2, NobodysWork, CleanWrite
    DEF RemoveCreated, OpenRestore, FillRestore, CleanInv
  <2>. QED
    BY <2>1, <2>2
<1>4. CleanWork'
  <2>1. CASE u \in Runs /\ \E result : Return(u, result)
    BY <1>2, <2>1, CleanReturn DEF Types, CleanInv
  <2>2. CASE UNCHANGED <<pc, work>>
    BY <1>2, <2>2 DEF work, CleanInv, CleanWork, Clean
  <2>. QED
    BY <2>1, <2>2
    DEF RemoveCreated, OpenRestore, FillRestore, UndoFails, EntryUndone, UndoReturns
<1>5. CleanUndo'
  <2>1. Clean(backup[undo[u].stamp][UndoPath(u)])
    BY <1>1 DEF CleanInv, CleanFiles
  <2>2. /\ \A w \in Undoers \ {u} : undo'[w] = undo[w]
        /\ undo'[u] = NoUndo \/ Clean(undo'[u].buf)
    <3>1. CASE OpenRestore(u)
      BY <1>1, <2>1, <3>1 DEF OpenRestore, Types, UndoTypes, Undos
    <3>2. CASE UndoFails(u)
      BY <3>2 DEF UndoFails, UndoReturns, Types, UndoTypes
    <3>3. CASE EntryUndone(u)
      BY <1>1, <3>3, NobodysWork, UndoFields
      DEF EntryUndone, UndoReturns, Types, UndoTypes, Undos
    <3>. QED
      BY <3>1, <3>2, <3>3 DEF RemoveCreated, FillRestore
  <2>. QED
    BY <1>2, <2>2 DEF CleanInv, CleanUndo, Clean, IsUndoing
<1>. QED
  BY <1>3, <1>4, <1>5 DEF CleanInv

LEMMA CleanStep == Types /\ CleanInv /\ [Next]_vars => CleanInv'
<1>. SUFFICES ASSUME Types, CleanInv, [Next]_vars PROVE CleanInv'
  OBVIOUS
<1>1. ASSUME NEW u \in Undoers, NEW t \in Stamps, BeginUndo(u, t), pc' = pc \/ RunUndoes(u)
      PROVE  CleanInv'
  <2>1. CleanFiles' /\ validated' = validated
    BY <1>1 DEF BeginUndo, files, CleanInv, CleanFiles, Clean
  <2>2. CleanWork'
    <3>1. \A s \in Runs : pc'[s] \in Applying => pc[s] \in Applying
      BY <1>1 DEF RunUndoes, Goto, Applying, Types, WorkTypes
    <3>. QED
      BY <1>1, <2>1, <3>1, CleanGoto DEF BeginUndo, work, CleanInv
  <2>3. /\ \A w \in Undoers \ {u} : undo'[w] = undo[w]
        /\ undo'[u].buf = Absent
    BY <1>1 DEF BeginUndo, Undo, Types, UndoTypes
  <2>. QED
    BY <2>1, <2>2, <2>3, NobodysWork DEF CleanInv, CleanUndo, Clean, IsUndoing
<1>2. ASSUME NEW r \in Runs, ManifestUnreadable(r) \/ Crash(r) PROVE CleanInv'
  <2>1. CleanFiles' /\ validated' = validated
    BY <1>2, CleanAside DEF ManifestUnreadable, Crash, CleanInv
  <2>2. CleanWork'
    BY <1>2, <2>1, CleanReturn DEF ManifestUnreadable, Crash, Types, CleanInv
  <2>3. \A w \in Undoers : undo'[w] \in {undo[w], NoUndo}
    BY <1>2 DEF ManifestUnreadable, Crash, undoing, Types, UndoTypes
  <2>. QED
    BY <2>1, <2>2, <2>3 DEF CleanInv, CleanUndo, Clean, IsUndoing
<1>3. CASE UNCHANGED vars
  BY <1>3
  DEF vars, work, files, undoing, CleanInv, CleanFiles, CleanWork, CleanUndo, Clean, IsUndoing
<1>4. ASSUME NEW r \in Runs, RunUndoes(r) PROVE CleanInv'
  BY <1>1, <1>4 DEF RunUndoes, Undoers, Stamps
<1>5. ASSUME NEW t \in Stamps, OperatorUndoes(t) PROVE CleanInv'
  BY <1>1, <1>5 DEF OperatorUndoes, Undoers
<1>. QED
  BY <1>2, <1>3, <1>4, <1>5, CleanStaging, CleanApply, CleanUndoing DEF Next

-----------------------------------------------------------------------------
(* Theorems                                                                *)

\* The invariant holds at every step.
THEOREM Inductive == Spec => [](Types /\ CleanInv)
<1>1. Init => CleanInv
  <2>. SUFFICES ASSUME Init PROVE CleanInv
    OBVIOUS
  <2>1. \A p \in Paths : target[p] \in {Original, Absent} /\ EmptyTree[p] = Absent
    BY DEF Init, EmptyTree
  <2>. QED
    BY <2>1, NobodysWork
    DEF Init, CleanInv, CleanFiles, CleanWork, CleanUndo, IsUndoing, Applying
<1>. QED
  BY <1>1, TypesInit, TypesStep, CleanStep, PTL DEF Spec

\* The variables of agentfix keep their types; a phase that visits files has one to visit.
THEOREM TypeCorrect == Spec => []TypeOK
  BY Inductive, TypesAreTypeOK, PTL

\* Whatever runs and operators share, no agent's work reaches the live tree before its
\* changes have passed the validations.
THEOREM OnlyValidatedPatchesHolds == Spec => []OnlyValidatedPatches
<1>1. CleanInv => OnlyValidatedPatches
  BY DEF CleanInv, CleanFiles, Clean, OnlyValidatedPatches
<1>. QED
  BY <1>1, Inductive, PTL

-----------------------------------------------------------------------------
(* What a run leaves for its rollback.  What can be said of a run is said  *)
(* of one that nobody has disturbed: a run whose files were written by     *)
(* others can rely on nothing.                                             *)

-----------------------------------------------------------------------------
(* Runs, manifests and rollbacks, disturbed or not                         *)

\* The places of a run that has written its manifest.
Late == {"probe", "rollback", "undoing", "done"}

HasManifest(t) == manifest[t] \notin {Torn, Absent}

\* Rollback u executes the manifest of run r.
Undoes(u, r) == IsUndoing(u) /\ undo[u].manifest.by = r

RunFits(r) ==
    /\ DOMAIN changes[r] \subseteq ScopeOf[r]
    /\ pc[r] \in {"copy", "diff"} => todo[r] \subseteq ScopeOf[r]
    /\ pc[r] \in Applying => todo[r] \subseteq DOMAIN changes[r]
    /\ pc[r] \in {"copy", "agent"} => changes[r] = NoChanges
    /\ pc[r] \in {"probe", "rollback", "undoing"} => changes[r] # NoChanges
    /\ pc[r] = "done" /\ changes[r] = NoChanges => before[r] = EmptyTree
    /\ IsUndoing(r) => pc[r] = "undoing"
    /\ rollback[r] # "none" => pc[r] \in Late /\ changes[r] # NoChanges

RunsFit == \A r \in Runs : RunFits(r)

\* A manifest lists the changes of the run that wrote it, and so does a rollback.
ManifestsFit ==
    /\ \A t \in Stamps : HasManifest(t) =>
          LET by == manifest[t].by
          IN  /\ pc[by] \in Late /\ StampOf[by] = t
              /\ manifest[t].entries = changes[by]
    /\ \A u \in Undoers : IsUndoing(u) =>
          LET by == undo[u].manifest.by
          IN  /\ pc[by] \in Late /\ StampOf[by] = undo[u].stamp
              /\ undo[u].manifest.entries = changes[by]
              /\ undo[u].todo \subseteq DOMAIN changes[by]

-----------------------------------------------------------------------------
(* A run that nobody has disturbed                                         *)

\* At most one rollback at a time executes its manifest, and before the run is over
\* only its own.
SoleUndoer(r) ==
    \A u, w \in Undoers : Undoes(u, r) =>
        /\ u = r \/ pc[r] = "done"
        /\ rollback[r] = "begun"
        /\ Undoes(w, r) => u = w

\* While it reads, the live tree is what it has read, and a file it takes for new was not
\* there.
IsRead(r, files_) == \A p \in files_ : before[r][p] = target[p]

CreatesAreNew(r) ==
    \A p \in DOMAIN changes[r] : changes[r][p] = "create" => before[r][p] = Absent

ReadingFits(r) ==
    /\ pc[r] = "copy" => /\ IsRead(r, ScopeOf[r] \ todo[r])
                         /\ \A p \in todo[r] : before[r][p] = Absent
    /\ pc[r] \in {"agent", "diff", "validate"} => IsRead(r, ScopeOf[r])
    /\ pc[r] \in {"diff", "validate"} => CreatesAreNew(r)

Saved(r, p) == backup[StampOf[r]][p] = before[r][p]

\* While it applies, each file is as it was found or as the patch leaves it, and what was
\* found is in the backup before it is written.
ApplyingFits(r) ==
    pc[r] \in {"apply", "fill backup", "write", "fill target"} =>
        /\ CreatesAreNew(r)
        /\ \A p \in ScopeOf[r] \ todo[r] : target[p] = Patched(r, p)
        /\ \A p \in todo[r] : p # Path(r) \/ pc[r] # "fill target" => target[p] = before[r][p]
        /\ \A p \in DOMAIN changes[r] \ todo[r] : changes[r][p] # "create" => Saved(r, p)
        /\ pc[r] \in {"write", "fill target"} /\ changes[r][Path(r)] # "create"
              => Saved(r, Path(r))
        /\ pc[r] = "fill backup" => buf[r] = before[r][Path(r)]
        /\ pc[r] = "fill target" => changes[r][Path(r)] # "delete"

IsApplied(r) ==
    pc[r] \in {"manifest", "fill manifest", "probe"} =>
        /\ CreatesAreNew(r)
        /\ \A p \in ScopeOf[r] : target[p] = Patched(r, p)

\* All that a rollback needs.
IsBacked(r) ==
    \A p \in ScopeOf[r] :
        /\ p \notin DOMAIN changes[r] => target[p] = before[r][p]
        /\ p \in DOMAIN changes[r] =>
              IF changes[r][p] = "create" THEN before[r][p] = Absent ELSE Saved(r, p)

BackedFits(r) ==
    \/ pc[r] \in {"manifest", "fill manifest", "probe", "rollback", "undoing"}
    \/ HasManifest(StampOf[r]) /\ manifest[StampOf[r]].by = r
    \/ rollback[r] # "none"
    => IsBacked(r)

\* What a run that was cut short leaves.
DoneFits(r) ==
    pc[r] = "done" => \A p \in ScopeOf[r] : before[r][p] \in {Absent, target[p]} \/ Saved(r, p)

\* A rollback has restored the files it has visited.
UndoFits(r) ==
    /\ \A u \in Undoers : Undoes(u, r) =>
          /\ \A p \in DOMAIN changes[r] \ undo[u].todo : target[p] = before[r][p]
          /\ undo[u].buf # Absent => undo[u].buf = before[r][UndoPath(u)]
    /\ rollback[r] = "done" => \A p \in ScopeOf[r] : target[p] = before[r][p]

Undisturbed(r) ==
    /\ SoleUndoer(r) /\ ReadingFits(r) /\ ApplyingFits(r) /\ IsApplied(r) /\ BackedFits(r)
    /\ DoneFits(r) /\ UndoFits(r)

RecoveryInv == RunsFit /\ ManifestsFit /\ \A r \in Runs \ disturbed : Undisturbed(r)

-----------------------------------------------------------------------------
(* What the steps leave alone                                              *)

\* The run is where it was, with what it had.
StaysPut(r) ==
    /\ pc'[r] = pc[r] /\ staging'[r] = staging[r] /\ before'[r] = before[r]
    /\ changes'[r] = changes[r] /\ todo'[r] = todo[r] /\ buf'[r] = buf[r]

\* The run returns to its caller or dies.
Stops(r) ==
    /\ pc[r] # "done" /\ \E result : Return(r, result)
    /\ undo' = [undo EXCEPT ![r] = NoUndo]
    /\ NoWrite /\ UNCHANGED rollback

\* The run goes on and executes no manifest.
Reads(r) == CopyFile(r) \/ AgentEdits(r) \/ Diff(r) \/ ValidationsPass(r)
Writes(r) ==
    \/ OpenBackup(r) \/ FillBackup(r) \/ OpenTarget(r) \/ FillTarget(r) \/ Remove(r)
    \/ OpenManifest(r) \/ FillManifest(r)
Proceeds(r) == Reads(r) \/ Writes(r) \/ ProbeFails(r)

LEMMA StopsWell ==
    ASSUME Types, RunsFit, NEW r \in Runs,
           \/ StagingFails(r) \/ NothingChanged(r) \/ StagedOnly(r) \/ ValidationFails(r)
           \/ ApplyFails(r) \/ ProbePasses(r) \/ ManifestUnreadable(r) \/ Crash(r)
           \/ UndoFails(r)
    PROVE  Stops(r)
<1>. USE DEF At, undoing, Stops
<1>1. r \in Undoers /\ undo \in [Undoers -> Undos \cup {NoUndo}]
  BY DEF Undoers, Types, UndoTypes
<1>2. pc[r] # "undoing" => undo = [undo EXCEPT ![r] = NoUndo]
  BY <1>1 DEF RunsFit, RunFits, IsUndoing
<1>3. CASE StagingFails(r) \/ NothingChanged(r) \/ StagedOnly(r) \/ ValidationFails(r)
  BY <1>2, <1>3 DEF StagingFails, NothingChanged, StagedOnly, ValidationFails
<1>4. CASE ApplyFails(r) \/ ProbePasses(r) \/ ManifestUnreadable(r)
  BY <1>2, <1>4 DEF ApplyFails, ProbePasses, ManifestUnreadable
<1>5. CASE Crash(r)
  BY <1>5 DEF Crash
<1>6. CASE UndoFails(r)
  <2>1. pc[r] = "undoing"
    BY <1>6 DEF UndoFails, RunsFit, RunFits
  <2>. QED
    BY <1>6, <2>1 DEF UndoFails, UndoReturns
<1>. QED
  BY <1>3, <1>4, <1>5, <1>6

LEMMA OthersStayPut ==
    ASSUME Types, NEW r \in Runs, NEW s \in Runs \ {r},
           \/ \E result : Return(r, result)
           \/ Proceeds(r)
    PROVE  StaysPut(s)
<1>. USE DEF Types, WorkTypes, StaysPut
<1>1. CASE \E result : Return(r, result)
  BY <1>1 DEF Return
<1>2. CASE Reads(r)
  BY <1>2 DEF Reads, CopyFile, AgentEdits, Diff, ValidationsPass, Visited, Goto
<1>3. CASE OpenBackup(r) \/ FillBackup(r) \/ OpenTarget(r)
  BY <1>3 DEF OpenBackup, FillBackup, OpenTarget, Goto, work
<1>4. CASE FillTarget(r) \/ Remove(r)
  BY <1>4 DEF FillTarget, Remove, Visited, Goto
<1>5. CASE OpenManifest(r) \/ FillManifest(r) \/ ProbeFails(r)
  BY <1>5 DEF OpenManifest, FillManifest, ProbeFails, Goto, work
<1>. QED
  BY <1>1, <1>2, <1>3, <1>4, <1>5 DEF Proceeds, Writes

LEMMA ProceedsQuietly == ASSUME NEW r \in Runs, Proceeds(r) PROVE UNCHANGED <<undo, rollback>>
  BY DEF Proceeds, Reads, Writes, undoing, CopyFile, AgentEdits, Diff, ValidationsPass,
         OpenBackup, FillBackup, OpenTarget, FillTarget, Remove, OpenManifest, FillManifest,
         ProbeFails

\* A run that has begun or ended the rollback of a manifest, or has changed nothing.
Moves(r) ==
    /\ pc[r] \in {"probe", "rollback", "undoing"}
    /\ pc'[r] \in {"rollback", "undoing", "done"}
    /\ before'[r] = before[r] /\ changes'[r] = changes[r]

LEMMA ReturnMoves ==
    ASSUME Types, NEW r \in Runs, NEW result, Return(r, result),
           pc[r] \in {"probe", "rollback", "undoing"}
    PROVE  Moves(r)
  BY DEF Return, Moves, Reading, Types, WorkTypes

\* Every run but the one whose step it is stays where it is in the steps of an undoer.
LEMMA UndoersMove ==
    ASSUME Types, RunsFit, NEW u \in Undoers, NEW s \in Runs,
           \/ RemoveCreated(u) \/ OpenRestore(u) \/ FillRestore(u) \/ UndoFails(u)
    PROVE  StaysPut(s) \/ (u = s /\ Moves(s))
<1>1. CASE UNCHANGED <<pc, work>>
  BY <1>1 DEF StaysPut, work
<1>2. CASE u \in Runs /\ \E result : Return(u, result)
  <2>1. IsUndoing(u)
    BY DEF RemoveCreated, OpenRestore, FillRestore, UndoFails
  <2>2. pc[u] = "undoing"
    BY <1>2, <2>1 DEF RunsFit, RunFits
  <2>. QED
    BY <1>2, <2>2, OthersStayPut, ReturnMoves
<1>. QED
  BY <1>1, <1>2
  DEF RemoveCreated, OpenRestore, FillRestore, UndoFails, EntryUndone, UndoReturns

LEMMA BeginnersMove ==
    ASSUME Types, NEW s \in Runs,
           \/ \E r \in Runs : RunUndoes(r)
           \/ \E t \in Stamps : OperatorUndoes(t)
    PROVE  StaysPut(s) \/ (RunUndoes(s) /\ Moves(s))
<1>. USE DEF BeginUndo, work, StaysPut
<1>1. CASE \E t \in Stamps : OperatorUndoes(t)
  BY <1>1 DEF OperatorUndoes
<1>2. ASSUME NEW r \in Runs, RunUndoes(r) PROVE StaysPut(s) \/ (RunUndoes(s) /\ Moves(s))
  BY <1>2 DEF RunUndoes, Goto, At, Moves, Types, WorkTypes
<1>. QED
  BY <1>1, <1>2

-----------------------------------------------------------------------------
(* Every step keeps what is so of all runs, manifests and rollbacks        *)

LEMMA RunKept ==
    ASSUME NEW r \in Runs, RunFits(r), StaysPut(r) \/ Moves(r),
           IsUndoing(r)' => IsUndoing(r),
           pc'[r] # "undoing" => ~ IsUndoing(r)' \/ pc'[r] = pc[r],
           rollback'[r] # "none" =>
              rollback[r] # "none" \/ (pc[r] \in Late /\ changes[r] # NoChanges)
    PROVE  RunFits(r)'
  BY DEF RunFits, StaysPut, Moves, Applying, Late

LEMMA StopKeepsRun ==
    ASSUME Types, NEW r \in Runs, RunFits(r), Stops(r)
    PROVE  RunFits(r)'
<1>1. /\ pc'[r] = "done" /\ ~ IsUndoing(r)' /\ rollback' = rollback
      /\ IF pc[r] \in Reading THEN changes'[r] = NoChanges /\ before'[r] = EmptyTree
         ELSE changes'[r] = changes[r] /\ before'[r] = before[r]
  BY DEF Stops, Return, Types, WorkTypes, UndoTypes, IsUndoing, Undoers
<1>2. changes[r] # NoChanges \/ pc[r] \in Reading
  BY DEF Types, WorkTypes, Stops, Labels, Applying, Reading, RunFits
<1>3. DOMAIN NoChanges = {}
  BY DEF NoChanges
<1>. QED
  BY <1>1, <1>2, <1>3 DEF RunFits, Applying, Late, Reading

LEMMA ReadKeepsRun ==
    ASSUME Types, NEW r \in Runs, RunFits(r), Reads(r)
    PROVE  RunFits(r)'
<1>. USE DEF At, Types, WorkTypes, RunFits, Applying, Late, Goto
<1>1. UNCHANGED <<undo, rollback>>
  BY ProceedsQuietly DEF Proceeds
<1>2. rollback'[r] = "none" /\ ~ IsUndoing(r)'
  BY <1>1 DEF IsUndoing, Reads, CopyFile, AgentEdits, Diff, ValidationsPass
<1>3. CASE CopyFile(r)
  <2>1. changes' = changes /\ pc'[r] \in {"copy", "agent"} /\ todo'[r] \subseteq todo[r]
    BY <1>3 DEF CopyFile, Visited
  <2>. QED
    BY <1>2, <1>3, <2>1 DEF CopyFile
<1>4. CASE AgentEdits(r)
  <2>1. changes' = changes /\ pc'[r] = "diff" /\ todo'[r] = ScopeOf[r]
    BY <1>4 DEF AgentEdits
  <2>. QED
    BY <1>2, <1>4, <2>1 DEF AgentEdits
<1>5. CASE Diff(r)
  <2>1. Path(r) \in todo[r]
    BY <1>5, PathIsPath DEF Diff, Visiting
  <2>2. pc'[r] \in {"diff", "validate"} /\ todo'[r] \subseteq todo[r]
    BY <1>5 DEF Diff, Visited
  <2>3. DOMAIN changes'[r] \subseteq DOMAIN changes[r] \cup {Path(r)}
    BY <1>5 DEF Diff
  <2>4. todo[r] \subseteq ScopeOf[r] /\ DOMAIN changes[r] \subseteq ScopeOf[r]
    BY <1>5 DEF Diff
  <2>. QED
    BY <1>2, <2>1, <2>2, <2>3, <2>4
<1>6. CASE ValidationsPass(r)
  <2>1. changes' = changes /\ pc'[r] = "apply" /\ todo'[r] = DOMAIN changes[r]
    BY <1>6 DEF ValidationsPass
  <2>. QED
    BY <1>2, <1>6, <2>1
<1>. QED
  BY <1>3, <1>4, <1>5, <1>6 DEF Reads

LEMMA WriteKeepsRun ==
    ASSUME Types, NEW r \in Runs, RunFits(r), Writes(r)
    PROVE  RunFits(r)'
<1>. USE DEF At, Types, WorkTypes
<1>1. UNCHANGED <<undo, rollback>>
  BY ProceedsQuietly DEF Proceeds
<1>2. pc[r] \in Applying /\ changes[r] # NoChanges
  BY DEF Writes, OpenBackup, FillBackup, OpenTarget, FillTarget, Remove, OpenManifest,
         FillManifest, Applying
<1>3. rollback'[r] = "none" /\ ~ IsUndoing(r)'
  BY <1>1, <1>2 DEF RunFits, IsUndoing, Applying, Late
<1>4. /\ changes' = changes /\ todo'[r] \subseteq todo[r]
      /\ pc'[r] \in Applying \cup {"probe"}
  <2>. USE DEF Goto, Applying, work
  <2>1. CASE OpenBackup(r) \/ FillBackup(r) \/ OpenTarget(r)
    BY <2>1 DEF OpenBackup, FillBackup, OpenTarget
  <2>2. CASE FillTarget(r) \/ Remove(r)
    BY <2>2 DEF FillTarget, Remove, Visited
  <2>3. CASE OpenManifest(r) \/ FillManifest(r)
    BY <2>3 DEF OpenManifest, FillManifest
  <2>. QED
    BY <2>1, <2>2, <2>3 DEF Writes
<1>. QED
  BY <1>2, <1>3, <1>4 DEF RunFits, Applying, Late

\* The steps of an undoer: which rollback is there after them.
LEMMA Begins ==
    ASSUME Types, NEW u \in Undoers, NEW t \in Stamps, BeginUndo(u, t)
    PROVE  /\ HasManifest(t) /\ manifest[t] \in Manifests /\ undo'[u] = Undo(t)
           /\ ~ IsUndoing(u) /\ IsUndoing(u)'
           /\ \A w \in Undoers \ {u} : undo'[w] = undo[w]
           /\ rollback' = [rollback EXCEPT ![manifest[t].by] = "begun"]
           /\ UNCHANGED <<target, backup, manifest, work>>
<1>1. manifest[t] \in Manifests
  BY DEF BeginUndo, Types, FileTypes
<1>2. Undo(t) \in Undos
  BY <1>1, EmptyChanges DEF Undo, Undos, Manifests
<1>3. Undo(t) # NoUndo
  BY DEF Undo, NoUndo
<1>. QED
  BY <1>1, <1>3 DEF BeginUndo, HasManifest, IsUndoing, Types, UndoTypes, files

\* The file is about to be filled; the entry is undone, or the last one of them.
UndoOpens(u) ==
    /\ IsUndoing(u)'
    /\ undo'[u].stamp = undo[u].stamp /\ undo'[u].manifest = undo[u].manifest
    /\ undo'[u].todo = undo[u].todo
    /\ undo'[u].buf = backup[undo[u].stamp][UndoPath(u)]
    /\ rollback' = rollback

UndoGoesOn(u) ==
    /\ IsUndoing(u)'
    /\ undo'[u].stamp = undo[u].stamp /\ undo'[u].manifest = undo[u].manifest
    /\ undo'[u].todo = undo[u].todo \ {UndoPath(u)} /\ undo'[u].buf = Absent
    /\ rollback' = rollback

UndoIsOver(u) ==
    /\ ~ IsUndoing(u)'
    /\ undo[u].todo = {UndoPath(u)}
    /\ rollback' = [rollback EXCEPT ![undo[u].manifest.by] = "done"]

LEMMA UndoSteps ==
    ASSUME Types, NEW u \in Undoers, RemoveCreated(u) \/ OpenRestore(u) \/ FillRestore(u)
    PROVE  /\ IsUndoing(u)
           /\ \A w \in Undoers \ {u} : undo'[w] = undo[w]
           /\ IF OpenRestore(u) THEN UndoOpens(u) ELSE UndoGoesOn(u) \/ UndoIsOver(u)
<1>1. IsUndoing(u) /\ undo[u] \in Undos /\ undo \in [Undoers -> Undos \cup {NoUndo}]
  BY UndoFields DEF Types, UndoTypes, RemoveCreated, OpenRestore, FillRestore
<1>2. CASE RemoveCreated(u) \/ FillRestore(u)
  <2>0. EntryUndone(u) /\ ~ OpenRestore(u)
    BY <1>2 DEF RemoveCreated, OpenRestore, FillRestore
  <2>1. CASE undo[u].todo = {UndoPath(u)}
    BY <1>1, <2>0, <2>1 DEF EntryUndone, UndoReturns, UndoIsOver, IsUndoing
  <2>2. CASE undo[u].todo # {UndoPath(u)}
    <3>1. /\ undo' = [undo EXCEPT ![u].todo = @ \ {UndoPath(u)}, ![u].buf = Absent]
          /\ rollback' = rollback
      BY <2>0, <2>2 DEF EntryUndone
    <3>2. /\ undo'[u].stamp = undo[u].stamp /\ undo'[u].manifest = undo[u].manifest
          /\ undo'[u].todo = undo[u].todo \ {UndoPath(u)} /\ undo'[u].buf = Absent
          /\ \A w \in Undoers \ {u} : undo'[w] = undo[w]
      BY <1>1, <3>1 DEF Undos
    <3>3. undo'[u] # NoUndo
      <4>1. DOMAIN undo'[u] = DOMAIN undo[u]
        BY <1>1, <3>1 DEF Undos
      <4>. QED
        BY <1>1, <4>1 DEF Undos, NoUndo
    <3>. QED
      BY <1>1, <2>0, <3>1, <3>2, <3>3 DEF UndoGoesOn, IsUndoing
  <2>. QED
    BY <2>1, <2>2
<1>3. CASE OpenRestore(u)
  <2>. DEFINE saved == backup[undo[u].stamp][UndoPath(u)]
  <2>1. undo' = [undo EXCEPT ![u].buf = saved] /\ rollback' = rollback
    BY <1>3 DEF OpenRestore
  <2>2. /\ undo'[u].stamp = undo[u].stamp /\ undo'[u].manifest = undo[u].manifest
        /\ undo'[u].todo = undo[u].todo /\ undo'[u].buf = saved
        /\ \A w \in Undoers \ {u} : undo'[w] = undo[w]
    BY <1>1, <2>1 DEF Undos
  <2>3. undo'[u] # NoUndo
    <3>1. DOMAIN undo'[u] = DOMAIN undo[u]
      BY <1>1, <2>1 DEF Undos
    <3>. QED
      BY <1>1, <3>1 DEF Undos, NoUndo
  <2>. QED
    BY <1>1, <1>3, <2>1, <2>2, <2>3 DEF UndoOpens, IsUndoing
<1>. QED
  BY <1>2, <1>3

LEMMA UndoFailsQuietly ==
    ASSUME Types, NEW u \in Undoers, UndoFails(u)
    PROVE  /\ undo'[u] = NoUndo /\ \A w \in Undoers \ {u} : undo'[w] = undo[w]
           /\ rollback' = rollback /\ NoWrite
  BY DEF Types, UndoTypes, UndoFails, UndoReturns

\* Whose rollback it is has changed something, and has its manifest.
LEMMA UndoneRun ==
    ASSUME Types, ManifestsFit, NEW u \in Undoers, IsUndoing(u)
    PROVE  LET by == undo[u].manifest.by
           IN  /\ by \in Runs /\ pc[by] \in Late /\ StampOf[by] = undo[u].stamp
               /\ undo[u].manifest.entries = changes[by] /\ changes[by] # NoChanges
<1>1. undo[u].manifest \in Manifests
  BY UndoFields DEF Types, Undos
<1>. QED
  BY <1>1 DEF Manifests, ManifestsFit

LEMMA RunsFitStep == Types /\ RunsFit /\ ManifestsFit /\ [Next]_vars => RunsFit'
<1>. SUFFICES ASSUME Types, RunsFit, ManifestsFit, [Next]_vars, NEW s \in Runs
              PROVE  RunFits(s)'
  BY DEF RunsFit
<1>0. RunFits(s) /\ s \in Undoers
  BY DEF RunsFit, Undoers
<1>1. ASSUME NEW r \in Runs, Stops(r) PROVE RunFits(s)'
  <2>1. CASE s = r
    BY <1>0, <1>1, <2>1, StopKeepsRun
  <2>2. CASE s # r
    <3>1. undo'[s] = undo[s] /\ rollback' = rollback /\ StaysPut(s)
      BY <1>0, <1>1, <2>2, OthersStayPut DEF Stops, Types, UndoTypes
    <3>. QED
      BY <1>0, <3>1, RunKept DEF IsUndoing, StaysPut
  <2>. QED
    BY <2>1, <2>2
<1>2. ASSUME NEW r \in Runs, Proceeds(r) PROVE RunFits(s)'
  <2>1. undo' = undo /\ rollback' = rollback
    BY <1>2, ProceedsQuietly
  <2>2. CASE s # r
    <3>1. StaysPut(s)
      BY <1>2, <2>2, OthersStayPut
    <3>. QED
      BY <1>0, <2>1, <3>1, RunKept DEF IsUndoing, StaysPut
  <2>3. CASE s = r /\ ProbeFails(r)
    <3>1. Moves(r) /\ pc'[r] = "rollback" /\ pc[r] = "probe"
      BY <2>3 DEF ProbeFails, Goto, At, work, Moves, Types, WorkTypes
    <3>2. ~ IsUndoing(r)'
      BY <1>0, <2>1, <2>3, <3>1 DEF RunFits, IsUndoing
    <3>. QED
      BY <1>0, <2>1, <2>3, <3>1, <3>2, RunKept
  <2>. QED
    BY <1>0, <1>2, <2>2, <2>3, ReadKeepsRun, WriteKeepsRun DEF Proceeds
<1>3. ASSUME NEW u \in Undoers, RemoveCreated(u) \/ OpenRestore(u) \/ FillRestore(u)
      PROVE  RunFits(s)'
  <2>1. /\ IsUndoing(u)
        /\ \A w \in Undoers \ {u} : undo'[w] = undo[w]
        /\ UndoOpens(u) \/ UndoGoesOn(u) \/ UndoIsOver(u)
    BY <1>3, UndoSteps
  <2>2. StaysPut(s) \/ (u = s /\ Moves(s))
    BY <1>3, UndoersMove
  <2>3. IsUndoing(s)' => IsUndoing(s)
    BY <1>0, <2>1 DEF IsUndoing
  <2>4. IsUndoing(s)' => pc'[s] = pc[s]
    <3>1. ASSUME u = s, UndoOpens(u) \/ UndoGoesOn(u) PROVE pc'[s] = pc[s]
      <4>1. undo'[u] # NoUndo /\ undo \in [Undoers -> Undos \cup {NoUndo}]
        BY <3>1 DEF UndoOpens, UndoGoesOn, IsUndoing, Types, UndoTypes
      <4>2. ~ \E result : UndoReturns(u, result)
        BY <4>1 DEF UndoReturns
      <4>. QED
        BY <1>3, <3>1, <4>2 DEF RemoveCreated, OpenRestore, FillRestore, EntryUndone
    <3>2. IsUndoing(s)' /\ u = s => UndoOpens(u) \/ UndoGoesOn(u)
      BY <2>1 DEF UndoIsOver
    <3>. QED
      BY <2>2, <3>1, <3>2 DEF StaysPut
  <2>5. rollback'[s] # "none" =>
            rollback[s] # "none" \/ (pc[s] \in Late /\ changes[s] # NoChanges)
    BY <2>1, UndoneRun DEF UndoOpens, UndoGoesOn, UndoIsOver, Types, UndoTypes
  <2>. QED
    BY <1>0, <2>2, <2>3, <2>4, <2>5, RunKept
<1>4. ASSUME NEW u \in Undoers, UndoFails(u), u \notin Runs PROVE RunFits(s)'
  <2>1. undo'[s] = undo[s] /\ rollback' = rollback /\ StaysPut(s)
    BY <1>0, <1>4, UndoFailsQuietly, UndoersMove
  <2>. QED
    BY <1>0, <2>1, RunKept DEF IsUndoing, StaysPut
<1>5. ASSUME NEW u \in Undoers, NEW t \in Stamps, BeginUndo(u, t),
             (StaysPut(s) /\ u # s) \/ (RunUndoes(s) /\ u = s /\ Moves(s))
      PROVE  RunFits(s)'
  <2>1. /\ \A w \in Undoers \ {u} : undo'[w] = undo[w]
        /\ HasManifest(t) /\ manifest[t] \in Manifests
        /\ rollback' = [rollback EXCEPT ![manifest[t].by] = "begun"]
    BY <1>5, Begins
  <2>2. rollback'[s] # "none" =>
            rollback[s] # "none" \/ (pc[s] \in Late /\ changes[s] # NoChanges)
    BY <2>1 DEF ManifestsFit, Manifests, Types, UndoTypes
  <2>3. CASE u # s
    BY <1>0, <1>5, <2>1, <2>2, <2>3, RunKept DEF IsUndoing, StaysPut
  <2>4. CASE u = s
    <3>1. pc'[s] = "undoing" /\ Moves(s)
      BY <1>5, <2>4 DEF RunUndoes, Goto, Types, WorkTypes
    <3>. QED
      BY <1>0, <2>2, <3>1 DEF RunFits, Moves, Applying, Late
  <2>. QED
    BY <2>3, <2>4
<1>6. ASSUME NEW r \in Runs, RunUndoes(r) PROVE RunFits(s)'
  <2>1. (StaysPut(s) /\ r # s) \/ (RunUndoes(s) /\ r = s /\ Moves(s))
    BY <1>6 DEF RunUndoes, BeginUndo, Goto, At, work, Moves, StaysPut, Types, WorkTypes
  <2>. QED
    BY <1>5, <1>6, <2>1 DEF RunUndoes, Undoers, Stamps
<1>7. ASSUME NEW t \in Stamps, OperatorUndoes(t) PROVE RunFits(s)'
  <2>1. StaysPut(s) /\ Operator # s
    BY <1>7, AgentAssumption DEF OperatorUndoes, BeginUndo, work, StaysPut
  <2>. QED
    BY <1>5, <1>7, <2>1 DEF OperatorUndoes, Undoers
<1>8. CASE UNCHANGED vars
  BY <1>0, <1>8, RunKept DEF vars, work, undoing, StaysPut, IsUndoing
<1>. QED
  BY <1>1, <1>2, <1>3, <1>4, <1>6, <1>7, <1>8, StopsWell
  DEF Next, Proceeds, Reads, Writes

\* A run that has written its manifest has its changes for good.
LEMMA LateRunsStay ==
    ASSUME Types, RunsFit, [Next]_vars, NEW s \in Runs
    PROVE  StaysPut(s) \/ Moves(s) \/ pc[s] \notin Late
<1>1. ASSUME NEW r \in Runs, Stops(r) PROVE StaysPut(s) \/ Moves(s) \/ pc[s] \notin Late
  <2>1. s # r => StaysPut(s)
    BY <1>1, OthersStayPut DEF Stops
  <2>. QED
    BY <1>1, <2>1, ReturnMoves DEF Stops, Late
<1>2. ASSUME NEW r \in Runs, Proceeds(r) PROVE StaysPut(s) \/ Moves(s) \/ pc[s] \notin Late
  <2>1. s # r => StaysPut(s)
    BY <1>2, OthersStayPut
  <2>2. ProbeFails(r) => Moves(r)
    BY DEF ProbeFails, Goto, At, work, Moves, Types, WorkTypes
  <2>3. Reads(r) \/ Writes(r) => pc[r] \notin Late
    BY DEF Reads, Writes, At, Late, CopyFile, AgentEdits, Diff, ValidationsPass, OpenBackup,
           FillBackup, OpenTarget, FillTarget, Remove, OpenManifest, FillManifest
  <2>. QED
    BY <1>2, <2>1, <2>2, <2>3 DEF Proceeds
<1>3. CASE UNCHANGED vars
  BY <1>3 DEF vars, work, StaysPut
<1>. QED
  BY <1>1, <1>2, <1>3, StopsWell, UndoersMove, BeginnersMove DEF Next, Proceeds, Reads, Writes

LEMMA ManifestSources ==
    ASSUME Types, [Next]_vars, NEW t \in Stamps, HasManifest(t)'
    PROVE  \/ manifest'[t] = manifest[t]
           \/ \E r \in Runs : /\ At(r, "fill manifest") /\ Proceeds(r) /\ pc'[r] = "probe"
                              /\ t = StampOf[r] /\ manifest'[t] = ManifestOf(r)
                              /\ changes' = changes
<1>1. \/ manifest' = manifest
      \/ \E r \in Runs : OpenManifest(r) \/ FillManifest(r)
  BY DEF Next, NoWrite, WriteTarget, WriteBackup, BeginUndo, files, vars,
         CopyFile, AgentEdits, Diff, StagingFails, NothingChanged, StagedOnly, ValidationsPass,
         ValidationFails, OpenBackup, FillBackup, OpenTarget, FillTarget, Remove, ApplyFails,
         ProbePasses, ProbeFails, RunUndoes, ManifestUnreadable, Crash, OperatorUndoes,
         RemoveCreated, OpenRestore, FillRestore, UndoFails
<1>2. ASSUME NEW r \in Runs, OpenManifest(r) PROVE manifest'[t] = manifest[t]
  BY <1>2 DEF OpenManifest, WriteManifest, HasManifest, Types, FileTypes
<1>3. ASSUME NEW r \in Runs, FillManifest(r), manifest'[t] # manifest[t]
      PROVE  /\ At(r, "fill manifest") /\ Proceeds(r) /\ pc'[r] = "probe"
             /\ t = StampOf[r] /\ manifest'[t] = ManifestOf(r) /\ changes' = changes
  BY <1>3 DEF FillManifest, WriteManifest, Proceeds, Writes, Goto, work, Types, FileTypes,
              WorkTypes
<1>. QED
  BY <1>1, <1>2, <1>3

LEMMA UndoSources ==
    ASSUME Types, RunsFit, [Next]_vars, NEW u \in Undoers, IsUndoing(u)'
    PROVE  \/ /\ IsUndoing(u)
              /\ undo'[u].stamp = undo[u].stamp /\ undo'[u].manifest = undo[u].manifest
              /\ undo'[u].todo \subseteq undo[u].todo
           \/ \E t \in Stamps : HasManifest(t) /\ manifest[t] \in Manifests /\ undo'[u] = Undo(t)
<1>1. undo'[u] = undo[u] => IsUndoing(u)
  BY DEF IsUndoing
<1>2. ASSUME NEW r \in Runs, Stops(r) PROVE undo'[u] = undo[u]
  BY <1>2 DEF Stops, IsUndoing, Types, UndoTypes
<1>3. ASSUME NEW r \in Runs, Proceeds(r) PROVE undo'[u] = undo[u]
  BY <1>3, ProceedsQuietly
<1>4. ASSUME NEW w \in Undoers, RemoveCreated(w) \/ OpenRestore(w) \/ FillRestore(w)
      PROVE  \/ undo'[u] = undo[u]
             \/ /\ IsUndoing(u)
                /\ undo'[u].stamp = undo[u].stamp /\ undo'[u].manifest = undo[u].manifest
                /\ undo'[u].todo \subseteq undo[u].todo
  BY <1>4, UndoSteps DEF UndoOpens, UndoGoesOn, UndoIsOver
<1>5. ASSUME NEW w \in Undoers, UndoFails(w) PROVE undo'[u] = undo[u]
  BY <1>5, UndoFailsQuietly DEF IsUndoing
<1>6. ASSUME NEW w \in Undoers, NEW t \in Stamps, BeginUndo(w, t)
      PROVE  \/ undo'[u] = undo[u]
             \/ HasManifest(t) /\ manifest[t] \in Manifests /\ undo'[u] = Undo(t)
  BY <1>6, Begins
<1>7. CASE UNCHANGED vars
  BY <1>1, <1>7 DEF vars, undoing
<1>8. (\E r \in Runs : RunUndoes(r)) \/ (\E t \in Stamps : OperatorUndoes(t))
         => \E w \in Undoers : \E t \in Stamps : BeginUndo(w, t)
  BY DEF RunUndoes, OperatorUndoes, Undoers, Stamps
<1>. QED
  BY <1>1, <1>2, <1>3, <1>4, <1>5, <1>6, <1>7, <1>8, StopsWell DEF Next, Proceeds, Reads, Writes

LEMMA ManifestsFitStep ==
    Types /\ RunsFit /\ ManifestsFit /\ [Next]_vars => ManifestsFit'
<1>. SUFFICES ASSUME Types, RunsFit, ManifestsFit, [Next]_vars PROVE ManifestsFit'
  OBVIOUS
<1>1. \A s \in Runs : pc[s] \in Late => pc'[s] \in Late /\ changes'[s] = changes[s]
  BY LateRunsStay DEF StaysPut, Moves, Late
<1>2. ASSUME NEW t \in Stamps, HasManifest(t)'
      PROVE  LET by == manifest'[t].by
             IN  /\ pc'[by] \in Late /\ StampOf[by] = t
                 /\ manifest'[t].entries = changes'[by]
  <2>1. CASE manifest'[t] = manifest[t]
    <3>1. HasManifest(t) /\ manifest[t].by \in Runs
      BY <1>2, <2>1 DEF HasManifest, Types, FileTypes, Manifests
    <3>. QED
      BY <1>1, <2>1, <3>1 DEF ManifestsFit
  <2>2. CASE \E r \in Runs : /\ At(r, "fill manifest") /\ Proceeds(r) /\ pc'[r] = "probe"
                             /\ t = StampOf[r] /\ manifest'[t] = ManifestOf(r)
                             /\ changes' = changes
    <3>1. PICK r \in Runs : /\ pc'[r] = "probe" /\ t = StampOf[r]
                            /\ manifest'[t] = ManifestOf(r) /\ changes' = changes
      BY <2>2
    <3>2. manifest'[t].by = r /\ manifest'[t].entries = changes'[r]
      BY <3>1 DEF ManifestOf
    <3>. QED
      BY <3>1, <3>2 DEF Late
  <2>. QED
    BY <1>2, <2>1, <2>2, ManifestSources
<1>3. ASSUME NEW u \in Undoers, IsUndoing(u)'
      PROVE  LET by == undo'[u].manifest.by
             IN  /\ pc'[by] \in Late /\ StampOf[by] = undo'[u].stamp
                 /\ undo'[u].manifest.entries = changes'[by]
                 /\ undo'[u].todo \subseteq DOMAIN changes'[by]
  <2>1. CASE /\ IsUndoing(u)
             /\ undo'[u].stamp = undo[u].stamp /\ undo'[u].manifest = undo[u].manifest
             /\ undo'[u].todo \subseteq undo[u].todo
    BY <1>1, <2>1, UndoneRun DEF ManifestsFit
  <2>2. CASE \E t \in Stamps : /\ HasManifest(t) /\ manifest[t] \in Manifests
                               /\ undo'[u] = Undo(t)
    BY <1>1, <2>2 DEF ManifestsFit, Undo, Manifests
  <2>. QED
    BY <1>3, <2>1, <2>2, UndoSources
<1>. QED
  BY <1>2, <1>3 DEF ManifestsFit, HasManifest, IsUndoing

-----------------------------------------------------------------------------
(* A step that is not about the run                                        *)

LEMMA NothingToUndo ==
    ASSUME Types, RunsFit, ManifestsFit, NEW r \in Runs,
           pc[r] \notin Late \/ changes[r] = NoChanges
    PROVE  /\ \A u \in Undoers : ~ Undoes(u, r)
           /\ ~ (HasManifest(StampOf[r]) /\ manifest[StampOf[r]].by = r)
           /\ rollback[r] = "none"
<1>1. \A u \in Undoers : ~ Undoes(u, r)
  BY UndoneRun DEF Undoes
<1>2. ASSUME HasManifest(StampOf[r]), manifest[StampOf[r]].by = r PROVE FALSE
  <2>1. manifest[StampOf[r]] \in Manifests /\ StampOf[r] \in Stamps
    BY <1>2 DEF HasManifest, Types, FileTypes, Stamps
  <2>. QED
    BY <1>2, <2>1 DEF ManifestsFit, Manifests
<1>3. rollback[r] = "none"
  BY DEF RunsFit, RunFits
<1>. QED
  BY <1>1, <1>2, <1>3

\* The tree and the backups as far as they concern a run.
TreeStays(r) ==
    \A p \in ScopeOf[r] : target'[p] = target[p] /\ backup'[StampOf[r]][p] = backup[StampOf[r]][p]

ManifestStays(r) ==
    HasManifest(StampOf[r])' /\ manifest'[StampOf[r]].by = r =>
        HasManifest(StampOf[r]) /\ manifest[StampOf[r]].by = r

LEMMA WriteDisturbs ==
    ASSUME Types, NEW r \in Runs, NEW s \in Runs \ {r}, s \notin disturbed', NEW p \in Paths,
           NEW content,
           \/ NoWrite
           \/ WriteTarget(p, content, r)
           \/ p = Path(r) /\ WriteBackup(r, content)
    PROVE  (TreeStays(s) \/ ~ HasRead(s)) /\ ManifestStays(s)
<1>. USE DEF Types, FileTypes, Trees, TreeStays, ManifestStays, HasManifest, Stamps
<1>0. ScopeOf[s] \subseteq Paths
  BY AgentAssumption
<1>1. CASE NoWrite
  BY <1>1 DEF NoWrite, files
<1>2. CASE WriteTarget(p, content, r)
  BY <1>0, <1>2 DEF WriteTarget
<1>3. CASE p = Path(r) /\ WriteBackup(r, content)
  BY <1>0, <1>3 DEF WriteBackup, DisturbStamp
<1>. QED
  BY <1>1, <1>2, <1>3

LEMMA ManifestWriteDisturbs ==
    ASSUME Types, NEW r \in Runs, NEW s \in Runs \ {r},
           NEW content \in {Torn, ManifestOf(r)}, WriteManifest(r, content)
    PROVE  TreeStays(s) /\ ManifestStays(s)
<1>1. TreeStays(s)
  BY DEF WriteManifest, TreeStays
<1>2. ManifestStays(s)
  BY DEF WriteManifest, ManifestStays, HasManifest, ManifestOf, Types, FileTypes, Stamps
<1>. QED
  BY <1>1, <1>2

\* A run that has read nothing, and whose step it is not, has nothing to lose.
LEMMA UnreadKept ==
    ASSUME Types, RunsFit, ManifestsFit, NEW r \in Runs, Undisturbed(r), StaysPut(r),
           ~ HasRead(r),
           rollback'[r] = rollback[r], ManifestStays(r),
           \A u \in Undoers : Undoes(u, r)' => Undoes(u, r) /\ undo'[u] = undo[u]
    PROVE  Undisturbed(r)'
<1>. USE DEF StaysPut
<1>1. \/ pc[r] = "done" /\ changes[r] = NoChanges
      \/ pc[r] = "copy" /\ todo[r] = ScopeOf[r]
  BY DEF HasRead, At
<1>2. /\ \A u \in Undoers : ~ Undoes(u, r)'
      /\ ~ (HasManifest(StampOf[r])' /\ manifest'[StampOf[r]].by = r)
      /\ rollback'[r] = "none"
  BY <1>1, NothingToUndo DEF ManifestStays, Late
<1>3. SoleUndoer(r)' /\ BackedFits(r)' /\ UndoFits(r)' /\ ApplyingFits(r)' /\ IsApplied(r)'
  BY <1>1, <1>2 DEF SoleUndoer, BackedFits, UndoFits, ApplyingFits, IsApplied
<1>4. ReadingFits(r)'
  BY <1>1 DEF Undisturbed, ReadingFits, IsRead
<1>5. DoneFits(r)'
  <2>1. CASE pc[r] = "done"
    <3>1. before'[r] = EmptyTree
      BY <1>1, <2>1 DEF RunsFit, RunFits
    <3>2. \A p \in ScopeOf[r] : EmptyTree[p] = Absent
      BY AgentAssumption DEF EmptyTree
    <3>. QED
      BY <3>1, <3>2 DEF DoneFits
  <2>. QED
    BY <1>1, <2>1 DEF DoneFits
<1>. QED
  BY <1>3, <1>4, <1>5 DEF Undisturbed

\* The facts of a run whose tree and backup stay as they are.
LEMMA BackedKept ==
    ASSUME NEW r \in Runs, TreeStays(r), before'[r] = before[r], changes'[r] = changes[r]
    PROVE  IsBacked(r) => IsBacked(r)'
  BY DEF TreeStays, IsBacked, Saved

LEMMA BackedIsSafe ==
    ASSUME NEW r \in Runs, IsBacked(r)
    PROVE  \A p \in ScopeOf[r] : before[r][p] \in {Absent, target[p]} \/ Saved(r, p)
  BY DEF IsBacked

LEMMA Kept ==
    ASSUME Types, RunsFit, ManifestsFit, NEW r \in Runs, Undisturbed(r),
           StaysPut(r) \/ Moves(r), TreeStays(r),
           rollback'[r] = rollback[r], ManifestStays(r),
           \A u \in Undoers : Undoes(u, r)' => Undoes(u, r) /\ undo'[u] = undo[u]
    PROVE  Undisturbed(r)'
<1>0. /\ before'[r] = before[r] /\ changes'[r] = changes[r]
      /\ DOMAIN changes[r] \subseteq ScopeOf[r]
      /\ pc[r] \in Visiting => Path(r) \in todo[r]
      /\ pc[r] \in Applying => todo[r] \subseteq ScopeOf[r]
      /\ pc[r] = "copy" => todo[r] \subseteq ScopeOf[r]
  BY PathIsPath DEF StaysPut, Moves, RunsFit, RunFits, Types
<1>1. SoleUndoer(r)'
  <2>1. pc[r] = "done" => pc'[r] = "done"
    BY DEF StaysPut, Moves
  <2>. QED
    BY <2>1 DEF Undisturbed, SoleUndoer
<1>2. BackedFits(r)'
  BY <1>0, BackedKept DEF Undisturbed, BackedFits, ManifestStays, StaysPut, Moves
<1>3. UndoFits(r)'
  <2>1. ASSUME NEW u \in Undoers, Undoes(u, r)'
        PROVE  /\ \A p \in DOMAIN changes'[r] \ undo'[u].todo : target'[p] = before'[r][p]
               /\ undo'[u].buf # Absent => undo'[u].buf = before'[r][UndoPath(u)']
    <3>1. Undoes(u, r) /\ undo'[u] = undo[u] /\ UndoPath(u)' = UndoPath(u)
      BY <2>1 DEF UndoPath
    <3>. QED
      BY <1>0, <3>1 DEF Undisturbed, UndoFits, TreeStays
  <2>2. rollback'[r] = "done" => \A p \in ScopeOf[r] : target'[p] = before'[r][p]
    BY <1>0 DEF Undisturbed, UndoFits, TreeStays
  <2>. QED
    BY <2>1, <2>2 DEF UndoFits
<1>4. CASE Moves(r)
  <2>1. IsBacked(r)
    BY <1>4 DEF Moves, Undisturbed, BackedFits
  <2>2. IsBacked(r)'
    BY <1>0, <2>1, BackedKept
  <2>3. DoneFits(r)'
    BY <2>2 DEF IsBacked, DoneFits
  <2>4. ReadingFits(r)' /\ ApplyingFits(r)' /\ IsApplied(r)'
    BY <1>4 DEF Moves, ReadingFits, ApplyingFits, IsApplied
  <2>. QED
    BY <1>1, <1>2, <1>3, <2>3, <2>4 DEF Undisturbed
<1>5. CASE StaysPut(r)
  <2>. USE <1>5 DEF StaysPut, TreeStays
  <2>1. Path(r)' = Path(r)
    BY DEF Path
  <2>2. ReadingFits(r)'
    BY <1>0 DEF Undisturbed, ReadingFits, IsRead, CreatesAreNew
  <2>6. /\ CreatesAreNew(r) => CreatesAreNew(r)'
        /\ \A p \in ScopeOf[r] : Patched(r, p)' = Patched(r, p)
    BY DEF CreatesAreNew, Patched
  <2>3. ApplyingFits(r)'
    <3>. SUFFICES ASSUME pc[r] \in {"apply", "fill backup", "write", "fill target"}
                  PROVE  ApplyingFits(r)'
      BY DEF ApplyingFits
    <3>1. ApplyingFits(r) /\ todo[r] \subseteq ScopeOf[r] /\ Path(r) \in ScopeOf[r]
      BY <1>0 DEF Undisturbed, Visiting, Applying
    <3>2. \A p \in ScopeOf[r] \ todo'[r] : target'[p] = Patched(r, p)'
      BY <2>6, <3>1 DEF ApplyingFits
    <3>. QED
      BY <1>0, <2>1, <2>6, <3>1, <3>2 DEF ApplyingFits, Saved
  <2>4. IsApplied(r)'
    BY <1>0, <2>6 DEF Undisturbed, IsApplied
  <2>5. DoneFits(r)'
    BY <1>0 DEF Undisturbed, DoneFits, Saved
  <2>. QED
    BY <1>1, <1>2, <1>3, <2>2, <2>3, <2>4, <2>5 DEF Undisturbed
<1>. QED
  BY <1>4, <1>5

-----------------------------------------------------------------------------
(* The steps of the run itself                                             *)

\* Before it has written its manifest nobody can undo its changes.
LEMMA NotYetUndone ==
    ASSUME Types, RunsFit, ManifestsFit, NEW r \in Runs, pc[r] \notin Late,
           UNCHANGED <<undo, rollback>>
    PROVE  SoleUndoer(r)' /\ UndoFits(r)' /\ rollback'[r] = "none"
  BY NothingToUndo DEF SoleUndoer, UndoFits, Undoes, IsUndoing

LEMMA ReadKeeps ==
    ASSUME Types, RunsFit, ManifestsFit, NEW r \in Runs, Undisturbed(r), Reads(r)
    PROVE  Undisturbed(r)'
<1>. USE DEF At, Goto, Types, WorkTypes
<1>1. UNCHANGED <<undo, rollback>> /\ NoWrite /\ pc[r] \in {"copy", "agent", "diff", "validate"}
  BY ProceedsQuietly DEF Proceeds, Reads, CopyFile, AgentEdits, Diff, ValidationsPass
<1>2. SoleUndoer(r)' /\ UndoFits(r)' /\ rollback'[r] = "none"
  BY <1>1, NotYetUndone DEF Late
<1>3. /\ ~ (HasManifest(StampOf[r])' /\ manifest'[StampOf[r]].by = r)
      /\ target' = target /\ backup' = backup
  BY <1>1, NothingToUndo DEF Late, NoWrite, files, HasManifest
<1>4. pc'[r] \in {"copy", "agent", "diff", "validate", "apply"}
  BY DEF Reads, CopyFile, AgentEdits, Diff, ValidationsPass, Visited
<1>5. IsApplied(r)' /\ BackedFits(r)' /\ DoneFits(r)'
  BY <1>2, <1>3, <1>4 DEF IsApplied, BackedFits, DoneFits
<1>6. CASE CopyFile(r)
  <2>1. Path(r) \in todo[r] /\ todo[r] \subseteq ScopeOf[r] /\ Path(r) \in Paths
    BY <1>6, PathIsPath DEF CopyFile, Visiting, RunsFit, RunFits
  <2>2. \A p \in Paths : before'[r][p] = IF p = Path(r) THEN target[p] ELSE before[r][p]
    BY <1>6, <2>1 DEF CopyFile, Trees
  <2>3. /\ todo'[r] = todo[r] \ {Path(r)}
        /\ IF todo[r] = {Path(r)} THEN pc'[r] = "agent" ELSE pc'[r] = "copy"
    BY <1>6 DEF CopyFile, Visited, IsLast
  <2>4. ScopeOf[r] \subseteq Paths
    BY AgentAssumption
  <2>5. ReadingFits(r)'
    BY <1>3, <1>6, <2>1, <2>2, <2>3, <2>4
    DEF CopyFile, Undisturbed, ReadingFits, IsRead
  <2>. QED
    BY <1>2, <1>5, <2>3, <2>5 DEF Undisturbed, ApplyingFits
<1>7. CASE AgentEdits(r)
  <2>1. /\ before'[r] = before[r] /\ changes'[r] = NoChanges
        /\ todo'[r] = ScopeOf[r] /\ pc'[r] = "diff"
    BY <1>7 DEF AgentEdits, RunsFit, RunFits
  <2>2. CreatesAreNew(r)'
    BY <2>1 DEF CreatesAreNew, NoChanges
  <2>3. ReadingFits(r)'
    BY <1>3, <1>7, <2>1, <2>2 DEF AgentEdits, Undisturbed, ReadingFits, IsRead
  <2>. QED
    BY <1>2, <1>5, <2>1, <2>3 DEF Undisturbed, ApplyingFits
<1>8. CASE Diff(r)
  <2>. DEFINE p == Path(r)
              change == TypeOfChange(target[p], staging[r][p])
              withChange == [q \in DOMAIN changes[r] \cup {p} |->
                                IF q = p THEN change ELSE changes[r][q]]
  <2>1. p \in todo[r] /\ todo[r] \subseteq ScopeOf[r]
    BY <1>8, PathIsPath DEF Diff, Visiting, RunsFit, RunFits
  <2>2. before[r][p] = target[p] /\ CreatesAreNew(r)
    BY <1>8, <2>1 DEF Diff, Undisturbed, ReadingFits, IsRead
  <2>3. changes'[r] = IF target[p] = staging[r][p] THEN changes[r] ELSE withChange
    BY <1>8 DEF Diff
  <2>4. /\ UNCHANGED <<before, staging>> /\ todo'[r] = todo[r] \ {p}
        /\ IF todo[r] = {p} THEN pc'[r] = "validate" ELSE pc'[r] = "diff"
    BY <1>8 DEF Diff, Visited, IsLast
  <2>5. CreatesAreNew(r)'
    <3>1. CASE target[p] = staging[r][p]
      BY <2>2, <2>3, <2>4, <3>1 DEF CreatesAreNew
    <3>2. CASE target[p] # staging[r][p]
      <4>1. /\ DOMAIN changes'[r] = DOMAIN changes[r] \cup {p}
            /\ changes'[r][p] = change
            /\ \A q \in DOMAIN changes[r] : q # p => changes'[r][q] = changes[r][q]
        BY <2>3, <3>2
      <4>2. change = "create" => before[r][p] = Absent
        BY <2>2 DEF TypeOfChange
      <4>. HIDE DEF withChange, change
      <4>. QED
        BY <2>2, <2>4, <4>1, <4>2 DEF CreatesAreNew
    <3>. QED
      BY <3>1, <3>2
  <2>6. ReadingFits(r)'
    BY <1>3, <1>8, <2>1, <2>4, <2>5 DEF Diff, Undisturbed, ReadingFits, IsRead
  <2>. QED
    BY <1>2, <1>5, <2>4, <2>6 DEF Undisturbed, ApplyingFits
<1>9. CASE ValidationsPass(r)
  <2>1. /\ UNCHANGED <<before, changes>>
        /\ todo'[r] = DOMAIN changes[r] /\ pc'[r] = "apply"
    BY <1>9 DEF ValidationsPass
  <2>2. CreatesAreNew(r) /\ IsRead(r, ScopeOf[r]) /\ DOMAIN changes[r] \subseteq ScopeOf[r]
    BY <1>9 DEF ValidationsPass, Undisturbed, ReadingFits, RunsFit, RunFits
  <2>3. \A p \in ScopeOf[r] \ DOMAIN changes[r] : target'[p] = Patched(r, p)'
    BY <1>3, <2>1, <2>2 DEF Patched, IsRead
  <2>4. ApplyingFits(r)'
    BY <1>3, <2>1, <2>2, <2>3 DEF ApplyingFits, CreatesAreNew, IsRead
  <2>. QED
    BY <1>2, <1>5, <2>1, <2>4 DEF Undisturbed, ReadingFits
<1>. QED
  BY <1>6, <1>7, <1>8, <1>9 DEF Reads

\* What of a run that applies its changes is found or staged, and what is saved.
LEMMA ApplyKeeps ==
    ASSUME Types, RunsFit, ManifestsFit, NEW r \in Runs, Undisturbed(r),
           OpenBackup(r) \/ FillBackup(r) \/ OpenTarget(r)
    PROVE  Undisturbed(r)'
<1>. USE DEF At, Goto, Types, WorkTypes
<1>. DEFINE q == Path(r)
<1>1. /\ UNCHANGED <<undo, rollback, manifest>>
      /\ pc[r] \in {"apply", "fill backup", "write"}
      /\ pc'[r] \in {"fill backup", "write", "fill target"}
      /\ UNCHANGED <<staging, before, changes, todo>>
  BY DEF undoing, work, OpenBackup, FillBackup, OpenTarget, WriteBackup, WriteTarget
<1>2. SoleUndoer(r)' /\ UndoFits(r)' /\ rollback'[r] = "none"
  BY <1>1, NotYetUndone DEF Late
<1>3. ~ (HasManifest(StampOf[r])' /\ manifest'[StampOf[r]].by = r)
  BY <1>1, NothingToUndo DEF Late, HasManifest
<1>4. IsApplied(r)' /\ BackedFits(r)' /\ DoneFits(r)' /\ ReadingFits(r)'
  BY <1>1, <1>2, <1>3 DEF IsApplied, BackedFits, DoneFits, ReadingFits
<1>5. /\ q \in todo[r] /\ q \in Paths /\ todo[r] \subseteq DOMAIN changes[r]
      /\ DOMAIN changes[r] \subseteq ScopeOf[r] /\ ScopeOf[r] \subseteq Paths
      /\ Path(r)' = q /\ StampOf[r] \in Stamps
  BY <1>1, PathIsPath, AgentAssumption DEF Visiting, Applying, RunsFit, RunFits, Path, Stamps
<1>6. ApplyingFits(r)
  BY DEF Undisturbed
<1>7. CreatesAreNew(r)' /\ \A p \in ScopeOf[r] : Patched(r, p)' = Patched(r, p)
  BY <1>1, <1>6 DEF ApplyingFits, CreatesAreNew, Patched
<1>. HIDE DEF q
<1>8. CASE OpenBackup(r) \/ FillBackup(r)
  <2>1. PICK content : backup' = [backup EXCEPT ![StampOf[r]][q] = content] /\ target' = target
    BY <1>8 DEF OpenBackup, FillBackup, WriteBackup, q
  <2>2. \A p \in ScopeOf[r] : p # q => backup'[StampOf[r]][p] = backup[StampOf[r]][p]
    BY <1>5, <2>1 DEF FileTypes, Trees
  <2>3. CASE OpenBackup(r)
    <3>1. buf'[r] = before[r][q] /\ pc'[r] = "fill backup"
      BY <1>5, <1>6, <2>3 DEF OpenBackup, ApplyingFits, q
    <3>2. ApplyingFits(r)'
      BY <1>1, <1>5, <1>6, <1>7, <2>1, <2>2, <2>3, <3>1
      DEF OpenBackup, ApplyingFits, Saved
    <3>. QED
      BY <1>2, <1>4, <3>2 DEF Undisturbed
  <2>4. CASE FillBackup(r)
    <3>1. backup'[StampOf[r]][q] = before[r][q] /\ pc'[r] = "write" /\ pc[r] = "fill backup"
      BY <1>5, <1>6, <2>4 DEF FillBackup, WriteBackup, ApplyingFits, FileTypes, Trees, q
    <3>2. ApplyingFits(r)'
      BY <1>1, <1>5, <1>6, <1>7, <2>1, <2>2, <3>1 DEF ApplyingFits, Saved
    <3>. QED
      BY <1>2, <1>4, <3>2 DEF Undisturbed
  <2>. QED
    BY <1>8, <2>3, <2>4
<1>9. CASE OpenTarget(r)
  <2>1. /\ target' = [target EXCEPT ![q] = Torn] /\ backup' = backup
        /\ pc'[r] = "fill target"
        /\ changes[r][q] # "create" => pc[r] = "write"
        /\ changes[r][q] # "delete"
    BY <1>9 DEF OpenTarget, WriteTarget, q
  <2>2. \A p \in ScopeOf[r] : p # q => target'[p] = target[p]
    BY <1>5, <2>1 DEF FileTypes, Trees
  <2>3. changes[r][q] # "create" => Saved(r, q)
    BY <1>6, <2>1 DEF ApplyingFits, q
  <2>4. ApplyingFits(r)'
    BY <1>1, <1>5, <1>6, <1>7, <2>1, <2>2, <2>3 DEF ApplyingFits, Saved, q
  <2>. QED
    BY <1>2, <1>4, <2>4 DEF Undisturbed
<1>. QED
  BY <1>8, <1>9

\* The changed file is as it was staged: the next one follows, or everything is applied
\* and backed up.
LEMMA ChangeAppliedKeeps ==
    ASSUME Types, RunsFit, ManifestsFit, NEW r \in Runs, Undisturbed(r),
           FillTarget(r) \/ Remove(r)
    PROVE  Undisturbed(r)'
<1>. USE DEF At, Goto, Types, WorkTypes
<1>. DEFINE q == Path(r)
<1>1. /\ UNCHANGED <<undo, rollback, manifest, backup, staging, before, changes>>
      /\ pc[r] \in {"write", "fill target"}
      /\ todo'[r] = todo[r] \ {q}
      /\ IF todo[r] = {q} THEN pc'[r] = "manifest" ELSE pc'[r] = "apply"
  BY DEF undoing, FillTarget, Remove, WriteTarget, Visited, IsLast
<1>2. SoleUndoer(r)' /\ UndoFits(r)' /\ rollback'[r] = "none"
  BY <1>1, NotYetUndone DEF Late
<1>3. ~ (HasManifest(StampOf[r])' /\ manifest'[StampOf[r]].by = r)
  BY <1>1, NothingToUndo DEF Late, HasManifest
<1>4. DoneFits(r)' /\ ReadingFits(r)'
  BY <1>1 DEF DoneFits, ReadingFits
<1>5. /\ q \in todo[r] /\ q \in Paths /\ todo[r] \subseteq DOMAIN changes[r]
      /\ DOMAIN changes[r] \subseteq ScopeOf[r] /\ ScopeOf[r] \subseteq Paths
  BY <1>1, PathIsPath, AgentAssumption DEF Visiting, Applying, RunsFit, RunFits
<1>6. ApplyingFits(r)
  BY DEF Undisturbed
<1>7. /\ CreatesAreNew(r) /\ CreatesAreNew(r)'
      /\ \A p \in ScopeOf[r] : Patched(r, p)' = Patched(r, p)
  BY <1>1, <1>6 DEF ApplyingFits, CreatesAreNew, Patched
<1>8. target' = [target EXCEPT ![q] = Patched(r, q)]
  <2>1. CASE FillTarget(r)
    <3>1. target' = [target EXCEPT ![q] = staging[r][q]] /\ pc[r] = "fill target"
      BY <2>1 DEF FillTarget, WriteTarget
    <3>2. Patched(r, q) = staging[r][q]
      BY <1>5, <1>6, <3>1 DEF ApplyingFits, Patched
    <3>. QED
      BY <3>1, <3>2
  <2>2. CASE Remove(r)
    <3>1. target' = [target EXCEPT ![q] = Absent] /\ changes[r][q] = "delete"
      BY <2>2 DEF Remove, WriteTarget
    <3>2. Patched(r, q) = Absent
      BY <1>5, <3>1 DEF Patched
    <3>. QED
      BY <3>1, <3>2
  <2>. QED
    BY <2>1, <2>2
<1>. HIDE DEF q
<1>9. \A p \in ScopeOf[r] : target'[p] = IF p = q THEN Patched(r, p) ELSE target[p]
  BY <1>5, <1>8 DEF FileTypes, Trees
<1>10. /\ \A p \in ScopeOf[r] \ (todo[r] \ {q}) : target'[p] = Patched(r, p)
       /\ \A p \in todo[r] \ {q} : target'[p] = before[r][p]
       /\ \A p \in DOMAIN changes[r] \ (todo[r] \ {q}) : changes[r][p] # "create" => Saved(r, p)
  BY <1>1, <1>5, <1>6, <1>9 DEF ApplyingFits, q
<1>11. CASE pc'[r] = "apply"
  <2>1. ApplyingFits(r)'
    BY <1>1, <1>5, <1>7, <1>10, <1>11 DEF ApplyingFits, Saved
  <2>. QED
    BY <1>2, <1>3, <1>4, <1>11, <2>1 DEF Undisturbed, IsApplied, BackedFits
<1>12. CASE pc'[r] = "manifest"
  <2>1. todo[r] \ {q} = {}
    BY <1>1, <1>12
  <2>2. IsApplied(r)'
    BY <1>1, <1>7, <1>10, <2>1 DEF IsApplied
  <2>3. IsBacked(r)'
    BY <1>1, <1>5, <1>7, <1>10, <2>1 DEF IsBacked, CreatesAreNew, Patched, Saved
  <2>. QED
    BY <1>2, <1>4, <1>12, <2>2, <2>3 DEF Undisturbed, BackedFits, ApplyingFits
<1>. QED
  BY <1>1, <1>11, <1>12

LEMMA ManifestKeeps ==
    ASSUME Types, RunsFit, ManifestsFit, NEW r \in Runs, Undisturbed(r),
           OpenManifest(r) \/ FillManifest(r)
    PROVE  Undisturbed(r)'
<1>. USE DEF At, Goto, Types, WorkTypes
<1>1. /\ UNCHANGED <<undo, rollback, target, backup, staging, before, changes>>
      /\ pc[r] \in {"manifest", "fill manifest"} /\ pc'[r] \in {"fill manifest", "probe"}
  BY DEF undoing, work, OpenManifest, FillManifest, WriteManifest
<1>2. SoleUndoer(r)' /\ UndoFits(r)'
  BY <1>1, NotYetUndone DEF Late
<1>3. IsBacked(r) /\ TreeStays(r)
  BY <1>1 DEF Undisturbed, BackedFits, TreeStays
<1>4. IsBacked(r)'
  BY <1>1, <1>3, BackedKept
<1>5. IsApplied(r)'
  BY <1>1 DEF Undisturbed, IsApplied, CreatesAreNew, Patched
<1>. QED
  BY <1>1, <1>2, <1>4, <1>5 DEF Undisturbed, BackedFits, ReadingFits, ApplyingFits, DoneFits

LEMMA StopKeeps ==
    ASSUME Types, RunsFit, ManifestsFit, NEW r \in Runs, Undisturbed(r), Stops(r)
    PROVE  Undisturbed(r)'
<1>1. /\ pc'[r] = "done" /\ rollback' = rollback /\ r \in Undoers
      /\ undo'[r] = NoUndo /\ \A u \in Undoers \ {r} : undo'[u] = undo[u]
      /\ UNCHANGED <<target, backup, manifest>>
      /\ IF pc[r] \in Reading THEN changes'[r] = NoChanges /\ before'[r] = EmptyTree
         ELSE changes'[r] = changes[r] /\ before'[r] = before[r]
  BY DEF Stops, Return, NoWrite, files, Types, WorkTypes, UndoTypes, Undoers
<1>2. \A u \in Undoers : Undoes(u, r)' => Undoes(u, r) /\ undo'[u] = undo[u]
  BY <1>1 DEF Undoes, IsUndoing
<1>3. TreeStays(r) /\ ManifestStays(r)
  BY <1>1 DEF TreeStays, ManifestStays, HasManifest
<1>4. CASE pc[r] \in Late
  <2>1. Moves(r)
    BY <1>4, ReturnMoves DEF Stops, Late
  <2>. QED
    BY <1>1, <1>2, <1>3, <2>1, Kept
<1>5. CASE pc[r] \notin Late
  <2>1. /\ \A u \in Undoers : ~ Undoes(u, r)'
        /\ ~ (HasManifest(StampOf[r])' /\ manifest'[StampOf[r]].by = r)
        /\ rollback'[r] = "none"
    BY <1>1, <1>2, <1>3, <1>5, NothingToUndo DEF ManifestStays
  <2>2. SoleUndoer(r)' /\ UndoFits(r)' /\ BackedFits(r)'
    BY <1>1, <2>1 DEF SoleUndoer, UndoFits, BackedFits
  <2>3. ReadingFits(r)' /\ ApplyingFits(r)' /\ IsApplied(r)'
    BY <1>1 DEF ReadingFits, ApplyingFits, IsApplied
  <2>4. DoneFits(r)'
    <3>1. CASE pc[r] \in Reading
      <4>1. \A p \in ScopeOf[r] : EmptyTree[p] = Absent
        BY AgentAssumption DEF EmptyTree
      <4>. QED
        BY <1>1, <3>1, <4>1 DEF DoneFits
    <3>2. CASE pc[r] \in {"manifest", "fill manifest"}
      <4>1. IsBacked(r) /\ pc[r] \notin Reading
        BY <3>2 DEF Undisturbed, BackedFits, Reading
      <4>. QED
        BY <1>1, <4>1, BackedIsSafe DEF DoneFits, Saved
    <3>3. CASE pc[r] \in {"apply", "fill backup", "write", "fill target"}
      <4>1. /\ CreatesAreNew(r)
            /\ \A p \in ScopeOf[r] \ todo[r] : target[p] = Patched(r, p)
            /\ \A p \in todo[r] : p # Path(r) \/ pc[r] # "fill target" => target[p] = before[r][p]
            /\ \A p \in DOMAIN changes[r] \ todo[r] : changes[r][p] # "create" => Saved(r, p)
            /\ pc[r] = "fill target" /\ changes[r][Path(r)] # "create" => Saved(r, Path(r))
        BY <3>3 DEF Undisturbed, ApplyingFits
      <4>2. todo[r] \subseteq DOMAIN changes[r] /\ pc[r] \notin Reading
        BY <3>3 DEF RunsFit, RunFits, Applying, Reading
      <4>3. \A p \in DOMAIN changes[r] : changes[r][p] = "create" => before[r][p] = Absent
        BY <4>1 DEF CreatesAreNew
      <4>4. \A p \in ScopeOf[r] \ DOMAIN changes[r] : Patched(r, p) = before[r][p]
        BY DEF Patched
      <4>5. \A p \in ScopeOf[r] : before[r][p] \in {Absent, target[p]} \/ Saved(r, p)
        BY <4>1, <4>2, <4>3, <4>4
      <4>. QED
        BY <1>1, <4>2, <4>5 DEF DoneFits, Saved
    <3>. QED
      BY <1>5, <3>1, <3>2, <3>3 DEF Late, Reading, Types, WorkTypes, Labels
  <2>. QED
    BY <2>2, <2>3, <2>4 DEF Undisturbed
<1>. QED
  BY <1>4, <1>5

-----------------------------------------------------------------------------
(* Rollbacks                                                               *)

LEMMA BeginKeeps ==
    ASSUME Types, RunsFit, ManifestsFit, NEW r \in Runs, NEW u \in Undoers, NEW t \in Stamps,
           BeginUndo(u, t), r \notin disturbed', Undisturbed(r),
           StaysPut(r) \/ (RunUndoes(r) /\ u = r /\ Moves(r)),
           u = r => RunUndoes(r)
    PROVE  Undisturbed(r)'
<1>. DEFINE by == manifest[t].by
<1>1. /\ HasManifest(t) /\ manifest[t] \in Manifests /\ undo'[u] = Undo(t)
      /\ ~ IsUndoing(u) /\ IsUndoing(u)'
      /\ \A w \in Undoers \ {u} : undo'[w] = undo[w]
      /\ rollback' = [rollback EXCEPT ![by] = "begun"]
      /\ UNCHANGED <<target, backup, manifest, work>>
  BY Begins
<1>2. undo'[u].manifest = manifest[t] /\ undo'[u].todo = DOMAIN changes[by] /\ undo'[u].buf = Absent
  BY <1>1 DEF Undo, ManifestsFit
<1>3. TreeStays(r) /\ ManifestStays(r)
  BY <1>1 DEF TreeStays, ManifestStays, HasManifest
<1>4. CASE by # r
  <2>1. rollback'[r] = rollback[r]
    BY <1>1, <1>4 DEF Types, UndoTypes
  <2>2. \A w \in Undoers : Undoes(w, r)' => Undoes(w, r) /\ undo'[w] = undo[w]
    BY <1>1, <1>2, <1>4 DEF Undoes, IsUndoing
  <2>. QED
    BY <1>3, <2>1, <2>2, Kept
<1>5. CASE by = r
  <2>1. /\ u = r \/ pc[r] = "done"
        /\ \A w \in Undoers \ {u} : ~ Undoes(w, r)
        /\ StampOf[r] = t
    BY <1>1, <1>5 DEF BeginUndo, ManifestsFit, Undoes, Types, FileTypes
  <2>2. IsBacked(r)
    BY <1>1, <1>5, <2>1 DEF Undisturbed, BackedFits
  <2>3. before'[r] = before[r] /\ changes'[r] = changes[r] /\ rollback'[r] = "begun"
    BY <1>1, <1>5 DEF work, Types, UndoTypes
  <2>4. IsBacked(r)'
    BY <1>3, <2>2, <2>3, BackedKept
  <2>5. \A w \in Undoers : Undoes(w, r)' => w = u
    BY <1>1, <2>1 DEF Undoes, IsUndoing
  <2>6. pc'[r] \in {"undoing", "done"} /\ (u = r \/ pc'[r] = "done")
    BY <2>1 DEF StaysPut, RunUndoes, Goto, Types, WorkTypes
  <2>7. SoleUndoer(r)'
    BY <2>3, <2>5, <2>6 DEF SoleUndoer
  <2>8. UndoFits(r)'
    BY <1>2, <1>5, <2>3, <2>5 DEF UndoFits
  <2>9. DoneFits(r)'
    BY <2>4 DEF IsBacked, DoneFits
  <2>. QED
    BY <2>4, <2>6, <2>7, <2>8, <2>9
    DEF Undisturbed, BackedFits, ReadingFits, ApplyingFits, IsApplied
<1>. QED
  BY <1>4, <1>5

\* The rollback of the run itself: what it writes is what was found.
LEMMA UndoKeepsOwn ==
    ASSUME Types, RunsFit, ManifestsFit, NEW u \in Undoers,
           RemoveCreated(u) \/ OpenRestore(u) \/ FillRestore(u),
           NEW r \in Runs, undo[u].manifest.by = r, Undisturbed(r)
    PROVE  Undisturbed(r)'
<1>. DEFINE q == UndoPath(u)
<1>1. /\ Undoes(u, r)
      /\ \A w \in Undoers \ {u} : undo'[w] = undo[w]
      /\ IF OpenRestore(u) THEN UndoOpens(u) ELSE UndoGoesOn(u) \/ UndoIsOver(u)
  BY UndoSteps DEF Undoes
<1>2. /\ pc[r] \in Late /\ StampOf[r] = undo[u].stamp
      /\ undo[u].manifest.entries = changes[r]
      /\ undo[u].todo \subseteq DOMAIN changes[r] /\ DOMAIN changes[r] \subseteq ScopeOf[r]
      /\ q \in undo[u].todo /\ ScopeOf[r] \subseteq Paths
  BY <1>1, UndoneRun, UndoFields, AgentAssumption
  DEF Undoes, ManifestsFit, RunsFit, RunFits, Types
<1>3. /\ u = r \/ pc[r] = "done"
      /\ \A w \in Undoers : Undoes(w, r) => w = u
      /\ rollback[r] = "begun"
  BY <1>1 DEF Undisturbed, SoleUndoer
<1>4. u = r => pc[r] = "undoing"
  BY <1>1 DEF Undoes, RunsFit, RunFits
<1>5. IsBacked(r)
  BY <1>3, <1>4, <1>1 DEF Undisturbed, BackedFits
<1>6. (StaysPut(r) \/ Moves(r)) /\ before'[r] = before[r] /\ changes'[r] = changes[r]
  BY UndoersMove DEF StaysPut, Moves
<1>. HIDE DEF q
<1>7. /\ backup' = backup
      /\ \A p \in ScopeOf[r] : p # q => target'[p] = target[p]
  <2>1. \E content : WriteTarget(q, content, r)
    BY DEF RemoveCreated, OpenRestore, FillRestore, q
  <2>. QED
    BY <1>2, <2>1 DEF WriteTarget, Types, FileTypes, Trees
<1>8. IsBacked(r)'
  BY <1>2, <1>5, <1>6, <1>7 DEF IsBacked, Saved
<1>9. DoneFits(r)'
  BY <1>8 DEF IsBacked, DoneFits
<1>10. pc'[r] \in {"rollback", "undoing", "done"}
  BY <1>3, <1>4, <1>6 DEF StaysPut, Moves
<1>11. CASE OpenRestore(u)
  <2>1. /\ undo'[u].manifest = undo[u].manifest /\ undo'[u].todo = undo[u].todo
        /\ undo'[u].buf = backup[StampOf[r]][q] /\ rollback' = rollback
        /\ UndoPath(u)' = q
    BY <1>1, <1>2, <1>11 DEF UndoOpens, UndoPath, q
  <2>2. backup[StampOf[r]][q] = before[r][q]
    BY <1>2, <1>5, <1>11 DEF IsBacked, Saved, OpenRestore, UndoType, q
  <2>3. \A w \in Undoers : Undoes(w, r)' => w = u
    BY <1>1, <1>3 DEF Undoes, IsUndoing
  <2>4. \A p \in DOMAIN changes[r] \ undo[u].todo : target[p] = before[r][p]
    BY <1>1 DEF Undisturbed, UndoFits
  <2>5. UndoFits(r)'
    BY <1>2, <1>3, <1>6, <1>7, <2>1, <2>2, <2>3, <2>4 DEF UndoFits
  <2>6. SoleUndoer(r)'
    BY <1>3, <1>6, <2>1, <2>3 DEF SoleUndoer, StaysPut, Moves
  <2>. QED
    BY <1>8, <1>9, <1>10, <2>5, <2>6
    DEF Undisturbed, BackedFits, ReadingFits, ApplyingFits, IsApplied
<1>12. CASE RemoveCreated(u) \/ FillRestore(u)
  <2>1. target \in [Paths -> Contents \cup {Absent}] /\ q \in Paths
    BY <1>2 DEF Types, FileTypes, Trees
  <2>2. target'[q] = before[r][q]
    <3>1. CASE RemoveCreated(u)
      <4>1. target'[q] = Absent /\ changes[r][q] = "create"
        BY <1>2, <2>1, <3>1 DEF RemoveCreated, WriteTarget, UndoType, q
      <4>. QED
        BY <1>2, <1>5, <4>1 DEF IsBacked
    <3>2. CASE FillRestore(u)
      <4>1. target'[q] = undo[u].buf /\ undo[u].buf # Absent
        BY <2>1, <3>2 DEF FillRestore, WriteTarget, q
      <4>. QED
        BY <1>1, <4>1 DEF Undisturbed, UndoFits, q
    <3>. QED
      BY <1>12, <3>1, <3>2
  <2>3. \A p \in DOMAIN changes[r] \ (undo[u].todo \ {q}) : target'[p] = before[r][p]
    BY <1>1, <1>2, <1>7, <2>2 DEF Undisturbed, UndoFits
  <2>4. ~ OpenRestore(u) /\ \A w \in Undoers : Undoes(w, r)' => w = u
    BY <1>1, <1>3, <1>12 DEF OpenRestore, RemoveCreated, FillRestore, Undoes, IsUndoing
  <2>5. CASE UndoGoesOn(u)
    <3>1. rollback'[r] = "begun" /\ undo'[u].buf = Absent /\ undo'[u].todo = undo[u].todo \ {q}
      BY <1>3, <2>5 DEF UndoGoesOn, q
    <3>2. SoleUndoer(r)'
      BY <1>3, <1>6, <2>4, <3>1 DEF SoleUndoer, StaysPut, Moves
    <3>3. UndoFits(r)'
      BY <1>6, <2>3, <2>4, <3>1 DEF UndoFits
    <3>. QED
      BY <1>8, <1>9, <1>10, <3>2, <3>3
      DEF Undisturbed, BackedFits, ReadingFits, ApplyingFits, IsApplied
  <2>6. CASE UndoIsOver(u)
    <3>1. \A w \in Undoers : ~ Undoes(w, r)'
      BY <2>4, <2>6 DEF UndoIsOver, Undoes, IsUndoing
    <3>2. \A p \in ScopeOf[r] : target'[p] = before'[r][p]
      BY <1>6, <1>8, <2>3, <2>6 DEF UndoIsOver, IsBacked, q
    <3>. QED
      BY <1>8, <1>9, <1>10, <3>1, <3>2
      DEF Undisturbed, BackedFits, ReadingFits, ApplyingFits, IsApplied, SoleUndoer, UndoFits
  <2>. QED
    BY <1>1, <2>4, <2>5, <2>6
<1>. QED
  BY <1>11, <1>12

-----------------------------------------------------------------------------
(* Every step                                                              *)

\* The step of another, which has disturbed the run or left alone what it relies on.
LEMMA OthersKeep ==
    ASSUME Types, RunsFit, ManifestsFit, NEW r \in Runs, Undisturbed(r),
           StaysPut(r) \/ Moves(r), TreeStays(r) \/ ~ HasRead(r),
           rollback'[r] = rollback[r], ManifestStays(r),
           \A u \in Undoers : Undoes(u, r)' => Undoes(u, r) /\ undo'[u] = undo[u]
    PROVE  Undisturbed(r)'
<1>1. Moves(r) => HasRead(r)
  BY DEF Moves, HasRead, At
<1>. QED
  BY <1>1, Kept, UnreadKept

LEMMA ProceedingKeeps ==
    ASSUME Types, RunsFit, ManifestsFit, NEW r \in Runs, Proceeds(r),
           NEW s \in Runs, s \notin disturbed', Undisturbed(s)
    PROVE  Undisturbed(s)'
<1>1. UNCHANGED <<undo, rollback>>
  BY ProceedsQuietly
<1>2. \A u \in Undoers : Undoes(u, s)' => Undoes(u, s) /\ undo'[u] = undo[u]
  BY <1>1 DEF Undoes, IsUndoing
<1>3. CASE s # r
  <2>1. StaysPut(s)
    BY <1>3, OthersStayPut
  <2>2. CASE Reads(r) \/ ProbeFails(r)
    <3>1. NoWrite /\ 1 \in Paths
      BY <2>2, AgentAssumption
      DEF Reads, CopyFile, AgentEdits, Diff, ValidationsPass, ProbeFails, Paths
    <3>. QED
      BY <1>1, <1>2, <1>3, <2>1, <3>1, WriteDisturbs, OthersKeep
  <2>3. CASE OpenBackup(r) \/ FillBackup(r) \/ OpenTarget(r) \/ FillTarget(r) \/ Remove(r)
    <3>1. pc[r] \in Visiting
      BY <2>3 DEF At, Visiting, OpenBackup, FillBackup, OpenTarget, FillTarget, Remove
    <3>2. Path(r) \in Paths
      BY <3>1, PathIsPath DEF Types
    <3>3. PICK content : WriteTarget(Path(r), content, r) \/ WriteBackup(r, content)
      BY <2>3 DEF OpenBackup, FillBackup, OpenTarget, FillTarget, Remove
    <3>. QED
      BY <1>1, <1>2, <1>3, <2>1, <3>2, <3>3, WriteDisturbs, OthersKeep
  <2>4. CASE OpenManifest(r) \/ FillManifest(r)
    <3>1. WriteManifest(r, Torn) \/ WriteManifest(r, ManifestOf(r))
      BY <2>4 DEF OpenManifest, FillManifest
    <3>. QED
      BY <1>1, <1>2, <1>3, <2>1, <3>1, ManifestWriteDisturbs, OthersKeep
  <2>. QED
    BY <2>2, <2>3, <2>4 DEF Proceeds, Writes
<1>4. CASE s = r /\ ProbeFails(r)
  <2>1. Moves(r) /\ TreeStays(r) /\ ManifestStays(r)
    BY <1>4
    DEF ProbeFails, Goto, At, work, NoWrite, files, Moves, TreeStays, ManifestStays,
        HasManifest, Types, WorkTypes
  <2>. QED
    BY <1>1, <1>2, <1>4, <2>1, Kept
<1>. QED
  BY <1>3, <1>4, ReadKeeps, ApplyKeeps, ChangeAppliedKeeps, ManifestKeeps
  DEF Proceeds, Writes

LEMMA StoppingKeeps ==
    ASSUME Types, RunsFit, ManifestsFit, NEW r \in Runs, Stops(r),
           NEW s \in Runs, Undisturbed(s)
    PROVE  Undisturbed(s)'
<1>1. CASE s = r
  BY <1>1, StopKeeps
<1>2. CASE s # r
  <2>1. StaysPut(s) /\ rollback' = rollback
    BY <1>2, OthersStayPut DEF Stops
  <2>2. TreeStays(s) /\ ManifestStays(s)
    BY DEF Stops, NoWrite, files, TreeStays, ManifestStays, HasManifest
  <2>3. \A u \in Undoers : Undoes(u, s)' => Undoes(u, s) /\ undo'[u] = undo[u]
    BY DEF Stops, Undoes, IsUndoing, Types, UndoTypes
  <2>. QED
    BY <2>1, <2>2, <2>3, Kept
<1>. QED
  BY <1>1, <1>2

LEMMA UndoingKeeps ==
    ASSUME Types, RunsFit, ManifestsFit, NEW u \in Undoers,
           RemoveCreated(u) \/ OpenRestore(u) \/ FillRestore(u),
           NEW s \in Runs, s \notin disturbed', Undisturbed(s)
    PROVE  Undisturbed(s)'
<1>. DEFINE by == undo[u].manifest.by
<1>1. /\ IsUndoing(u)
      /\ UndoOpens(u) \/ UndoGoesOn(u) \/ UndoIsOver(u)
      /\ \A w \in Undoers \ {u} : undo'[w] = undo[w]
  BY UndoSteps
<1>2. by \in Runs /\ UndoPath(u) \in Paths
  BY <1>1, UndoFields DEF Types
<1>3. CASE by # s
  <2>1. PICK content : WriteTarget(UndoPath(u), content, by)
    BY DEF RemoveCreated, OpenRestore, FillRestore
  <2>2. (TreeStays(s) \/ ~ HasRead(s)) /\ ManifestStays(s)
    BY <1>2, <1>3, <2>1, WriteDisturbs
  <2>3. StaysPut(s) \/ Moves(s)
    BY UndoersMove
  <2>4. rollback'[s] = rollback[s]
    BY <1>1, <1>3 DEF UndoOpens, UndoGoesOn, UndoIsOver, Types, UndoTypes
  <2>5. \A w \in Undoers : Undoes(w, s)' => Undoes(w, s) /\ undo'[w] = undo[w]
    BY <1>1, <1>3 DEF Undoes, IsUndoing, UndoOpens, UndoGoesOn, UndoIsOver
  <2>. QED
    BY <2>2, <2>3, <2>4, <2>5, OthersKeep
<1>. QED
  BY <1>3, UndoKeepsOwn

\* The rollback of an operator ends half-way.
LEMMA OperatorStopsKeeps ==
    ASSUME Types, RunsFit, ManifestsFit, NEW u \in Undoers \ Runs, UndoFails(u),
           NEW s \in Runs, Undisturbed(s)
    PROVE  Undisturbed(s)'
<1>1. /\ undo'[u] = NoUndo /\ \A w \in Undoers \ {u} : undo'[w] = undo[w]
      /\ rollback' = rollback /\ NoWrite
  BY UndoFailsQuietly
<1>2. StaysPut(s) /\ TreeStays(s) /\ ManifestStays(s)
  BY <1>1, UndoersMove DEF NoWrite, files, TreeStays, ManifestStays, HasManifest
<1>3. \A w \in Undoers : Undoes(w, s)' => Undoes(w, s) /\ undo'[w] = undo[w]
  BY <1>1 DEF Undoes, IsUndoing
<1>. QED
  BY <1>1, <1>2, <1>3, Kept

LEMMA UndisturbedStep ==
    ASSUME Types, RunsFit, ManifestsFit, [Next]_vars,
           NEW s \in Runs, s \notin disturbed', s \notin disturbed => Undisturbed(s)
    PROVE  Undisturbed(s)'
<1>1. s \notin disturbed
  BY DEF Next, vars, WriteTarget, WriteBackup, WriteManifest, DisturbStamp, NoWrite, BeginUndo,
         CopyFile, AgentEdits, Diff, StagingFails, NothingChanged, StagedOnly, ValidationsPass,
         ValidationFails, OpenBackup, FillBackup, OpenTarget, FillTarget, Remove, OpenManifest,
         FillManifest, ApplyFails, ProbePasses, ProbeFails, RunUndoes, ManifestUnreadable,
         Crash, OperatorUndoes, RemoveCreated, OpenRestore, FillRestore, UndoFails
<1>2. Undisturbed(s)
  BY <1>1
<1>3. ASSUME NEW r \in Runs, RunUndoes(r) PROVE Undisturbed(s)'
  <2>1. StaysPut(s) \/ (RunUndoes(s) /\ Moves(s))
    BY <1>3, BeginnersMove
  <2>2. BeginUndo(r, StampOf[r]) /\ r \in Undoers /\ StampOf[r] \in Stamps
    BY <1>3 DEF RunUndoes, Undoers, Stamps
  <2>3. s # r => StaysPut(s)
    BY <1>3 DEF RunUndoes, BeginUndo, Goto, work, StaysPut, Types, WorkTypes
  <2>. QED
    BY <1>2, <1>3, <2>1, <2>2, <2>3, BeginKeeps
<1>4. ASSUME NEW t \in Stamps, OperatorUndoes(t) PROVE Undisturbed(s)'
  <2>1. StaysPut(s) /\ Operator # s /\ Operator \in Undoers
    BY <1>4, AgentAssumption DEF OperatorUndoes, BeginUndo, work, StaysPut, Undoers
  <2>. QED
    BY <1>2, <1>4, <2>1, BeginKeeps DEF OperatorUndoes
<1>5. CASE UNCHANGED vars
  <2>1. StaysPut(s) /\ TreeStays(s) /\ ManifestStays(s) /\ rollback' = rollback /\ undo' = undo
    BY <1>5
    DEF vars, work, files, undoing, StaysPut, TreeStays, ManifestStays, HasManifest
  <2>2. \A w \in Undoers : Undoes(w, s)' => Undoes(w, s) /\ undo'[w] = undo[w]
    BY <2>1 DEF Undoes, IsUndoing
  <2>. QED
    BY <1>2, <2>1, <2>2, Kept
<1>6. ASSUME NEW r \in Runs, Stops(r) \/ Proceeds(r) PROVE Undisturbed(s)'
  BY <1>2, <1>6, StoppingKeeps, ProceedingKeeps
<1>7. ASSUME NEW u \in Undoers, RemoveCreated(u) \/ OpenRestore(u) \/ FillRestore(u) \/ UndoFails(u)
      PROVE  Undisturbed(s)'
  BY <1>2, <1>6, <1>7, StopsWell, UndoingKeeps, OperatorStopsKeeps
<1>. QED
  BY <1>3, <1>4, <1>5, <1>6, <1>7, StopsWell DEF Next, Proceeds, Reads, Writes

LEMMA RecoveryInit == Init => RecoveryInv
<1>. SUFFICES ASSUME Init PROVE RecoveryInv
  OBVIOUS
<1>1. \A r \in Runs : /\ pc[r] = "copy" /\ todo[r] = ScopeOf[r] /\ changes[r] = NoChanges
                      /\ before[r] = EmptyTree /\ rollback[r] = "none"
                      /\ ScopeOf[r] \subseteq Paths /\ StampOf[r] \in Stamps
  BY AgentAssumption DEF Init, Stamps
<1>2. \A u \in Undoers : ~ IsUndoing(u)
  BY DEF Init, IsUndoing
<1>3. \A t \in Stamps : ~ HasManifest(t)
  BY DEF Init, HasManifest
<1>4. RunsFit
  BY <1>1, <1>2 DEF RunsFit, RunFits, NoChanges, Applying, Undoers
<1>5. ManifestsFit
  BY <1>2, <1>3 DEF ManifestsFit
<1>6. ASSUME NEW r \in Runs PROVE Undisturbed(r)
  BY <1>1, <1>2, <1>3
  DEF Undisturbed, SoleUndoer, Undoes, ReadingFits, IsRead, ApplyingFits, IsApplied, BackedFits,
      DoneFits, UndoFits, EmptyTree
<1>. QED
  BY <1>4, <1>5, <1>6 DEF RecoveryInv

\* The invariant holds at every step.
THEOREM Recoverable == Spec => []RecoveryInv
<1>1. Types /\ RecoveryInv /\ [Next]_vars => RecoveryInv'
  BY RunsFitStep, ManifestsFitStep, UndisturbedStep DEF RecoveryInv
<1>. QED
  BY <1>1, Inductive, RecoveryInit, PTL DEF Spec

\* Wherever a run or a rollback of it is cut short, each file the run found is in the live
\* tree or in its backup, unless somebody else has written them.
THEOREM OriginalIsRecoverableHolds == Spec => []OriginalIsRecoverable
<1>1. Types /\ RecoveryInv => OriginalIsRecoverable
  <2>. SUFFICES ASSUME Types, RecoveryInv, NEW r \in Runs \ disturbed, NEW p \in ScopeOf[r]
                PROVE  before[r][p] \in {Absent, target[p]} \/ Saved(r, p)
    BY DEF OriginalIsRecoverable, Saved
  <2>1. Undisturbed(r) /\ RunsFit
    BY DEF RecoveryInv
  <2>2. CASE pc[r] \in Reading
    BY <2>1, <2>2 DEF Reading, Undisturbed, ReadingFits, IsRead
  <2>3. CASE pc[r] \in {"apply", "fill backup", "write", "fill target"}
    <3>1. todo[r] \subseteq DOMAIN changes[r] /\ ApplyingFits(r)
      BY <2>1, <2>3 DEF RunsFit, RunFits, Applying, Undisturbed
    <3>. QED
      BY <2>3, <3>1 DEF ApplyingFits, CreatesAreNew, Patched
  <2>4. CASE pc[r] = "done"
    BY <2>1, <2>4 DEF Undisturbed, DoneFits
  <2>5. CASE pc[r] \in {"manifest", "fill manifest", "probe", "rollback", "undoing"}
    BY <2>1, <2>5, BackedIsSafe DEF Undisturbed, BackedFits
  <2>. QED
    BY <2>2, <2>3, <2>4, <2>5 DEF Types, WorkTypes, Labels, Reading
<1>. QED
  BY <1>1, Inductive, Recoverable, PTL

\* When a run has applied its patch, the live tree differs from what it found in the files
\* it had detected as changed and in no other one, whatever the validations wrote in the
\* staging copy: the deleted ones are gone, the others are as the validations left them.
THEOREM AppliedIsDetectedHolds == Spec => []AppliedIsDetected
<1>1. RecoveryInv => AppliedIsDetected
  BY DEF RecoveryInv, Undisturbed, IsApplied, AppliedIsDetected
<1>. QED
  BY <1>1, Recoverable, PTL

\* A rollback that ends without an error has brought back the tree as the run found it,
\* after any number of rollbacks that failed or died half-way.
THEOREM RollbackRestoresHolds == Spec => []RollbackRestores
<1>1. RecoveryInv => RollbackRestores
  BY DEF RecoveryInv, Undisturbed, UndoFits, RollbackRestores
<1>. QED
  BY <1>1, Recoverable, PTL
=============================================================================
