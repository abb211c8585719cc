----------------------------- MODULE EnvDefaults -----------------------------
(***************************************************************************)
(* Run of internal/runtime/envvars: find the required variables that the   *)
(* environment does not set and, when all of them may be defaulted, write  *)
(* them to the env file, after a rollback manifest that holds the file's   *)
(* old content.  The file is written with the variables of this call only: *)
(* whatever else it had is in the manifest and nowhere else.  The content  *)
(* is valid UTF-8: the manifest is JSON, in which any other byte would be  *)
(* replaced.                                                               *)
(***************************************************************************)
EXTENDS LocalCalls

CONSTANTS
    Names,       \* the variables
    Required,    \* Required[c]: the variables that the policy of call c requires
    Secret,      \* those that are secret
    Defaultable, \* those with a default that the policy allows to be written
    Default, Custom, Unset   \* the value of a variable in the file, if any

Contents == [Names -> {Default, Custom, Unset}]

\* disk.file is the env file, disk.manifest[t] the content that the manifest of
\* second t records.  mem[c].missing is what the call defaults, mem[c].found the
\* content that writeRollback has read.
ManifestOf(c) == disk.manifest[StampOf[c]]

\* applyOperations: one line for each operation, and no other.
Written(c) == [n \in Names |-> IF n \in mem[c].missing THEN Default ELSE Unset]

Init ==
    /\ CallsInit
    /\ \E file \in {NoFile} \cup Contents :
          disk = [file |-> file, manifest |-> [t \in Stamps |-> NoFile]]
    /\ mem = [c \in Calls |-> [missing |-> {}, found |-> NoFile]]

SetFile(c, content) ==
    /\ disk' = [disk EXCEPT !.file = content]
    /\ Mix(c, Calls)

SetManifest(c, content) ==
    /\ disk' = [disk EXCEPT !.manifest[StampOf[c]] = content]
    /\ Mix(c, Sharing(c))

Quiet == UNCHANGED <<disk, mixed>>

-----------------------------------------------------------------------------
(* evaluatePolicy, for each environment that the call may see              *)

\* hasBlockedFinding: one finding that may not be defaulted blocks them all.
Blocked(missing) == missing \cap Secret # {} \/ ~(missing \subseteq Defaultable)

NothingMissing(c) ==
    /\ At(c, "start")
    /\ \E env \in SUBSET Names : Required[c] \ env = {}
    /\ Return(c, "succeeded")
    /\ Quiet /\ UNCHANGED mem

Block(c) ==
    /\ At(c, "start")
    /\ \E env \in SUBSET Names : Blocked(Required[c] \ env)
    /\ Return(c, "blocked")
    /\ Quiet /\ UNCHANGED mem

\* Apply is not set, or it is set and there is no path of an env file.
Plan(c) ==
    /\ At(c, "start")
    /\ \E env \in SUBSET Names :
          /\ Required[c] \ env # {}
          /\ ~Blocked(Required[c] \ env)
    /\ \E answer \in {"dry_run", "blocked"} : Return(c, answer)
    /\ Quiet /\ UNCHANGED mem

\* writeRollback reads the file; it may be missing, or being written.
ReadFile(c) ==
    /\ At(c, "start")
    /\ \E env \in SUBSET Names :
          LET missing == Required[c] \ env
          IN  /\ missing # {} /\ ~Blocked(missing)
              /\ mem' = [mem EXCEPT ![c] = [missing |-> missing, found |-> disk.file]]
    /\ Goto(c, "manifest")
    /\ Quiet /\ UNCHANGED report

OpenManifest(c) ==
    /\ At(c, "manifest")
    /\ SetManifest(c, Torn)
    /\ Goto(c, "listing")
    /\ UNCHANGED <<mem, report>>

FillManifest(c) ==
    /\ At(c, "listing")
    /\ SetManifest(c, [content |-> mem[c].found])
    /\ Goto(c, "patch")
    /\ UNCHANGED <<mem, report>>

FailManifest(c) ==
    /\ Among(c, {"start", "manifest", "listing"})
    /\ Return(c, "no_rollback_data")
    /\ Quiet /\ UNCHANGED mem

\* A slip: the env file is opened before the manifest is complete.
OpenFileEarly(c) ==
    /\ Among(c, {"manifest", "patch"})
    /\ SetFile(c, Torn)
    /\ Goto(c, "write")
    /\ UNCHANGED <<mem, report>>

OpenFile(c) ==
    /\ At(c, "patch")
    /\ SetFile(c, Torn)
    /\ Goto(c, "write")
    /\ UNCHANGED <<mem, report>>

FillFile(c) ==
    /\ At(c, "write")
    /\ SetFile(c, Written(c))
    /\ Return(c, "succeeded")
    /\ UNCHANGED mem

FailFile(c) ==
    /\ Among(c, {"patch", "write"})
    /\ Goto(c, "undo")
    /\ Quiet /\ UNCHANGED <<mem, report>>

-----------------------------------------------------------------------------
(* restoreRollback works from the manifest that is on disk.  Its error is  *)
(* dropped: the call ends with the error of the write either way.          *)

IsManifest(entry) == entry \notin {Torn, NoFile}

RemoveFile(c) ==
    /\ At(c, "undo")
    /\ IsManifest(ManifestOf(c)) /\ ManifestOf(c).content = NoFile
    /\ SetFile(c, NoFile)
    /\ Return(c, "failed")
    /\ UNCHANGED mem

OpenUndo(c) ==
    /\ At(c, "undo")
    /\ IsManifest(ManifestOf(c)) /\ ManifestOf(c).content # NoFile
    /\ mem' = [mem EXCEPT ![c].found = ManifestOf(c).content]
    /\ SetFile(c, Torn)
    /\ Goto(c, "restore")
    /\ UNCHANGED report

FillUndo(c) ==
    /\ At(c, "restore")
    /\ SetFile(c, mem[c].found)
    /\ Return(c, "failed")
    /\ UNCHANGED mem

FailUndo(c) ==
    /\ Among(c, {"undo", "restore"})
    /\ Return(c, "failed")
    /\ Quiet /\ UNCHANGED mem

Step(c) ==
    \/ NothingMissing(c) \/ Block(c) \/ Plan(c)
    \/ ReadFile(c) \/ OpenManifest(c) \/ FillManifest(c) \/ FailManifest(c)
    \/ OpenFile(c) \/ FillFile(c) \/ FailFile(c)
    \/ RemoveFile(c) \/ OpenUndo(c) \/ FillUndo(c) \/ FailUndo(c)
    \/ Crash(c)

Next == \E c \in Calls : Step(c)

Spec == Init /\ [][Next]_vars

-----------------------------------------------------------------------------
(* Properties                                                              *)

Labels == {"start", "manifest", "listing", "patch", "write", "undo", "restore", "done"}

Reports == {"none", "blocked", "dry_run", "succeeded", "no_rollback_data", "failed",
            "crashed"}

Files == Contents \cup {Torn, NoFile}

\* The variables keep their types.
TypeOK ==
    /\ disk \in [file : Files, manifest : [Stamps -> {Torn, NoFile} \cup [content : Files]]]
    /\ pc \in [Calls -> Places(Labels)]
    /\ mem \in [Calls -> [missing : SUBSET Names, found : Files]]
    /\ report \in [Calls -> Reports]
    /\ mixed \subseteq Calls

\* Everything the env file had, the lines that the write drops included, is in the
\* file or in the manifest of the call, wherever the call stops, unless another call
\* disturbed it; that there was no file is recorded too.
EnvIsRecoverable ==
    \A c \in Calls : Alone(c) /\ mem[c].missing # {} =>
        \/ disk.file = mem[c].found
        \/ ManifestOf(c) = [content |-> mem[c].found]
=============================================================================
