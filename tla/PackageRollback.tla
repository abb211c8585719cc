--------------------------- MODULE PackageRollback ---------------------------
(***************************************************************************)
(* Rollback of internal/resolvers/packages: put one dependency of a        *)
(* package file back to its known good spec, verify with a command or a    *)
(* URL, and restore the file when that fails.  The backup and a manifest   *)
(* are written first, in a directory named after the second of the call    *)
(* and a fragment of the package's name, which other names may share.      *)
(***************************************************************************)
EXTENDS LocalCalls, FiniteSets

CONSTANTS
    Sections,    \* the dependency sections of a package file
    PackageOf,   \* PackageOf[c]: options.PackageName
    FragmentOf,  \* FragmentOf[p]: safePathFragment of package p
    Broken, Good, \* options.CurrentSpec and options.KnownGoodSpec
    Other,       \* any other spec
    Absent,      \* a section that does not list the package
    NoCall       \* no manifest

Packages == {PackageOf[c] : c \in Calls}
Specs == {Broken, Good, Other, Absent}
Documents == [Packages -> [Sections -> Specs]]
DirOf(c) == <<StampOf[c], FragmentOf[PackageOf[c]]>>
Dirs == {DirOf(c) : c \in Calls}
Sharers(c) == {d \in Calls : DirOf(d) = DirOf(c)}

\* disk.file is the package file, disk.backup and disk.manifest the two files in each
\* directory; a manifest is identified by the call it describes.  mem[c] is the
\* document that call c has parsed, its raw bytes included.
BackupOf(c) == disk.backup[DirOf(c)]

\* The document of a call with the dependency set in its section, the others as read.
SectionsWith(document, p) == {s \in Sections : document[p][s] # Absent}

Patched(c) ==
    [mem[c] EXCEPT ![PackageOf[c]] =
        [s \in Sections |-> IF s \in SectionsWith(mem[c], PackageOf[c]) THEN Good ELSE Absent]]

\* Files a person wrote: every package somewhere, perhaps in two sections.
Init ==
    /\ CallsInit
    /\ \E document \in Documents :
          /\ \A p \in Packages : SectionsWith(document, p) # {}
          /\ disk = [file |-> document, backup |-> [d \in Dirs |-> NoFile],
                     manifest |-> [d \in Dirs |-> NoCall]]
    /\ mem = [c \in Calls |-> Torn]

SetFile(c, content) ==
    /\ disk' = [disk EXCEPT !.file = content]
    /\ Mix(c, Calls)

SetBackup(c, content) ==
    /\ disk' = [disk EXCEPT !.backup[DirOf(c)] = content]
    /\ Mix(c, Sharers(c))

SetManifest(c, content) ==
    /\ disk' = [disk EXCEPT !.manifest[DirOf(c)] = content]
    /\ Mix(c, Sharers(c))

Quiet == UNCHANGED <<disk, mixed>>

-----------------------------------------------------------------------------
\* Incomplete options, an unreadable file, or a dependency that is not where the
\* policy expects it.
Refuse(c) ==
    /\ At(c, "start")
    /\ Return(c, "declined")
    /\ Quiet /\ UNCHANGED mem

\* The package is listed once, with the broken spec; a torn file does not parse.
Read(c) ==
    /\ At(c, "start")
    /\ disk.file # Torn
    /\ \E s \in Sections :
          /\ SectionsWith(disk.file, PackageOf[c]) = {s}
          /\ disk.file[PackageOf[c]][s] = Broken
    /\ mem' = [mem EXCEPT ![c] = disk.file]
    /\ Goto(c, "backup")
    /\ Quiet /\ UNCHANGED report

\* A slip: the package file is written before its rollback data.
FillFileFirst(c) ==
    /\ At(c, "backup")
    /\ SetFile(c, Patched(c))
    /\ Goto(c, "verify")
    /\ UNCHANGED <<mem, report>>

OpenBackup(c) ==
    /\ At(c, "backup")
    /\ SetBackup(c, Torn)
    /\ Goto(c, "backing")
    /\ UNCHANGED <<mem, report>>

FillBackup(c) ==
    /\ At(c, "backing")
    /\ SetBackup(c, mem[c])
    /\ Goto(c, "manifest")
    /\ UNCHANGED <<mem, report>>

OpenManifest(c) ==
    /\ At(c, "manifest")
    /\ SetManifest(c, Torn)
    /\ Goto(c, "listing")
    /\ UNCHANGED <<mem, report>>

FillManifest(c) ==
    /\ At(c, "listing")
    /\ SetManifest(c, c)
    /\ Goto(c, "patch")
    /\ UNCHANGED <<mem, report>>

\* writeRollbackData fails, or the file has vanished when it is looked at.
FailRollbackData(c) ==
    /\ Among(c, {"backup", "backing", "manifest", "listing"})
    /\ Return(c, "no_rollback_data")
    /\ Quiet /\ UNCHANGED mem

OpenFile(c) ==
    /\ At(c, "patch")
    /\ SetFile(c, Torn)
    /\ Goto(c, "write")
    /\ UNCHANGED <<mem, report>>

FillFile(c) ==
    /\ At(c, "write")
    /\ SetFile(c, Patched(c))
    /\ Goto(c, "verify")
    /\ UNCHANGED <<mem, report>>

FailFile(c) ==
    /\ Among(c, {"patch", "write"})
    /\ Return(c, "write_failed")
    /\ Quiet /\ UNCHANGED mem

Verify(c) ==
    /\ At(c, "verify")
    /\ Return(c, "verified")
    /\ Quiet /\ UNCHANGED mem

\* The command fails or times out, or the URL answers with another status.
FailVerify(c) ==
    /\ At(c, "verify")
    /\ Goto(c, "undo")
    /\ Quiet /\ UNCHANGED <<mem, report>>

OpenUndo(c) ==
    /\ At(c, "undo")
    /\ SetFile(c, Torn)
    /\ Goto(c, "restore")
    /\ UNCHANGED <<mem, report>>

FillUndo(c) ==
    /\ At(c, "restore")
    /\ SetFile(c, BackupOf(c))
    /\ Return(c, "rolled_back")
    /\ UNCHANGED mem

FailUndo(c) ==
    /\ Among(c, {"undo", "restore"})
    /\ Return(c, "not_rolled_back")
    /\ Quiet /\ UNCHANGED mem

Step(c) ==
    \/ Refuse(c) \/ Read(c)
    \/ OpenBackup(c) \/ FillBackup(c) \/ OpenManifest(c) \/ FillManifest(c)
    \/ FailRollbackData(c)
    \/ OpenFile(c) \/ FillFile(c) \/ FailFile(c)
    \/ Verify(c) \/ FailVerify(c)
    \/ OpenUndo(c) \/ FillUndo(c) \/ FailUndo(c)
    \/ Crash(c)

Next == \E c \in Calls : Step(c)

Spec == Init /\ [][Next]_vars

-----------------------------------------------------------------------------
(* Properties                                                              *)

Labels == {"start", "backup", "backing", "manifest", "listing", "patch", "write",
           "verify", "undo", "restore", "done"}

Reports == {"none", "declined", "no_rollback_data", "write_failed", "verified",
            "rolled_back", "not_rolled_back", "crashed"}

\* The variables keep their types.
TypeOK ==
    /\ disk \in [file : Documents \cup {Torn},
                 backup : [Dirs -> Documents \cup {Torn, NoFile}],
                 manifest : [Dirs -> Calls \cup {Torn, NoCall}]]
    /\ pc \in [Calls -> Places(Labels)]
    /\ mem \in [Calls -> Documents \cup {Torn}]
    /\ report \in [Calls -> Reports]
    /\ mixed \subseteq Calls

HasParsed(c) == mem[c] # Torn

\* As soon as a call has changed the package file, and wherever it stops, a manifest
\* that describes this call and a backup of what it found are on disk, unless another
\* call disturbed it.
ChangeIsRecorded ==
    \A c \in Calls : Alone(c) /\ HasParsed(c) /\ disk.file # mem[c] =>
        BackupOf(c) = mem[c] /\ disk.manifest[DirOf(c)] = c

\* A call moves a package off the broken spec only, and nothing else in the file: a
\* verified call leaves what it found with this one spec replaced, and a call that
\* rolled back leaves what it found.
OnlyBrokenSpecMoves ==
    \A c \in Calls : Alone(c) /\ HasParsed(c) =>
        /\ report[c] = "verified" =>
              /\ \A p \in Packages, s \in Sections : disk.file[p][s] # mem[c][p][s] =>
                    p = PackageOf[c] /\ mem[c][p][s] = Broken /\ disk.file[p][s] = Good
              /\ disk.file # mem[c]
        /\ report[c] \in {"rolled_back", "no_rollback_data"} => disk.file = mem[c]
=============================================================================
