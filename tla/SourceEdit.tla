----------------------------- MODULE SourceEdit ------------------------------
(***************************************************************************)
(* ApplySourceEdit of internal/remediation: replace one piece of text in a *)
(* source file, restart the service, verify, and copy the backup back when *)
(* either fails.  Calls edit different places of one file, so a text is    *)
(* the set of the edits that are in it.  Torn text may still hold the      *)
(* piece that a call looks for; what is made of it is torn as well.        *)
(***************************************************************************)
EXTENDS LocalCalls

CONSTANT Restarts   \* the calls that were given a Restart function

Texts == SUBSET Calls

\* disk.source is the file, disk.backup[t] the backup of second t, disk.loaded what
\* the service runs; mem[c] is the text that call c has read.
Patched(c) == IF mem[c] = Torn THEN Torn ELSE mem[c] \cup {c}

Holds(text, c) == text # Torn /\ c \in text

BackupOf(c) == disk.backup[StampOf[c]]

Init ==
    /\ CallsInit
    /\ disk = [source |-> {}, loaded |-> {}, backup |-> [t \in Stamps |-> NoFile]]
    /\ mem = [c \in Calls |-> {}]

SetSource(c, text) ==
    /\ disk' = [disk EXCEPT !.source = text]
    /\ Mix(c, Calls)

SetBackup(c, text) ==
    /\ disk' = [disk EXCEPT !.backup[StampOf[c]] = text]
    /\ Mix(c, Sharing(c))

Quiet == UNCHANGED <<disk, mixed>>

-----------------------------------------------------------------------------
\* The options are incomplete, the file cannot be read, or has no Before text.
Refuse(c) ==
    /\ At(c, "start")
    /\ Return(c, "declined")
    /\ Quiet /\ UNCHANGED mem

Read(c) ==
    /\ At(c, "start")
    /\ ~Holds(disk.source, c)
    /\ mem' = [mem EXCEPT ![c] = disk.source]
    /\ Goto(c, "backup")
    /\ Quiet /\ UNCHANGED report

\* A slip: the source is opened for the patch before it is copied.
OpenBackupLate(c) ==
    /\ At(c, "backup")
    /\ SetSource(c, Torn)
    /\ Goto(c, "copy")
    /\ UNCHANGED <<mem, report>>

\* copyFile opens the backup for writing and copies what the source holds by then.
OpenBackup(c) ==
    /\ At(c, "backup")
    /\ SetBackup(c, Torn)
    /\ Goto(c, "copy")
    /\ UNCHANGED <<mem, report>>

FillBackup(c) ==
    /\ At(c, "copy")
    /\ SetBackup(c, disk.source)
    /\ Goto(c, "patch")
    /\ UNCHANGED <<mem, report>>

FailBackup(c) ==
    /\ Among(c, {"backup", "copy"})
    /\ Return(c, "backup_failed")
    /\ Quiet /\ UNCHANGED mem

OpenSource(c) ==
    /\ At(c, "patch")
    /\ SetSource(c, Torn)
    /\ Goto(c, "write")
    /\ UNCHANGED <<mem, report>>

FillSource(c) ==
    /\ At(c, "write")
    /\ SetSource(c, Patched(c))
    /\ Goto(c, "restart")
    /\ UNCHANGED <<mem, report>>

\* The error is returned with the path of the backup; nothing is restored.
FailSource(c) ==
    /\ Among(c, {"patch", "write"})
    /\ Return(c, "write_failed")
    /\ Quiet /\ UNCHANGED mem

\* The service reads its source when it is restarted.
Restart(c) ==
    /\ At(c, "restart")
    /\ disk' = IF c \in Restarts THEN [disk EXCEPT !.loaded = disk.source] ELSE disk
    /\ Goto(c, "verify")
    /\ UNCHANGED <<mem, report, mixed>>

\* The restart reports an error, before or after the service has read its source.
FailRestart(c) ==
    /\ At(c, "restart")
    /\ c \in Restarts
    /\ \/ UNCHANGED disk
       \/ disk' = [disk EXCEPT !.loaded = disk.source]
    /\ Goto(c, "undo")
    /\ UNCHANGED <<mem, report, mixed>>

Verify(c) ==
    /\ At(c, "verify")
    /\ Return(c, "verified")
    /\ Quiet /\ UNCHANGED mem

FailVerify(c) ==
    /\ At(c, "verify")
    /\ Goto(c, "undo")
    /\ Quiet /\ UNCHANGED <<mem, report>>

\* rollbackSource: copyFile the other way round.
OpenUndo(c) ==
    /\ At(c, "undo")
    /\ SetSource(c, Torn)
    /\ Goto(c, "restore")
    /\ UNCHANGED <<mem, report>>

FillUndo(c) ==
    /\ At(c, "restore")
    /\ SetSource(c, BackupOf(c))
    /\ Return(c, "rolled_back")
    /\ UNCHANGED mem

\* A slip: the result claims a rollback whatever rollbackSource returned.
FailUndoSilently(c) ==
    /\ Among(c, {"undo", "restore"})
    /\ Return(c, "rolled_back")
    /\ Quiet /\ UNCHANGED mem

FailUndo(c) ==
    /\ Among(c, {"undo", "restore"})
    /\ Return(c, "not_rolled_back")
    /\ Quiet /\ UNCHANGED mem

Step(c) ==
    \/ Refuse(c) \/ Read(c)
    \/ OpenBackup(c) \/ FillBackup(c) \/ FailBackup(c)
    \/ OpenSource(c) \/ FillSource(c) \/ FailSource(c)
    \/ Restart(c) \/ FailRestart(c) \/ Verify(c) \/ FailVerify(c)
    \/ OpenUndo(c) \/ FillUndo(c) \/ FailUndo(c)
    \/ Crash(c)

Next == \E c \in Calls : Step(c)

Spec == Init /\ [][Next]_vars

-----------------------------------------------------------------------------
(* Properties                                                              *)

Labels == {"start", "backup", "copy", "patch", "write", "restart", "verify", "undo",
           "restore", "done"}

Reports == {"none", "declined", "backup_failed", "write_failed", "verified",
            "rolled_back", "not_rolled_back", "crashed"}

\* The variables keep their types.
TypeOK ==
    /\ disk \in [source : Texts \cup {Torn}, loaded : Texts \cup {Torn},
                 backup : [Stamps -> Texts \cup {Torn, NoFile}]]
    /\ pc \in [Calls -> Places(Labels)]
    /\ mem \in [Calls -> Texts \cup {Torn}]
    /\ report \in [Calls -> Reports]
    /\ mixed \subseteq Calls

\* The text a call found is never lost, wherever the call stops: it is in the source
\* file or in the backup, unless another call disturbed this one.
TextIsRecoverable ==
    \A c \in Calls :
        Alone(c) /\ report[c] # "declined" => mem[c] \in {disk.source, BackupOf(c)}

\* A verified edit is in the file and in the service that was restarted for it, and
\* the flag rolled_back means that the file is as it was.
ReportIsTrue ==
    \A c \in Calls : Alone(c) =>
        /\ report[c] = "verified" =>
              /\ disk.source = Patched(c)
              /\ c \in Restarts => disk.loaded = Patched(c)
        /\ report[c] \in {"rolled_back", "backup_failed"} => disk.source = mem[c]
=============================================================================
