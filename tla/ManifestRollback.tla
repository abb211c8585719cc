--------------------------- MODULE ManifestRollback ---------------------------
(***************************************************************************)
(* Execute of internal/remediation/rollbackmanifest: take the entries of a *)
(* manifest back, last first, and stop at the first one that fails.        *)
(* Nothing notes how far an execution came: whoever repeats it begins with *)
(* the last entry again.  Every entry that restores a file names a mode:   *)
(* one without a mode would leave the file the mode it has.                *)
(***************************************************************************)
EXTENDS LocalCalls, Trees, Integers, Sequences

CONSTANTS
    Paths,    \* the paths below the app root
    Parent,   \* Parent[p]: the directory of p, or the app root
    Manifests \* the entries of each manifest: an action and a path each

Over == Above(Paths, Parent)

\* What is at a path: nothing, or data and a mode, which are as they were before the
\* change that the manifest is for, or as that change left them, or, for the mode,
\* what a file or directory is created with.
Nodes == {NoFile} \cup [data : {"then", "now", Torn}, mode : {"then", "now", "created"}]

Created == [data |-> "then", mode |-> "created"]

\* disk.tree is what is at each path, disk.origin what was there before the first
\* execution, disk.entries the manifest.  mem[c] is how many entries call c has left.
Init ==
    /\ CallsInit
    /\ \E tree \in [Paths -> {NoFile} \cup [data : {"now"}, mode : {"now"}]] :
          /\ \A p \in Paths : tree[p] # NoFile /\ Parent[p] \in Paths =>
                                 tree[Parent[p]] # NoFile
          /\ \E entries \in Manifests :
                /\ disk = [tree |-> tree, origin |-> tree, entries |-> entries]
                /\ mem = [c \in Calls |-> Len(entries)]

SetTree(c, tree) ==
    /\ disk' = [disk EXCEPT !.tree = tree]
    /\ Mix(c, Calls)

Quiet == UNCHANGED <<disk, mixed>>

\* What each entry makes of a tree.
Removed(tree, p) == [q \in Paths |-> IF q = p \/ p \in Over[q] THEN NoFile ELSE tree[q]]

Opened(tree, p) ==
    [q \in Paths |->
        IF q = p THEN IF tree[p] = NoFile THEN [Created EXCEPT !.data = Torn]
                      ELSE [tree[p] EXCEPT !.data = Torn]
        ELSE IF q \in Over[p] /\ tree[q] = NoFile THEN Created ELSE tree[q]]

Moded(tree, p) == [tree EXCEPT ![p] = [@ EXCEPT !.mode = "then"]]

Restored(tree, p) ==
    [Opened(tree, p) EXCEPT ![p] = [data |-> "then", mode |-> "then"]]

-----------------------------------------------------------------------------
\* No manifest that can be read, of another version, or without an app root.
Refuse(c) ==
    /\ At(c, "start")
    /\ Return(c, "error")
    /\ Quiet /\ UNCHANGED mem

Begin(c) ==
    /\ At(c, "start")
    /\ Goto(c, "entry")
    /\ Quiet /\ UNCHANGED <<mem, report>>

\* executeEntry, for the entry that is last of those left.
Entry(c) == disk.entries[mem[c]]

Facing(c, action) ==
    At(c, "entry") /\ mem[c] > 0 /\ Entry(c).action = action

RemovePath(c) ==
    /\ Facing(c, "remove_created_path")
    /\ SetTree(c, Removed(disk.tree, Entry(c).path))
    /\ mem' = [mem EXCEPT ![c] = @ - 1]
    /\ UNCHANGED <<pc, report>>

Chmod(c) ==
    /\ Facing(c, "chmod")
    /\ disk.tree[Entry(c).path] # NoFile
    /\ SetTree(c, Moded(disk.tree, Entry(c).path))
    /\ mem' = [mem EXCEPT ![c] = @ - 1]
    /\ UNCHANGED <<pc, report>>

\* restoreFile makes the directories, truncates the file, and copies the backup.
OpenFile(c) ==
    /\ Facing(c, "restore_file")
    /\ SetTree(c, Opened(disk.tree, Entry(c).path))
    /\ Goto(c, "copy")
    /\ UNCHANGED <<mem, report>>

FillFile(c) ==
    /\ At(c, "copy")
    /\ disk.tree[Entry(c).path] # NoFile
    /\ SetTree(c, [disk.tree EXCEPT ![Entry(c).path] = [@ EXCEPT !.data = "then"]])
    /\ Goto(c, "mode")
    /\ UNCHANGED <<mem, report>>

\* The file was unlinked meanwhile: the copy goes nowhere.
FillUnlinked(c) ==
    /\ At(c, "copy")
    /\ disk.tree[Entry(c).path] = NoFile
    /\ Goto(c, "mode")
    /\ Quiet /\ UNCHANGED <<mem, report>>

ChmodFile(c) ==
    /\ At(c, "mode")
    /\ disk.tree[Entry(c).path] # NoFile
    /\ SetTree(c, Moded(disk.tree, Entry(c).path))
    /\ mem' = [mem EXCEPT ![c] = @ - 1]
    /\ Goto(c, "entry")
    /\ UNCHANGED report

\* A slip: an entry that fails is passed over.
PassOver(c) ==
    /\ Among(c, {"entry", "copy", "mode"}) /\ mem[c] > 0
    /\ mem' = [mem EXCEPT ![c] = @ - 1]
    /\ Goto(c, "entry")
    /\ Quiet /\ UNCHANGED report

\* The entry fails: the execution ends.
FailEntry(c) ==
    /\ Among(c, {"entry", "copy", "mode"}) /\ mem[c] > 0
    /\ Return(c, "error")
    /\ Quiet /\ UNCHANGED mem

Executed(c) ==
    /\ At(c, "entry") /\ mem[c] = 0
    /\ Return(c, "executed")
    /\ Quiet /\ UNCHANGED mem

Step(c) ==
    \/ Refuse(c) \/ Begin(c)
    \/ RemovePath(c) \/ Chmod(c)
    \/ OpenFile(c) \/ FillFile(c) \/ FillUnlinked(c) \/ ChmodFile(c)
    \/ FailEntry(c) \/ Executed(c)
    \/ Crash(c)

Next == \E c \in Calls : Step(c)

Spec == Init /\ [][Next]_vars

-----------------------------------------------------------------------------
(* Properties                                                              *)

Labels == {"start", "entry", "copy", "mode", "done"}

Reports == {"none", "error", "executed", "crashed"}

\* The variables keep their types.
TypeOK ==
    /\ disk \in [tree : [Paths -> Nodes], origin : [Paths -> Nodes], entries : Manifests]
    /\ pc \in [Calls -> Places(Labels)]
    /\ mem \in [Calls -> 0 .. Len(disk.entries)]
    /\ report \in [Calls -> Reports]
    /\ mixed \subseteq Calls

\* What an entry makes of a tree.
Undone(tree, entry) ==
    LET p == entry.path
    IN  CASE entry.action = "remove_created_path" -> Removed(tree, p)
          [] entry.action = "restore_file" -> Restored(tree, p)
          [] entry.action = "chmod" -> IF tree[p] = NoFile THEN tree ELSE Moded(tree, p)

\* What an execution has made of a tree when so many entries are left.
Leaving(origin, entries) ==
    LET leaving[left \in 0 .. Len(entries)] ==
            IF left = Len(entries) THEN origin
            ELSE Undone(leaving[left + 1], entries[left + 1])
    IN  leaving

Uninterrupted == Leaving(disk.origin, disk.entries)[0]

\* An execution that ends without an error leaves every path as one execution that
\* nothing interrupts would have left it, however far earlier ones came before they
\* failed or died, provided that none ran beside it.
RetryEndsAsOneExecution ==
    \A c \in Calls : Alone(c) /\ report[c] = "executed" => disk.tree = Uninterrupted
=============================================================================
