------------------------------ MODULE Resources ------------------------------
(***************************************************************************)
(* Ensure and Rollback of internal/runtime/resources: create a directory   *)
(* or a file that the application lacks, its missing parents included,     *)
(* after a manifest that lists them; verify; when that fails remove what   *)
(* the manifest lists, last first.  The manifest can also be rolled back   *)
(* later, by whoever has its path.  The application works in the same tree *)
(* all the time.                                                           *)
(***************************************************************************)
EXTENDS LocalCalls, Trees

CONSTANTS
    Paths,    \* the paths below the app root
    FilePaths, \* those that the policies want to be files
    Parent,   \* Parent[p]: the directory of p, or the app root
    PathOf    \* PathOf[c]: the path that call c is asked for

Nodes == {"absent", "dir", "placeholder", "data"}

Over == Above(Paths, Parent)

Below(p) == {q \in Paths : q = p \/ p \in Over[q]}

\* The segments of a call's path, as paths.  They lie one below the other, so that a set
\* of them has an order: the code keeps it in its lists.
Chain(c) == {PathOf[c]} \cup Over[PathOf[c]]
Topmost(set) == {p \in set : Over[p] \cap set = {}}
Deepest(set) == {p \in set : Below(p) \cap set = {p}}

\* disk.tree is what is at each path, disk.manifest[t] the entries of the manifest of
\* second t.  mem[c].found is the tree that call c has inspected, mem[c].todo what it
\* still has to create or to remove, mem[c].listed whether it has its manifest.
ManifestOf(c) == disk.manifest[StampOf[c]]

\* A slip: the directories that are there already are planned too.
PlannedWithTheRest(c) == Chain(c)

\* planCreations
Planned(c) == {p \in Chain(c) : mem[c].found[p] = "absent"}

DirExists(tree, p) == p \in Paths => tree[p] = "dir"

Init ==
    /\ CallsInit
    /\ \E tree \in [Paths -> {"absent", "dir", "data"}] :
          /\ \A p \in Paths : tree[p] # "absent" => DirExists(tree, Parent[p])
          /\ disk = [tree |-> tree, manifest |-> [t \in Stamps |-> NoFile]]
          /\ mem = [c \in Calls |-> [found |-> tree, todo |-> {}, listed |-> FALSE]]

\* The paths that a call relies on: its own, and wherever it has found something.
Relied(c) == Chain(c) \cup {p \in Paths : mem[c].found[p] # "absent"}

\* What is at the paths in where changes under the calls that rely on one of them.
SetTree(who, where, node) ==
    /\ disk' = [disk EXCEPT !.tree = [p \in Paths |-> IF p \in where THEN node ELSE @[p]]]
    /\ mixed' = mixed \cup
          {d \in Calls \ who : Begun(d) /\ where \cap Relied(d) # {}}

SetManifest(c, entries) ==
    /\ disk' = [disk EXCEPT !.manifest[StampOf[c]] = entries]
    /\ Mix(c, Sharing(c))

Quiet == UNCHANGED <<disk, mixed>>

-----------------------------------------------------------------------------
(* Ensure                                                                  *)

\* The path is not allowlisted, leaves the root or is of the other kind, or there is
\* something to create and nothing to verify it with.
Refuse(c) ==
    /\ At(c, "start")
    /\ Return(c, "declined")
    /\ Quiet /\ UNCHANGED mem

\* Every segment is missing or of the right kind.
Inspectable(c) ==
    \A p \in Chain(c) :
        disk.tree[p] \in IF p \in FilePaths THEN {"absent", "data", "placeholder"}
                         ELSE {"absent", "dir"}

Inspect(c) ==
    /\ At(c, "start")
    /\ Inspectable(c)
    /\ mem' = [mem EXCEPT ![c].found = disk.tree]
    /\ Goto(c, IF \E p \in Chain(c) : disk.tree[p] = "absent"
               THEN "manifest" ELSE "check")
    /\ Quiet /\ UNCHANGED report

\* Everything is there already: only the verification is run.
Check(c) ==
    /\ At(c, "check")
    /\ \E answer \in {"verified", "unverified"} : Return(c, answer)
    /\ Quiet /\ UNCHANGED mem

OpenManifest(c) ==
    /\ At(c, "manifest")
    /\ SetManifest(c, Torn)
    /\ Goto(c, "listing")
    /\ UNCHANGED <<mem, report>>

FillManifest(c) ==
    /\ At(c, "listing")
    /\ SetManifest(c, [entries |-> Planned(c)])
    /\ mem' = [mem EXCEPT ![c].todo = Planned(c), ![c].listed = TRUE]
    /\ Goto(c, "apply")
    /\ UNCHANGED report

FailManifest(c) ==
    /\ Among(c, {"manifest", "listing"})
    /\ Return(c, "no_manifest")
    /\ Quiet /\ UNCHANGED mem

\* Mkdir: what is there already, a file even, is left as it is.
MakeDirectory(c) ==
    /\ At(c, "apply")
    /\ \E p \in Topmost(mem[c].todo) \ FilePaths :
          /\ IF disk.tree[p] = "absent"
             THEN DirExists(disk.tree, Parent[p]) /\ SetTree({c}, {p}, "dir")
             ELSE Quiet
          /\ mem' = [mem EXCEPT ![c].todo = @ \ {p}]
    /\ UNCHANGED <<pc, report>>

\* WriteFile: a file that has appeared meanwhile is overwritten with the placeholder.
MakeFile(c) ==
    /\ At(c, "apply")
    /\ \E p \in Topmost(mem[c].todo) \cap FilePaths :
          /\ disk.tree[p] # "dir" /\ DirExists(disk.tree, Parent[p])
          /\ SetTree({c}, {p}, "placeholder")
          /\ mem' = [mem EXCEPT ![c].todo = @ \ {p}]
    /\ UNCHANGED <<pc, report>>

Applied(c) ==
    /\ At(c, "apply") /\ mem[c].todo = {}
    /\ Goto(c, "verify")
    /\ Quiet /\ UNCHANGED <<mem, report>>

FailApply(c) ==
    /\ At(c, "apply") /\ mem[c].todo # {}
    /\ Goto(c, "undo")
    /\ Quiet /\ UNCHANGED <<mem, report>>

Verify(c) ==
    /\ At(c, "verify")
    /\ Return(c, "verified")
    /\ Quiet /\ UNCHANGED mem

FailVerify(c) ==
    /\ At(c, "verify")
    /\ Goto(c, "undo")
    /\ Quiet /\ UNCHANGED <<mem, report>>

-----------------------------------------------------------------------------
(* Rollback                                                                *)

\* Somebody rolls the manifest of a call back that has returned, or died.
StartRollback(c) ==
    /\ At(c, "done") /\ mem[c].listed
    /\ report[c] \in {"verified", "crashed", "not_rolled_back"}
    /\ Goto(c, "undo")
    /\ Quiet /\ UNCHANGED <<mem, report>>

ReadManifest(c) ==
    /\ At(c, "undo")
    /\ ManifestOf(c) \notin {Torn, NoFile}
    /\ mem' = [mem EXCEPT ![c].todo = ManifestOf(c).entries]
    /\ Goto(c, "remove")
    /\ Quiet /\ UNCHANGED report

\* removeCreated: a directory goes with everything that is below it, what the application
\* has put there since it was created included; what is missing
\* is passed over; a directory in the place of a file ends the rollback.
RemoveCreated(c) ==
    /\ At(c, "remove")
    /\ \E p \in Deepest(mem[c].todo) :
          /\ p \in FilePaths => disk.tree[p] # "dir"
          /\ IF disk.tree[p] = "absent" THEN Quiet ELSE SetTree({c}, Below(p), "absent")
          /\ mem' = [mem EXCEPT ![c].todo = @ \ {p}]
    /\ UNCHANGED <<pc, report>>

Removed(c) ==
    /\ At(c, "remove") /\ mem[c].todo = {}
    /\ Return(c, "rolled_back")
    /\ Quiet /\ UNCHANGED mem

FailRollback(c) ==
    /\ Among(c, {"undo", "remove"})
    /\ Return(c, "not_rolled_back")
    /\ Quiet /\ UNCHANGED mem

-----------------------------------------------------------------------------
\* The application makes a directory or writes a file of its own.
ApplicationWrites(p) ==
    /\ Working
    /\ DirExists(disk.tree, Parent[p])
    /\ \/ disk.tree[p] = "absent" /\ \E node \in {"dir", "data"} : SetTree({}, {p}, node)
       \/ disk.tree[p] = "placeholder" /\ SetTree({}, {p}, "data")
    /\ UNCHANGED <<pc, mem, report>>

Step(c) ==
    \/ Refuse(c) \/ Inspect(c) \/ Check(c)
    \/ OpenManifest(c) \/ FillManifest(c) \/ FailManifest(c)
    \/ MakeDirectory(c) \/ MakeFile(c) \/ Applied(c) \/ FailApply(c)
    \/ Verify(c) \/ FailVerify(c)
    \/ StartRollback(c) \/ ReadManifest(c) \/ RemoveCreated(c) \/ Removed(c)
    \/ FailRollback(c)
    \/ Crash(c)

Next == (\E c \in Calls : Step(c)) \/ (\E p \in Paths : ApplicationWrites(p))

Spec == Init /\ [][Next]_vars

-----------------------------------------------------------------------------
(* Properties                                                              *)

Labels == {"start", "check", "manifest", "listing", "apply", "verify", "undo", "remove",
           "done"}

Reports == {"none", "declined", "unverified", "no_manifest", "verified", "rolled_back",
            "not_rolled_back", "crashed"}

\* The variables keep their types.
TypeOK ==
    /\ disk \in [tree : [Paths -> Nodes],
                 manifest : [Stamps -> {Torn, NoFile} \cup [entries : SUBSET Paths]]]
    /\ pc \in [Calls -> Places(Labels)]
    /\ mem \in [Calls -> [found : [Paths -> Nodes], todo : SUBSET Paths, listed : BOOLEAN]]
    /\ report \in [Calls -> Reports]
    /\ mixed \subseteq Calls

Inspected(c) == Begun(c) /\ report[c] # "declined"

\* A path that a call has created is in a complete manifest, wherever the call stops,
\* unless the application or another call got in its way.
CreatedIsListed ==
    \A c \in Calls : Alone(c) /\ Inspected(c) =>
        \A p \in Chain(c) : disk.tree[p] # mem[c].found[p] =>
            /\ ManifestOf(c) \notin {Torn, NoFile}
            /\ p \in ManifestOf(c).entries

\* A rollback that reports success, whenever it is run and after whatever crash, leaves
\* the path as the call found it.  And no step of a call touches what was anywhere in the
\* tree when it looked, although a directory is removed with all that is below it.  What
\* the application has put below a created directory since then does go with it: nothing
\* is promised of that.
RollbackRestores ==
    \A c \in Calls : Alone(c) /\ Inspected(c) =>
        /\ report[c] = "rolled_back" =>
              \A p \in Chain(c) : disk.tree[p] = mem[c].found[p]
        /\ \A p \in Paths :
              mem[c].found[p] # "absent" => disk.tree[p] = mem[c].found[p]
=============================================================================
