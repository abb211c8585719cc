------------------------ MODULE ReadinessPermissions ------------------------
(***************************************************************************)
(* The permission-drift lane of internal/readinessresolve: repair the      *)
(* targets of a policy one after the other, on the host or in a container, *)
(* write a rollback manifest of what was changed, probe the service, and   *)
(* when the probe fails restart the service if the policy allows it and    *)
(* probe again, or roll the changes back, last first.  A repair that fails *)
(* ends the call: what it and the earlier targets changed stays changed,   *)
(* and no manifest says so.                                                *)
(***************************************************************************)
EXTENDS LocalCalls, Trees, SequencesExt

CONSTANTS
    Paths,    \* the paths below the app root
    Parent,   \* Parent[p]: the directory of p, or the app root
    Targets,  \* the targets of the policy, in its order
    Files,    \* the targets of kind file; the others are directories
    Writable, \* the targets of access write; the others are read
    InDocker, \* the calls whose input names a compose service
    Restarts  \* the calls whose policy allows a restart

\* A path has its expected mode, another one, the 0711 that a parent is given, or a
\* mode that does not let a directory be searched.
Nodes == {"missing", "right", "drifted", "search", "closed"}

Over == Above(Paths, Parent)

Declared == {Targets[i] : i \in DOMAIN Targets}

\* disk.tree is what is at each path, disk.manifest[t] the changes that the manifest
\* of scenario t lists.  mem[c].found is the tree when call c began, mem[c].next the
\* target it is at, mem[c].changes what it has changed, with the states before, and
\* mem[c].failed whether a step of its rollback has failed.
ManifestOf(c) == disk.manifest[StampOf[c]]

Init ==
    /\ CallsInit
    /\ \E tree \in [Paths -> Nodes \ {"search"}] :
          /\ \A p \in Paths : tree[p] # "missing" /\ Parent[p] \in Paths =>
                                 tree[Parent[p]] # "missing"
          /\ \A p \in Files : tree[p] # "closed"
          /\ disk = [tree |-> tree, manifest |-> [t \in Stamps |-> NoFile]]
          /\ mem = [c \in Calls |-> [found |-> tree, next |-> 1, changes |-> <<>>,
                                     failed |-> FALSE]]

SetTree(c, tree) ==
    /\ disk' = [disk EXCEPT !.tree = tree]
    /\ IF tree = disk.tree THEN UNCHANGED mixed ELSE Mix(c, Calls)

SetManifest(c, changes) ==
    /\ disk' = [disk EXCEPT !.manifest[StampOf[c]] = changes]
    /\ Mix(c, Sharing(c))

Quiet == UNCHANGED <<disk, mixed>>

-----------------------------------------------------------------------------
(* repairLocalPermissions and dockerRepairPermissions                      *)

\* On the host a path below a directory that may not be searched cannot be reached;
\* in the container the commands run as root.
Reaches(c, tree, p) == c \in InDocker \/ \A q \in Over[p] : tree[q] # "closed"

\* fileParentSearchPath: the directory of a file, when no target declares it.
NeedsParent(p) == p \in Files /\ Parent[p] \in Paths \ (Declared \ Files)

\* canCreateMissingReadFileTarget, and the files that are written anyway.
MayCreate(p) ==
    p \in Files /\ (p \in Writable \/ Parent[p] \in (Declared \cap Writable) \ Files)

WithParent(tree, p) ==
    IF NeedsParent(p) THEN [tree EXCEPT ![Parent[p]] = "search"] ELSE tree

\* MkdirAll and mkdir -p make the directories above too.
WithPath(tree, p) ==
    [q \in Paths |-> IF tree[q] # "missing" THEN tree[q]
                     ELSE IF q = p \/ (p \notin Files /\ q \in Over[p]) THEN "drifted"
                     ELSE "missing"]

Repaired(tree, p) == [WithPath(WithParent(tree, p), p) EXCEPT ![p] = "right"]

\* The changes that one target leaves: the parent's and its own.
ChangesFor(tree, p) ==
    (IF NeedsParent(p) THEN <<[path |-> Parent[p], before |-> tree[Parent[p]]]>> ELSE <<>>)
        \o <<[path |-> p, before |-> tree[p]]>>

\* The parent is there and can be given its mode, and then the target can be reached,
\* and made when it is missing.
ParentRepairable(c, tree, p) ==
    NeedsParent(p) => Reaches(c, tree, Parent[p]) /\ tree[Parent[p]] # "missing"

Repairable(c, tree, p) ==
    /\ ParentRepairable(c, tree, p)
    /\ Reaches(c, WithParent(tree, p), p)
    /\ p \in Files =>
          \/ tree[p] # "missing"
          \/ MayCreate(p) /\ (Parent[p] \in Paths => tree[Parent[p]] # "missing")

\* Input, policy or targets that are refused.
Refuse(c) ==
    /\ At(c, "start")
    /\ \E answer \in {"invalid", "unsupported", "error"} : Return(c, answer)
    /\ Quiet /\ UNCHANGED mem

Begin(c) ==
    /\ At(c, "start")
    /\ mem' = [mem EXCEPT ![c].found = disk.tree]
    /\ Goto(c, "repair")
    /\ Quiet /\ UNCHANGED report

\* A slip: the parent's change is not recorded.
RepairOwnPath(c) ==
    /\ At(c, "repair") /\ mem[c].next <= Len(Targets)
    /\ LET p == Targets[mem[c].next]
       IN  /\ Repairable(c, disk.tree, p)
           /\ SetTree(c, Repaired(disk.tree, p))
           /\ mem' = [mem EXCEPT ![c].next = @ + 1,
                                 ![c].changes = Append(@, [path |-> p, before |-> disk.tree[p]])]
    /\ UNCHANGED <<pc, report>>

Repair(c) ==
    /\ At(c, "repair") /\ mem[c].next <= Len(Targets)
    /\ LET p == Targets[mem[c].next]
       IN  /\ Repairable(c, disk.tree, p)
           /\ SetTree(c, Repaired(disk.tree, p))
           /\ mem' = [mem EXCEPT ![c].next = @ + 1,
                                 ![c].changes = @ \o ChangesFor(disk.tree, p)]
    /\ UNCHANGED <<pc, report>>

\* The call ends at a target, before or after any of the steps it takes for it.
FailRepair(c) ==
    /\ At(c, "repair") /\ mem[c].next <= Len(Targets)
    /\ LET p == Targets[mem[c].next]
           tree == disk.tree
       IN  \/ Quiet
           \/ ParentRepairable(c, tree, p) /\ SetTree(c, WithParent(tree, p))
           \/ /\ Repairable(c, tree, p)
              /\ SetTree(c, WithPath(WithParent(tree, p), p))
    /\ Return(c, "error")
    /\ UNCHANGED mem

-----------------------------------------------------------------------------
(* writePermissionRollbackManifest, after the changes                      *)

OpenManifest(c) ==
    /\ At(c, "repair") /\ mem[c].next > Len(Targets)
    /\ SetManifest(c, Torn)
    /\ Goto(c, "listing")
    /\ UNCHANGED <<mem, report>>

FillManifest(c) ==
    /\ At(c, "listing")
    /\ SetManifest(c, mem[c].changes)
    /\ Goto(c, "verify")
    /\ UNCHANGED <<mem, report>>

\* The changes stay.
FailManifest(c) ==
    /\ \/ At(c, "repair") /\ mem[c].next > Len(Targets)
       \/ At(c, "listing")
    /\ Return(c, "error")
    /\ Quiet /\ UNCHANGED mem

-----------------------------------------------------------------------------
(* verifyLiveProbe, restartPermissionServiceIfAllowed, and the rollback    *)

Verify(c) ==
    /\ Among(c, {"verify", "verify again"})
    /\ Return(c, "resolved")
    /\ Quiet /\ UNCHANGED mem

FailVerify(c) ==
    /\ Among(c, {"verify", "verify again"})
    /\ Goto(c, IF At(c, "verify") /\ c \in Restarts \cap InDocker THEN "restart" ELSE "undo")
    /\ Quiet /\ UNCHANGED <<mem, report>>

Restart(c) ==
    /\ At(c, "restart")
    /\ Goto(c, "verify again")
    /\ Quiet /\ UNCHANGED <<mem, report>>

FailRestart(c) ==
    /\ At(c, "restart")
    /\ Goto(c, "undo")
    /\ Quiet /\ UNCHANGED <<mem, report>>

\* RemoveAll takes whatever is in a path that was missing before; the others get their
\* mode back.
Reversed(tree, change) ==
    IF change.before = "missing"
    THEN [q \in Paths |-> IF q = change.path \/ change.path \in Over[q] THEN "missing"
                          ELSE tree[q]]
    ELSE [tree EXCEPT ![change.path] = change.before]

Reversible(c, tree, change) ==
    /\ Reaches(c, tree, change.path)
    /\ change.before # "missing" => tree[change.path] # "missing"

\* A slip: the changes are undone in the order in which they were made.
UndoForward(c) ==
    /\ At(c, "undo") /\ mem[c].changes # <<>>
    /\ Reversible(c, disk.tree, Head(mem[c].changes))
    /\ SetTree(c, Reversed(disk.tree, Head(mem[c].changes)))
    /\ mem' = [mem EXCEPT ![c].changes = Tail(@)]
    /\ UNCHANGED <<pc, report>>

Undo(c) ==
    /\ At(c, "undo") /\ mem[c].changes # <<>>
    /\ Reversible(c, disk.tree, Last(mem[c].changes))
    /\ SetTree(c, Reversed(disk.tree, Last(mem[c].changes)))
    /\ mem' = [mem EXCEPT ![c].changes = Front(@)]
    /\ UNCHANGED <<pc, report>>

\* A step that fails is noted, and the rollback goes on.
FailUndo(c) ==
    /\ At(c, "undo") /\ mem[c].changes # <<>>
    /\ mem' = [mem EXCEPT ![c].changes = Front(@), ![c].failed = TRUE]
    /\ Quiet /\ UNCHANGED <<pc, report>>

Undone(c) ==
    /\ At(c, "undo") /\ mem[c].changes = <<>>
    /\ Return(c, IF mem[c].failed THEN "rollback_failed" ELSE "rolled_back")
    /\ Quiet /\ UNCHANGED mem

Step(c) ==
    \/ Refuse(c) \/ Begin(c) \/ Repair(c) \/ FailRepair(c)
    \/ OpenManifest(c) \/ FillManifest(c) \/ FailManifest(c)
    \/ Verify(c) \/ FailVerify(c) \/ Restart(c) \/ FailRestart(c)
    \/ Undo(c) \/ FailUndo(c) \/ Undone(c)
    \/ Crash(c)

Next == \E c \in Calls : Step(c)

Spec == Init /\ [][Next]_vars

-----------------------------------------------------------------------------
(* Properties                                                              *)

Labels == {"start", "repair", "listing", "verify", "restart", "verify again", "undo", "done"}

Reports == {"none", "invalid", "unsupported", "error", "resolved", "rolled_back",
            "rollback_failed", "crashed"}

Changes == [path : Paths, before : Nodes]

\* The variables keep their types.
TypeOK ==
    /\ disk \in [tree : [Paths -> Nodes],
                 manifest : [Stamps -> {Torn, NoFile} \cup Seq(Changes)]]
    /\ pc \in [Calls -> Places(Labels)]
    /\ mem \in [Calls -> [found : [Paths -> Nodes], next : 1 .. Len(Targets) + 1,
                         changes : Seq(Changes), failed : BOOLEAN]]
    /\ report \in [Calls -> Reports]
    /\ mixed \subseteq Calls

\* What MkdirAll may have made above a directory, before the turn of p itself, if p is a
\* target at all: nothing records it.
MadeAbove(c, p) ==
    /\ mem[c].found[p] = "missing"
    /\ \E i \in DOMAIN Targets :
          /\ Targets[i] \notin Files /\ p \in Over[Targets[i]]
          /\ \A j \in 1 .. i : Targets[j] # p

\* A call that says it rolled its changes back has put every path as it was, a parent
\* that two targets changed included, but for the directories made above a target.
RollbackRestores ==
    \A c \in Calls : Alone(c) /\ report[c] = "rolled_back" =>
        \A p \in Paths : disk.tree[p] = mem[c].found[p] \/ MadeAbove(c, p)

\* Once the manifest is written, and until a rollback begins, a mode that the call has
\* changed is in it, and the first entry of its path, the last to be undone, holds the
\* mode there was; a resolved call leaves every target as the policy wants it.
RepairIsOnRecord ==
    \A c \in Calls :
        Alone(c) /\ (Among(c, {"verify", "restart", "verify again"}) \/ report[c] = "resolved") =>
            /\ \A p \in Declared : disk.tree[p] = "right"
            /\ \A p \in Paths : disk.tree[p] # mem[c].found[p] =>
                  \/ MadeAbove(c, p)
                  \/ \E i \in DOMAIN ManifestOf(c) :
                        /\ ManifestOf(c)[i] = [path |-> p, before |-> mem[c].found[p]]
                        /\ \A j \in 1 .. i - 1 : ManifestOf(c)[j].path # p
=============================================================================
