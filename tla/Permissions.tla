----------------------------- MODULE Permissions -----------------------------
(***************************************************************************)
(* Run of internal/runtime/permissions: compare the directories that a     *)
(* framework must be able to write to with its policy, create and chmod    *)
(* what differs, look again, verify, and roll back when that fails.  The   *)
(* rollback works from the list in memory, last entry first, goes on after *)
(* an error and drops it.  A directory below one that may not be searched  *)
(* looks missing to os.Stat.                                               *)
(***************************************************************************)
EXTENDS LocalCalls, Trees, Naturals, Sequences

CONSTANTS
    Paths,   \* the directories below the app root
    Parent,  \* Parent[p]: the directory of p, or the app root
    Policy   \* the paths of the policy, in its order, each once

\* A directory has the expected mode and can be written to, has it and cannot, has
\* another mode, or one that does not let its entries be looked at.  A mode is its nine
\* permission bits, as in the code: of setgid and sticky, which a chmod clears and no
\* rollback sets again, nothing is said.
Modes == {"right", "locked", "drifted", "closed"}
Nodes == Modes \cup {"missing"}

Over == Above(Paths, Parent)

Expected == {Policy[i] : i \in DOMAIN Policy}

\* What is left of the policy has its order.
Before(p, q) == \E i, j \in DOMAIN Policy : i < j /\ Policy[i] = p /\ Policy[j] = q
First(set) == {p \in set : \A q \in set : ~Before(q, p)}
Last(set) == {p \in set : \A q \in set : ~Before(p, q)}

Searchable(tree, p) == \A q \in Over[p] : tree[q] # "closed"

\* inspectPath: a Stat that fails for whatever reason reads as a missing directory.
Seen(tree, p) == IF Searchable(tree, p) THEN tree[p] ELSE "missing"

\* inspectPolicy: the paths to create or chmod, and those that no operation is known for.
Operations(tree) == {p \in Expected : Seen(tree, p) \in {"missing", "drifted", "closed"}}

Unfixable(tree) == {p \in Expected : Seen(tree, p) = "locked"}

Matches(tree) == \A p \in Expected : Seen(tree, p) = "right"

\* disk.tree is what is at each path, disk.manifest[t] the entries of the manifest of
\* second t.  mem[c].found is the tree that call c has inspected, mem[c].entries what
\* it has recorded of it, mem[c].todo the operations or entries left, mem[c].skipped
\* whether the system has refused a step of its rollback.
ManifestOf(c) == disk.manifest[StampOf[c]]

Nothing == [p \in Paths |-> "missing"]

Init ==
    /\ CallsInit
    /\ \E tree \in [Paths -> Nodes] :
          /\ \A p \in Paths : tree[p] # "missing" /\ Parent[p] \in Paths =>
                                 tree[Parent[p]] # "missing"
          /\ disk = [tree |-> tree, manifest |-> [t \in Stamps |-> NoFile]]
          /\ mem = [c \in Calls |-> [found |-> tree, entries |-> Nothing,
                                     todo |-> {}, skipped |-> FALSE]]

SetTree(c, tree) ==
    /\ disk' = [disk EXCEPT !.tree = tree]
    /\ IF tree = disk.tree THEN UNCHANGED mixed ELSE Mix(c, Calls)

SetManifest(c, entries) ==
    /\ disk' = [disk EXCEPT !.manifest[StampOf[c]] = entries]
    /\ Mix(c, Sharing(c))

Quiet == UNCHANGED <<disk, mixed>>

-----------------------------------------------------------------------------
\* No framework or no policy, or a policy path that leaves the root or is no directory.
Block(c) ==
    /\ At(c, "start")
    /\ Return(c, "blocked")
    /\ Quiet /\ UNCHANGED mem

\* Without Apply the plan is all there is.
DryRun(c) ==
    /\ At(c, "start")
    /\ Return(c, "dry_run")
    /\ Quiet /\ UNCHANGED mem

NothingToDo(c) ==
    /\ At(c, "start")
    /\ Operations(disk.tree) = {}
    /\ mem' = [mem EXCEPT ![c].found = disk.tree]
    /\ Return(c, IF Unfixable(disk.tree) = {} THEN "succeeded" ELSE "blocked")
    /\ Quiet

Inspect(c) ==
    /\ At(c, "start")
    /\ Operations(disk.tree) # {}
    /\ mem' = [mem EXCEPT ![c].found = disk.tree, ![c].todo = Operations(disk.tree)]
    /\ Goto(c, "manifest")
    /\ Quiet /\ UNCHANGED report

\* The modes are read again; a path that was there and cannot be looked at any more
\* ends the call.
StatEntries(c) ==
    /\ At(c, "manifest")
    /\ \A p \in mem[c].todo :
          Seen(mem[c].found, p) # "missing" => Seen(disk.tree, p) # "missing"
    /\ mem' = [mem EXCEPT ![c].entries = [p \in Paths |->
          IF p \in mem[c].todo /\ Seen(mem[c].found, p) # "missing"
          THEN disk.tree[p] ELSE "missing"]]
    /\ SetManifest(c, Torn)
    /\ Goto(c, "listing")
    /\ UNCHANGED report

FillManifest(c) ==
    /\ At(c, "listing")
    /\ SetManifest(c, mem[c].entries)
    /\ Goto(c, "apply")
    /\ UNCHANGED <<mem, report>>

FailManifest(c) ==
    /\ Among(c, {"manifest", "listing"})
    /\ Return(c, "no_manifest")
    /\ Quiet /\ UNCHANGED mem

\* MkdirAll makes the missing parents too, with the mode the umask leaves.
WithDirectories(tree, p, node) ==
    [q \in Paths |-> IF q = p THEN node
                     ELSE IF q \in Over[p] /\ tree[q] = "missing" THEN "drifted"
                     ELSE tree[q]]

\* One operation: MkdirAll when the path was missing, and the chmod.
Apply(c) ==
    /\ At(c, "apply")
    /\ \E p \in First(mem[c].todo) :
          /\ Searchable(disk.tree, p)
          /\ Seen(mem[c].found, p) = "missing" \/ disk.tree[p] # "missing"
          /\ SetTree(c, WithDirectories(disk.tree, p, "right"))
          /\ mem' = [mem EXCEPT ![c].todo = @ \ {p}]
    /\ UNCHANGED <<pc, report>>

\* An operation fails, perhaps between the MkdirAll and the chmod.
FailApply(c) ==
    /\ At(c, "apply")
    /\ \E p \in First(mem[c].todo) :
          \/ Quiet
          \/ /\ Searchable(disk.tree, p) /\ disk.tree[p] = "missing"
             /\ Seen(mem[c].found, p) = "missing"
             /\ SetTree(c, WithDirectories(disk.tree, p, "drifted"))
    /\ mem' = [mem EXCEPT ![c].todo = Operations(mem[c].found)]
    /\ Goto(c, "undo")
    /\ UNCHANGED report

\* A slip: the second inspection looks at the paths that had an operation only.
RecheckChanged(c) ==
    /\ At(c, "apply") /\ mem[c].todo = {}
    /\ \A p \in Operations(mem[c].found) : Seen(disk.tree, p) = "right"
    /\ Goto(c, "verify")
    /\ Quiet /\ UNCHANGED <<mem, report>>

\* inspectPolicy once more: every path must match now.
Recheck(c) ==
    /\ At(c, "apply") /\ mem[c].todo = {}
    /\ Matches(disk.tree)
    /\ Goto(c, "verify")
    /\ Quiet /\ UNCHANGED <<mem, report>>

FailRecheck(c) ==
    /\ At(c, "apply") /\ mem[c].todo = {}
    /\ ~Matches(disk.tree)
    /\ mem' = [mem EXCEPT ![c].todo = Operations(mem[c].found)]
    /\ Goto(c, "undo")
    /\ Quiet /\ UNCHANGED report

Verify(c) ==
    /\ At(c, "verify")
    /\ Return(c, "succeeded")
    /\ Quiet /\ UNCHANGED mem

FailVerify(c) ==
    /\ At(c, "verify")
    /\ mem' = [mem EXCEPT ![c].todo = Operations(mem[c].found)]
    /\ Goto(c, "undo")
    /\ Quiet /\ UNCHANGED report

-----------------------------------------------------------------------------
(* rollbackPermissions, one entry after the other                          *)

Empty(tree, p) == \A q \in Paths : Parent[q] = p => tree[q] = "missing"

\* What entry p of call c can do: os.Remove takes an empty directory only, Chmod one
\* that can be reached.
Undoable(c, p) ==
    /\ Searchable(disk.tree, p)
    /\ mem[c].entries[p] = "missing" => Empty(disk.tree, p)
    /\ mem[c].entries[p] # "missing" => disk.tree[p] # "missing"

\* A slip: the entries are undone in the order in which they were applied.
UndoForward(c) ==
    /\ At(c, "undo")
    /\ \E p \in First(mem[c].todo) :
          /\ IF Undoable(c, p)
             THEN SetTree(c, [disk.tree EXCEPT ![p] = mem[c].entries[p]])
             ELSE Quiet
          /\ mem' = [mem EXCEPT ![c].todo = @ \ {p}]
    /\ UNCHANGED <<pc, report>>

Undo(c) ==
    /\ At(c, "undo")
    /\ \E p \in Last(mem[c].todo) :
          /\ IF Undoable(c, p)
             THEN SetTree(c, [disk.tree EXCEPT ![p] = mem[c].entries[p]])
             ELSE Quiet
          /\ mem' = [mem EXCEPT ![c].todo = @ \ {p}]
    /\ UNCHANGED <<pc, report>>

\* The system refuses the step; the error is collected and dropped.
SkipUndo(c) ==
    /\ At(c, "undo")
    /\ \E p \in Last(mem[c].todo) :
          mem' = [mem EXCEPT ![c].todo = @ \ {p}, ![c].skipped = TRUE]
    /\ Quiet /\ UNCHANGED <<pc, report>>

Undone(c) ==
    /\ At(c, "undo") /\ mem[c].todo = {}
    /\ Return(c, "failed")
    /\ Quiet /\ UNCHANGED mem

Step(c) ==
    \/ Block(c) \/ DryRun(c) \/ NothingToDo(c) \/ Inspect(c)
    \/ StatEntries(c) \/ FillManifest(c) \/ FailManifest(c)
    \/ Apply(c) \/ FailApply(c) \/ Recheck(c) \/ FailRecheck(c)
    \/ Verify(c) \/ FailVerify(c)
    \/ Undo(c) \/ SkipUndo(c) \/ Undone(c)
    \/ Crash(c)

Next == \E c \in Calls : Step(c)

Spec == Init /\ [][Next]_vars

-----------------------------------------------------------------------------
(* Properties                                                              *)

Labels == {"start", "manifest", "listing", "apply", "verify", "undo", "done"}

Reports == {"none", "blocked", "dry_run", "no_manifest", "succeeded", "failed", "crashed"}

\* The variables keep their types.
TypeOK ==
    /\ disk \in [tree : [Paths -> Nodes],
                 manifest : [Stamps -> {Torn, NoFile} \cup [Paths -> Nodes]]]
    /\ pc \in [Calls -> Places(Labels)]
    /\ mem \in [Calls -> [found : [Paths -> Nodes], entries : [Paths -> Nodes],
                         todo : SUBSET Expected, skipped : BOOLEAN]]
    /\ report \in [Calls -> Reports]
    /\ mixed \subseteq Calls

Inspected(c) == Begun(c) /\ report[c] \notin {"blocked", "dry_run"}

SeenThere(c) == {p \in Expected : Seen(mem[c].found, p) # "missing"}

\* A mode that a call has changed is in its manifest, wherever the call stops, unless
\* another call disturbed it; and a call that succeeded leaves every path of the policy
\* as the policy wants it, those it had no operation for included.
ModesAreAccountedFor ==
    \A c \in Calls : Alone(c) /\ Inspected(c) =>
        /\ \A p \in SeenThere(c) : disk.tree[p] # mem[c].found[p] =>
              ManifestOf(c) \notin {Torn, NoFile} /\ ManifestOf(c)[p] = mem[c].found[p]
        /\ report[c] = "succeeded" => Matches(disk.tree)

\* A failed call whose rollback the system let through has given the directories it saw
\* the modes they had, and has left of those it made only what holds a directory that
\* is not in the policy.
FailureRestoresWhatWasSeen ==
    \A c \in Calls : Alone(c) /\ report[c] = "failed" /\ ~mem[c].skipped =>
        /\ \A p \in SeenThere(c) : disk.tree[p] = mem[c].found[p]
        /\ \A p \in Expected :
              mem[c].found[p] = "missing" /\ disk.tree[p] # "missing" =>
                  \E q \in Paths \ Expected : p \in Over[q] /\ disk.tree[q] # "missing"
=============================================================================
