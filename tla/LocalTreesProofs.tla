--------------------------- MODULE LocalTreesProofs --------------------------
(***************************************************************************)
(* What the executors that work on directory trees promise, for any tree,  *)
(* policy and targets and any number of calls: Resources, Permissions and  *)
(* ReadinessPermissions, each by an invariant that says for every place of *)
(* a call that was left alone how the tree differs from the one it found;  *)
(* and that all executors keep their types.                                *)
(***************************************************************************)
EXTENDS LocalExecutorsProofs, SequenceTheorems, WellFoundedInduction

-----------------------------------------------------------------------------
(* Trees                                                                   *)

\* The directories above a path: its own and, with each, the one that it is in.
LEMMA AboveRises ==
    ASSUME NEW P, NEW Up, NEW p \in P
    PROVE  /\ Above(P, Up)[p] \subseteq P
           /\ Up[p] \in P => Up[p] \in Above(P, Up)[p]
           /\ Rises(P, Up, Above(P, Up)[p])
  BY DEF Above, Rises

\* No other set that rises from the path is smaller.
LEMMA AboveIsLeast ==
    ASSUME NEW P, NEW Up, NEW p \in P, NEW set \in SUBSET P,
           Rises(P, Up, set), Up[p] \in P => Up[p] \in set
    PROVE  Above(P, Up)[p] \subseteq set
  BY DEF Above

LEMMA AboveAbove ==
    ASSUME NEW P, NEW Up, NEW p \in P, NEW q \in Above(P, Up)[p]
    PROVE  Above(P, Up)[q] \subseteq Above(P, Up)[p]
<1>1. q \in P /\ Rises(P, Up, Above(P, Up)[p]) /\ Above(P, Up)[p] \in SUBSET P
  BY AboveRises
<1>2. Up[q] \in P => Up[q] \in Above(P, Up)[p]
  BY <1>1 DEF Rises
<1> QED BY <1>1, <1>2, AboveIsLeast

\* In a tree in which what is there is in a directory, everything above what is there is.
LEMMA AboveIsThere ==
    ASSUME NEW P, NEW Up, NEW there \in SUBSET P, NEW p \in P,
           Rises(P, Up, there), p \in there
    PROVE  Above(P, Up)[p] \subseteq there
<1>1. Up[p] \in P => Up[p] \in there
  BY DEF Rises
<1> QED BY <1>1, AboveIsLeast
-----------------------------------------------------------------------------
(* resources.Ensure and Rollback                                           *)

\* What is there is in a directory.
Rooted(tree) == \A p \in Paths : tree[p] # "absent" => Resource!DirExists(tree, Parent[p])

\* Nothing that the call found differs, wherever it is.  Until the call has its manifest
\* nothing on its path does.  Then the manifest lists what was absent there, and only that
\* can differ; a rollback has removed what it has taken from its list.
ResourceFits(c) ==
    LET Chain == Resource!Chain(c)
        Planned == Resource!Planned(c)
        Found == mem[c].found
        AsFound == \A p \in Chain : disk.tree[p] = Found[p]
    IN  /\ \A p \in Paths : Found[p] # "absent" => disk.tree[p] = Found[p]
        /\ mem[c].listed => Resource!ManifestOf(c) = [entries |-> Planned]
        /\ ~ mem[c].listed => AsFound
        /\ Place(c) \in {"apply", "verify", "undo", "remove"} => mem[c].listed
        /\ Place(c) \in {"apply", "remove"} => mem[c].todo \subseteq Planned
        /\ Place(c) = "remove" => \A p \in Planned \ mem[c].todo : disk.tree[p] = "absent"
        /\ report[c] = "rolled_back" => AsFound

ResourceInv ==
    /\ Resource!TypeOK
    /\ Rooted(disk.tree)
    /\ \A c \in Calls :
          /\ Rooted(mem[c].found)
          /\ Place(c) = "start" => report[c] = "none"
          /\ Place(c) \in {"start", "check", "manifest", "listing"} => ~ mem[c].listed
          /\ report[c] \in {"rolled_back", "declined"} => Place(c) = "done"
          /\ Resource!Alone(c) /\ report[c] # "declined" => ResourceFits(c)

LEMMA ResourcePlaces ==
    ASSUME Resource!TypeOK, NEW c \in Calls
    PROVE  /\ Works("resources")
           /\ \A l : Resource!At(c, l) <=> Place(c) = l
           /\ \A labels : Resource!Among(c, labels) <=> Place(c) \in labels
           /\ \A l : Resource!Goto(c, l) =>
                 Place(c)' = l /\ \A d \in Calls \ {c} : Place(d)' = Place(d)
           /\ Place(c) \in Resource!Labels
<1>1. Works("resources") /\ Place(c) \in Resource!Labels
  BY DEF Resource!TypeOK, Resource!Places, Works, Place
<1> QED
  BY <1>1, Placing DEF Resource!At, Resource!Among, Resource!Places, Resource!Goto

LEMMA ResourceOver == Resource!Over = Above(Paths, Parent)
  BY DEF Resource!Over, Resource!Above, Resource!Rises, Above, Rises

LEMMA ResourceChain == ASSUME NEW c \in Calls PROVE Resource!Chain(c) \subseteq Paths
<1>1. PathOf[c] \in Paths
  BY LocalExecutorsAssumption DEF LocalExecutorsAssumption
<1> QED BY <1>1, ResourceOver, AboveRises DEF Resource!Chain

\* Below what is absent nothing is there.
LEMMA NothingBelow ==
    ASSUME NEW tree, Rooted(tree), NEW p \in Paths, tree[p] = "absent",
           NEW q \in Resource!Below(p)
    PROVE  q \in Paths /\ tree[q] = "absent"
<1> DEFINE there == {r \in Paths : tree[r] # "absent"}
<1>1. Rises(Paths, Parent, there)
  BY DEF Rises, Rooted, Resource!DirExists
<1>2. q \in Paths /\ (q = p \/ p \in Above(Paths, Parent)[q])
  BY ResourceOver DEF Resource!Below
<1>3. p \notin there
  OBVIOUS
<1>4. ASSUME q \in there, q # p PROVE FALSE
  <2>1. Above(Paths, Parent)[q] \subseteq there
    BY <1>1, <1>4, AboveIsThere
  <2> QED BY <1>2, <1>3, <1>4, <2>1
<1> QED BY <1>2, <1>4

LEMMA RootedMakes ==
    ASSUME NEW tree, Rooted(tree), NEW p \in Paths, tree[p] # "dir",
           Resource!DirExists(tree, Parent[p]), NEW node
    PROVE  Rooted([q \in Paths |-> IF q \in {p} THEN node ELSE tree[q]])
  BY DEF Rooted, Resource!DirExists

LEMMA RootedRemoves ==
    ASSUME NEW tree, Rooted(tree), NEW p \in Paths
    PROVE  Rooted([q \in Paths |-> IF q \in Resource!Below(p) THEN "absent" ELSE tree[q]])
<1> DEFINE left == [q \in Paths |-> IF q \in Resource!Below(p) THEN "absent" ELSE tree[q]]
<1> SUFFICES ASSUME NEW q \in Paths, left[q] # "absent", Parent[q] \in Paths
             PROVE  left[Parent[q]] = "dir"
  BY DEF Rooted, Resource!DirExists
<1>1. tree[Parent[q]] = "dir" /\ q \notin Resource!Below(p)
  BY DEF Rooted, Resource!DirExists
<1>2. Parent[q] \notin Resource!Below(p)
  <2>1. Above(Paths, Parent)[Parent[q]] \subseteq Above(Paths, Parent)[q]
    BY AboveRises, AboveAbove
  <2> QED BY <1>1, <2>1, AboveRises, ResourceOver DEF Resource!Below
<1> QED BY <1>1, <1>2

Entries == {Torn, NoFile} \cup [entries : SUBSET Paths]

LEMMA ResourceSetsTree ==
    ASSUME Resource!TypeOK, NEW who, NEW node, NEW where \in SUBSET Paths,
           Resource!SetTree(who, where, node)
    PROVE  /\ disk' = [tree |-> [p \in Paths |-> IF p \in where THEN node ELSE disk.tree[p]],
                       manifest |-> disk.manifest]
           /\ \A d \in Calls \ who : ~ Resource!At(d, "start") =>
                 d \in mixed' \/ \A p \in Resource!Relied(d) : disk'.tree[p] = disk.tree[p]
           /\ mixed \subseteq mixed' /\ mixed' \subseteq Calls
<1>1. disk' = [tree |-> [p \in Paths |-> IF p \in where THEN node ELSE disk.tree[p]],
               manifest |-> disk.manifest]
  BY DEF Resource!SetTree, Resource!TypeOK
<1>2. mixed' = mixed \cup {d \in Calls \ who : /\ ~ Resource!At(d, "start")
                                               /\ where \cap Resource!Relied(d) # {}}
  BY DEF Resource!SetTree, Resource!Begun
<1>3. ASSUME NEW d \in Calls \ who, ~ Resource!At(d, "start"), d \notin mixed',
             NEW p \in Resource!Relied(d)
      PROVE  disk'.tree[p] = disk.tree[p]
  <2>1. p \in Paths /\ p \notin where
    BY <1>2, <1>3, ResourceChain DEF Resource!Relied
  <2>2. disk'.tree = [q \in Paths |-> IF q \in where THEN node ELSE disk.tree[q]]
    BY <1>1
  <2> QED BY <2>1, <2>2
<1> QED BY <1>1, <1>2, <1>3 DEF Resource!TypeOK

LEMMA ResourceSetsManifest ==
    ASSUME Resource!TypeOK, NEW c \in Calls, NEW entry \in Entries,
           Resource!SetManifest(c, entry)
    PROVE  /\ disk' = [tree |-> disk.tree,
                       manifest |-> [disk.manifest EXCEPT ![StampOf[c]] = entry]]
           /\ Resource!ManifestOf(c)' = entry
           /\ \A d \in Calls \ {c} : ~ Resource!At(d, "start") =>
                 d \in mixed' \/ Resource!ManifestOf(d)' = Resource!ManifestOf(d)
           /\ mixed \subseteq mixed' /\ mixed' \subseteq Calls
<1> USE DEF Resource!TypeOK
<1>1. \A d \in Calls : StampOf[d] \in Resource!Stamps
  BY DEF Resource!Stamps
<1>2. /\ disk' = [tree |-> disk.tree,
                  manifest |-> [disk.manifest EXCEPT ![StampOf[c]] = entry]]
      /\ mixed' = mixed \cup {d \in Resource!Sharing(c) \ {c} : ~ Resource!At(d, "start")}
  BY DEF Resource!SetManifest, Resource!Mix, Resource!Begun
<1> QED BY <1>1, <1>2 DEF Resource!ManifestOf, Resource!Sharing

Creates(c, p) ==
    /\ disk.tree[p] # "dir" /\ Resource!DirExists(disk.tree, Parent[p])
    /\ \E node \in {"dir", "placeholder"} : Resource!SetTree({c}, {p}, node)

Memories == [found : [Paths -> Resource!Nodes], todo : SUBSET Paths, listed : BOOLEAN]

\* What a step writes, remembers and answers.
LEMMA ResourceSteps ==
    ASSUME ResourceInv, NEW c \in Calls, Resource!Step(c)
    PROVE  /\ \/ \E p \in Paths : Creates(c, p)
              \/ \E p \in Paths : Resource!SetTree({c}, Resource!Below(p), "absent")
              \/ \E entry \in Entries : Resource!SetManifest(c, entry)
              \/ mixed' = mixed /\ disk' = disk
           /\ \E m \in Memories : /\ mem' = [mem EXCEPT ![c] = m]
                                  /\ m.found \in {mem[c].found, disk.tree}
           /\ \/ report' = report
              \/ \E answer \in Resource!Reports : report' = [report EXCEPT ![c] = answer]
           /\ \/ UNCHANGED pc /\ Place(c) # "start"
              \/ \E l \in Resource!Labels \ {"start"} : Resource!Goto(c, l)
<1> USE DEF Resource!Step
<1>0. mem[c] \in Memories /\ mem \in [Calls -> Memories] /\ disk.tree \in [Paths -> Resource!Nodes]
  BY DEF ResourceInv, Resource!TypeOK, Memories
<1>1. Resource!Planned(c) \subseteq Paths /\ mem[c].todo \subseteq Paths
  BY <1>0, ResourceChain DEF Resource!Planned, Memories
<1>2. \/ \E p \in Paths : Creates(c, p)
      \/ \E p \in Paths : Resource!SetTree({c}, Resource!Below(p), "absent")
      \/ \E entry \in Entries : Resource!SetManifest(c, entry)
      \/ mixed' = mixed /\ disk' = disk
  <2>1. CASE Resource!MakeDirectory(c)
    <3>1. PICK p \in Resource!Topmost(mem[c].todo) \ FilePaths :
              IF disk.tree[p] = "absent"
              THEN Resource!DirExists(disk.tree, Parent[p]) /\ Resource!SetTree({c}, {p}, "dir")
              ELSE Resource!Quiet
      BY <2>1 DEF Resource!MakeDirectory
    <3>2. p \in Paths
      BY <1>1 DEF Resource!Topmost
    <3> QED BY <3>1, <3>2 DEF Creates, Resource!Quiet
  <2>2. CASE Resource!MakeFile(c)
    <3>1. PICK p \in Resource!Topmost(mem[c].todo) \cap FilePaths :
              /\ disk.tree[p] # "dir" /\ Resource!DirExists(disk.tree, Parent[p])
              /\ Resource!SetTree({c}, {p}, "placeholder")
      BY <2>2 DEF Resource!MakeFile
    <3>2. p \in Paths
      BY <1>1 DEF Resource!Topmost
    <3> QED BY <3>1, <3>2 DEF Creates
  <2>3. CASE Resource!RemoveCreated(c)
    <3>1. PICK p \in Resource!Deepest(mem[c].todo) :
              IF disk.tree[p] = "absent" THEN Resource!Quiet
              ELSE Resource!SetTree({c}, Resource!Below(p), "absent")
      BY <2>3 DEF Resource!RemoveCreated
    <3>2. p \in Paths
      BY <1>1 DEF Resource!Deepest
    <3> QED BY <3>1, <3>2 DEF Resource!Quiet
  <2>4. CASE Resource!OpenManifest(c)
    BY <2>4 DEF Resource!OpenManifest, Entries
  <2>5. CASE Resource!FillManifest(c)
    BY <1>1, <2>5 DEF Resource!FillManifest, Entries
  <2> QED
    BY <2>1, <2>2, <2>3, <2>4, <2>5
    DEF Resource!Refuse, Resource!Inspect, Resource!Check, Resource!FailManifest,
        Resource!Applied, Resource!FailApply, Resource!Verify, Resource!FailVerify,
        Resource!StartRollback, Resource!ReadManifest, Resource!Removed,
        Resource!FailRollback, Resource!Crash, Resource!Quiet
<1>3. \E m \in Memories : /\ mem' = [mem EXCEPT ![c] = m]
                          /\ m.found \in {mem[c].found, disk.tree}
  <2>1. CASE mem' = mem
    <3>1. mem' = [mem EXCEPT ![c] = mem[c]]
      BY <1>0, <2>1
    <3> QED BY <1>0, <3>1
  <2>2. CASE Resource!Inspect(c)
    <3>1. mem' = [mem EXCEPT ![c] = [mem[c] EXCEPT !.found = disk.tree]]
      BY <1>0, <2>2 DEF Resource!Inspect
    <3>2. /\ [mem[c] EXCEPT !.found = disk.tree] \in Memories
          /\ [mem[c] EXCEPT !.found = disk.tree].found = disk.tree
      BY <1>0 DEF Memories
    <3> QED BY <3>1, <3>2
  <2>3. CASE \E todo \in SUBSET Paths : mem' = [mem EXCEPT ![c].todo = todo]
    <3>1. PICK todo \in SUBSET Paths : mem' = [mem EXCEPT ![c].todo = todo]
      BY <2>3
    <3>2. mem' = [mem EXCEPT ![c] = [mem[c] EXCEPT !.todo = todo]]
      BY <1>0, <3>1
    <3>3. /\ [mem[c] EXCEPT !.todo = todo] \in Memories
          /\ [mem[c] EXCEPT !.todo = todo].found = mem[c].found
      BY <1>0, <3>1 DEF Memories
    <3> QED BY <3>2, <3>3
  <2>4. CASE Resource!FillManifest(c)
    <3> DEFINE m == [mem[c] EXCEPT !.todo = Resource!Planned(c), !.listed = TRUE]
    <3>1. mem' = [mem EXCEPT ![c] = m]
      BY <1>0, <2>4 DEF Resource!FillManifest
    <3>2. m \in Memories /\ m.found = mem[c].found
      BY <1>0, <1>1 DEF Memories
    <3> QED BY <3>1, <3>2
  <2>5. CASE Resource!ReadManifest(c)
    <3>1. Resource!ManifestOf(c).entries \in SUBSET Paths
      <4>1. disk.manifest[StampOf[c]] \in {Torn, NoFile} \cup [entries : SUBSET Paths]
        BY DEF ResourceInv, Resource!TypeOK, Resource!Stamps
      <4> QED BY <2>5, <4>1 DEF Resource!ReadManifest, Resource!ManifestOf
    <3> QED BY <2>3, <2>5, <3>1 DEF Resource!ReadManifest
  <2>6. ASSUME NEW p, mem' = [mem EXCEPT ![c].todo = @ \ {p}]
        PROVE  \E todo \in SUBSET Paths : mem' = [mem EXCEPT ![c].todo = todo]
    <3>1. mem' = [mem EXCEPT ![c].todo = mem[c].todo \ {p}]
      BY <1>0, <2>6
    <3> QED BY <1>1, <3>1
  <2>7. Resource!MakeDirectory(c) \/ Resource!MakeFile(c) \/ Resource!RemoveCreated(c) =>
           \E p : mem' = [mem EXCEPT ![c].todo = @ \ {p}]
    BY DEF Resource!MakeDirectory, Resource!MakeFile, Resource!RemoveCreated
  <2> QED
    BY <2>1, <2>2, <2>3, <2>4, <2>5, <2>6, <2>7
    DEF Resource!Refuse, Resource!Check, Resource!OpenManifest, Resource!FailManifest,
        Resource!Applied, Resource!FailApply, Resource!Verify, Resource!FailVerify,
        Resource!StartRollback, Resource!Removed, Resource!FailRollback, Resource!Crash
<1>4. \/ report' = report
      \/ \E answer \in Resource!Reports : report' = [report EXCEPT ![c] = answer]
  BY DEF Resource!Refuse, Resource!Inspect, Resource!Check, Resource!OpenManifest,
         Resource!FillManifest, Resource!FailManifest, Resource!MakeDirectory,
         Resource!MakeFile, Resource!Applied, Resource!FailApply, Resource!Verify,
         Resource!FailVerify, Resource!StartRollback, Resource!ReadManifest,
         Resource!RemoveCreated, Resource!Removed, Resource!FailRollback,
         Resource!Crash, Resource!Return, Resource!Reports
<1>5. \/ UNCHANGED pc /\ Place(c) # "start"
      \/ \E l \in Resource!Labels \ {"start"} : Resource!Goto(c, l)
  BY ResourcePlaces
  DEF ResourceInv, Resource!Refuse, Resource!Inspect, Resource!Check, Resource!OpenManifest,
      Resource!FillManifest, Resource!FailManifest, Resource!MakeDirectory,
      Resource!MakeFile, Resource!Applied, Resource!FailApply, Resource!Verify,
      Resource!FailVerify, Resource!StartRollback, Resource!ReadManifest,
      Resource!RemoveCreated, Resource!Removed, Resource!FailRollback,
      Resource!Crash, Resource!Return, Resource!Labels
<1> QED BY <1>2, <1>3, <1>4, <1>5

LEMMA ResourceTyped ==
    ASSUME ResourceInv, NEW c \in Calls, Resource!Step(c)
    PROVE  /\ Resource!TypeOK' /\ Rooted(disk.tree)'
           /\ \A d \in Calls : Rooted(mem[d].found)'
<1> USE DEF ResourceInv
<1>0. disk \in [tree : [Paths -> Resource!Nodes], manifest : [Resource!Stamps -> Entries]]
  BY DEF Resource!TypeOK, Entries
<1>1. /\ disk' \in [tree : [Paths -> Resource!Nodes], manifest : [Resource!Stamps -> Entries]]
      /\ mixed' \subseteq Calls /\ Rooted(disk'.tree)
  <2>1. CASE \E p \in Paths : Creates(c, p)
    <3>1. PICK p \in Paths, node \in {"dir", "placeholder"} :
              /\ disk.tree[p] # "dir" /\ Resource!DirExists(disk.tree, Parent[p])
              /\ Resource!SetTree({c}, {p}, node)
      BY <2>1 DEF Creates
    <3>2. /\ disk' = [tree |-> [q \in Paths |-> IF q \in {p} THEN node ELSE disk.tree[q]],
                      manifest |-> disk.manifest]
          /\ mixed' \subseteq Calls
      <4>1. {p} \in SUBSET Paths
        OBVIOUS
      <4> QED BY <3>1, <4>1, ResourceSetsTree
    <3>3. Rooted([q \in Paths |-> IF q \in {p} THEN node ELSE disk.tree[q]])
      BY <3>1, RootedMakes
    <3>4. [q \in Paths |-> IF q \in {p} THEN node ELSE disk.tree[q]] \in [Paths -> Resource!Nodes]
      BY <1>0 DEF Resource!Nodes
    <3> QED BY <1>0, <3>2, <3>3, <3>4
  <2>2. CASE \E p \in Paths : Resource!SetTree({c}, Resource!Below(p), "absent")
    <3>1. PICK p \in Paths : Resource!SetTree({c}, Resource!Below(p), "absent")
      BY <2>2
    <3>2. Resource!Below(p) \in SUBSET Paths
      BY DEF Resource!Below
    <3>3. /\ disk' = [tree |-> [q \in Paths |-> IF q \in Resource!Below(p) THEN "absent"
                                                ELSE disk.tree[q]],
                      manifest |-> disk.manifest]
          /\ mixed' \subseteq Calls
      BY <3>1, <3>2, ResourceSetsTree
    <3>4. Rooted([q \in Paths |-> IF q \in Resource!Below(p) THEN "absent" ELSE disk.tree[q]])
      BY RootedRemoves
    <3>5. [q \in Paths |-> IF q \in Resource!Below(p) THEN "absent" ELSE disk.tree[q]]
              \in [Paths -> Resource!Nodes]
      BY <1>0 DEF Resource!Nodes
    <3> QED BY <1>0, <3>3, <3>4, <3>5
  <2>3. CASE \E entry \in Entries : Resource!SetManifest(c, entry)
    <3>1. PICK entry \in Entries :
              /\ disk' = [tree |-> disk.tree,
                          manifest |-> [disk.manifest EXCEPT ![StampOf[c]] = entry]]
              /\ mixed' \subseteq Calls
      BY <2>3, ResourceSetsManifest
    <3> QED BY <1>0, <3>1
  <2>4. CASE mixed' = mixed /\ disk' = disk
    BY <1>0, <2>4 DEF Resource!TypeOK
  <2> QED BY <2>1, <2>2, <2>3, <2>4, ResourceSteps
<1>2. mem' \in [Calls -> Memories] /\ \A d \in Calls : Rooted(mem'[d].found)
  <2>1. PICK m \in Memories : mem' = [mem EXCEPT ![c] = m] /\ m.found \in {mem[c].found, disk.tree}
    BY ResourceSteps
  <2>2. mem \in [Calls -> Memories]
    BY DEF Resource!TypeOK, Memories
  <2> QED BY <2>1, <2>2
<1>3. report' \in [Calls -> Resource!Reports]
  BY ResourceSteps DEF Resource!TypeOK
<1>4. pc' \in [Calls -> Resource!Places(Resource!Labels)]
  <2>1. \A l \in Resource!Labels : <<"resources", l>> \in Resource!Places(Resource!Labels)
    BY DEF Resource!Places
  <2>2. pc \in [Calls -> Resource!Places(Resource!Labels)]
    BY DEF Resource!TypeOK
  <2>3. UNCHANGED pc \/ \E l \in Resource!Labels : Resource!Goto(c, l)
    BY ResourceSteps
  <2> QED BY <2>1, <2>2, <2>3 DEF Resource!Goto
<1>5. Resource!TypeOK'
  BY <1>1, <1>2, <1>3, <1>4 DEF Resource!TypeOK, Memories, Entries
<1> QED BY <1>1, <1>2, <1>5

\* The calls other than the one that takes a step.
LEMMA ResourceOthers ==
    ASSUME ResourceInv, NEW c \in Calls, Resource!Step(c), NEW d \in Calls \ {c}
    PROVE  /\ Place(d)' = Place(d) /\ mem'[d] = mem[d] /\ report'[d] = report[d]
           /\ d \in mixed => d \in mixed'
           /\ Place(d) # "start" /\ d \notin mixed' =>
                 /\ \A p \in Resource!Relied(d) : disk'.tree[p] = disk.tree[p]
                 /\ Resource!ManifestOf(d)' = Resource!ManifestOf(d)
<1> USE DEF ResourceInv
<1>1. Place(d)' = Place(d) /\ mem'[d] = mem[d] /\ report'[d] = report[d]
  <2>1. Place(d)' = Place(d)
    BY ResourceSteps, ResourcePlaces DEF Place
  <2>2. mem'[d] = mem[d]
    <3>1. PICK m : mem' = [mem EXCEPT ![c] = m]
      BY ResourceSteps
    <3>2. mem \in [Calls -> Memories]
      BY DEF Resource!TypeOK, Memories
    <3> QED BY <3>1, <3>2
  <2>3. report'[d] = report[d]
    <3>1. report' = report \/ \E answer : report' = [report EXCEPT ![c] = answer]
      BY ResourceSteps
    <3>2. report \in [Calls -> Resource!Reports]
      BY DEF Resource!TypeOK
    <3> QED BY <3>1, <3>2
  <2> QED BY <2>1, <2>2, <2>3
<1>2. ASSUME NEW node, NEW where \in SUBSET Paths, Resource!SetTree({c}, where, node)
      PROVE  /\ mixed \subseteq mixed'
             /\ Place(d) # "start" /\ d \notin mixed' =>
                   /\ \A p \in Resource!Relied(d) : disk'.tree[p] = disk.tree[p]
                   /\ Resource!ManifestOf(d)' = Resource!ManifestOf(d)
  BY <1>2, ResourceSetsTree, ResourcePlaces DEF Resource!ManifestOf
<1>3. CASE \E p \in Paths : Creates(c, p)
  <2>1. PICK p \in Paths : \E node : Resource!SetTree({c}, {p}, node)
    BY <1>3 DEF Creates
  <2>2. {p} \in SUBSET Paths
    OBVIOUS
  <2> QED BY <1>1, <1>2, <2>1, <2>2
<1>4. CASE \E p \in Paths : Resource!SetTree({c}, Resource!Below(p), "absent")
  <2>1. PICK p \in Paths : Resource!SetTree({c}, Resource!Below(p), "absent")
    BY <1>4
  <2>2. Resource!Below(p) \in SUBSET Paths
    BY DEF Resource!Below
  <2> QED BY <1>1, <1>2, <2>1, <2>2
<1>5. CASE \E entry \in Entries : Resource!SetManifest(c, entry)
  BY <1>1, <1>5, ResourceSetsManifest, ResourcePlaces
<1>6. CASE mixed' = mixed /\ disk' = disk
  BY <1>1, <1>6 DEF Resource!ManifestOf
<1> QED BY <1>3, <1>4, <1>5, <1>6, ResourceSteps

\* The application disturbs the calls on whose path it writes.
LEMMA ResourceApplicationKeeps ==
    ASSUME ResourceInv, NEW p \in Paths, Resource!ApplicationWrites(p)
    PROVE  ResourceInv'
<1> USE DEF ResourceInv
<1>1. UNCHANGED <<pc, mem, report>>
  BY DEF Resource!ApplicationWrites
<1>2. PICK node \in {"dir", "data"} :
          /\ disk.tree[p] # "dir" /\ Resource!DirExists(disk.tree, Parent[p])
          /\ Resource!SetTree({}, {p}, node)
  BY DEF Resource!ApplicationWrites
<1>3. /\ disk' = [tree |-> [q \in Paths |-> IF q \in {p} THEN node ELSE disk.tree[q]],
                  manifest |-> disk.manifest]
      /\ mixed \subseteq mixed' /\ mixed' \subseteq Calls
      /\ \A d \in Calls : ~ Resource!At(d, "start") =>
            d \in mixed' \/ \A q \in Resource!Relied(d) : disk'.tree[q] = disk.tree[q]
  <2>1. {p} \in SUBSET Paths /\ Calls \ {} = Calls
    OBVIOUS
  <2> QED BY <1>2, <2>1, ResourceSetsTree
<1>4. Rooted(disk.tree)'
  <2>1. Rooted([q \in Paths |-> IF q \in {p} THEN node ELSE disk.tree[q]])
    BY <1>2, RootedMakes
  <2> QED BY <1>3, <2>1
<1>5. Resource!TypeOK'
  <2>1. [q \in Paths |-> IF q \in {p} THEN node ELSE disk.tree[q]] \in [Paths -> Resource!Nodes]
    BY DEF Resource!TypeOK, Resource!Nodes
  <2> QED BY <1>1, <1>3, <2>1 DEF Resource!TypeOK
<1>6. ASSUME NEW d \in Calls
      PROVE  /\ Place(d)' = Place(d) /\ Rooted(mem[d].found)'
             /\ Resource!Alone(d)' /\ report'[d] # "declined" => ResourceFits(d)'
  <2>1. Place(d)' = Place(d) /\ Rooted(mem[d].found)'
    BY <1>1 DEF Place
  <2>2. ASSUME Resource!Alone(d)', report'[d] # "declined" PROVE ResourceFits(d)'
    <3>1. Resource!Alone(d) /\ d \notin mixed' /\ ResourceFits(d)
      BY <1>1, <1>3, <2>2 DEF Resource!Alone, Resource!Begun, Resource!At
    <3>2. \A q \in Resource!Relied(d) : disk'.tree[q] = disk.tree[q]
      BY <1>3, <3>1 DEF Resource!Alone, Resource!Begun
    <3>3. Resource!ManifestOf(d)' = Resource!ManifestOf(d)
      BY <1>3 DEF Resource!ManifestOf
    <3>4. /\ Resource!Planned(d)' = Resource!Planned(d)
          /\ Resource!Planned(d) \subseteq Resource!Chain(d)
      BY <1>1 DEF Resource!Planned
    <3> QED BY <1>1, <2>1, <3>1, <3>2, <3>3, <3>4 DEF ResourceFits, Resource!Relied
  <2> QED BY <2>1, <2>2
<1> QED BY <1>1, <1>4, <1>5, <1>6

\* The call that takes a step: what it finds is what it has left.
LEMMA ResourceOwn ==
    ASSUME ResourceInv, NEW c \in Calls, Resource!Step(c), Resource!Alone(c)',
           report'[c] # "declined"
    PROVE  ResourceFits(c)'
<1> USE DEF ResourceInv
<1> DEFINE Chain == Resource!Chain(c)
           Found == mem[c].found
<1>0. /\ Place(c) \in Resource!Labels
      /\ Chain \subseteq Paths /\ Resource!Planned(c) = {p \in Chain : Found[p] = "absent"}
      /\ Place(c) # "start" /\ report[c] # "declined" => ResourceFits(c)
      /\ Place(c) = "start" => report[c] = "none" /\ ~ mem[c].listed
      /\ mem \in [Calls -> Memories] /\ report \in [Calls -> Resource!Reports]
      /\ report[c] = "declined" => Place(c) = "done"
  <2>1. mixed \subseteq mixed'
    <3>1. CASE \E p \in Paths : Creates(c, p)
      <4>1. PICK p \in Paths : \E node : Resource!SetTree({c}, {p}, node)
        BY <3>1 DEF Creates
      <4> QED BY <4>1 DEF Resource!SetTree
    <3>2. CASE \E p \in Paths : Resource!SetTree({c}, Resource!Below(p), "absent")
      BY <3>2 DEF Resource!SetTree
    <3>3. CASE \E entry \in Entries : Resource!SetManifest(c, entry)
      BY <3>3 DEF Resource!SetManifest, Resource!Mix
    <3> QED BY <3>1, <3>2, <3>3, ResourceSteps
  <2>2. c \notin mixed
    BY <2>1 DEF Resource!Alone
  <2> QED
    BY <2>2, ResourcePlaces, ResourceChain
    DEF Resource!Alone, Resource!Begun, Resource!TypeOK, Memories, Resource!Planned
<1>1. CASE Resource!Refuse(c)
  BY <1>0, <1>1 DEF Resource!Refuse, Resource!Return
<1>2. CASE Resource!Inspect(c)
  <2>1. /\ disk' = disk /\ report' = report /\ Place(c) = "start"
        /\ Place(c)' \in {"manifest", "check"}
    BY <1>2, ResourcePlaces DEF Resource!Inspect, Resource!Quiet
  <2>2. mem'[c].found = disk.tree /\ mem'[c].listed = mem[c].listed
    BY <1>0, <1>2 DEF Resource!Inspect, Memories
  <2> QED BY <1>0, <2>1, <2>2 DEF ResourceFits
<1>3. CASE Resource!OpenManifest(c)
  <2>1. mem' = mem /\ report' = report /\ Place(c) = "manifest" /\ Place(c)' = "listing"
    BY <1>3, ResourcePlaces DEF Resource!OpenManifest
  <2>2. disk'.tree = disk.tree
    BY <1>3, ResourceSetsManifest DEF Resource!OpenManifest, Entries
  <2> QED BY <1>0, <2>1, <2>2 DEF ResourceFits
<1>4. CASE Resource!FillManifest(c)
  <2>1. /\ report' = report /\ Place(c) = "listing" /\ Place(c)' = "apply"
        /\ Resource!SetManifest(c, [entries |-> Resource!Planned(c)])
    BY <1>4, ResourcePlaces DEF Resource!FillManifest
  <2>2. [entries |-> Resource!Planned(c)] \in Entries
    BY <1>0 DEF Entries
  <2>3. /\ disk'.tree = disk.tree
        /\ Resource!ManifestOf(c)' = [entries |-> Resource!Planned(c)]
    BY <2>1, <2>2, ResourceSetsManifest
  <2>4. mem'[c] = [mem[c] EXCEPT !.todo = Resource!Planned(c), !.listed = TRUE]
    BY <1>0, <1>4 DEF Resource!FillManifest
  <2>5. mem'[c].found = Found /\ mem'[c].listed /\ mem'[c].todo = Resource!Planned(c)
    BY <1>0, <2>4 DEF Memories
  <2>6. Resource!Planned(c)' = Resource!Planned(c)
    BY <2>5 DEF Resource!Planned
  <2> QED BY <1>0, <2>1, <2>3, <2>5, <2>6 DEF ResourceFits
<1>5. CASE Resource!MakeDirectory(c) \/ Resource!MakeFile(c)
  <2>1. PICK p \in mem[c].todo :
            /\ \/ mixed' = mixed /\ disk' = disk
               \/ \E node : Resource!SetTree({c}, {p}, node)
            /\ mem' = [mem EXCEPT ![c].todo = @ \ {p}]
    BY <1>5 DEF Resource!MakeDirectory, Resource!MakeFile, Resource!Topmost, Resource!Quiet
  <2>2. pc' = pc /\ report' = report /\ Place(c) = "apply" /\ Place(c)' = "apply"
    BY <1>5, ResourcePlaces DEF Resource!MakeDirectory, Resource!MakeFile, Place
  <2>3. ResourceFits(c) /\ p \in Resource!Planned(c) /\ mem[c].listed
    BY <1>0, <2>1, <2>2 DEF ResourceFits
  <2>4. /\ disk'.manifest = disk.manifest
        /\ \A q \in Paths \ {p} : disk'.tree[q] = disk.tree[q]
    <3>1. CASE \E node : Resource!SetTree({c}, {p}, node)
      <4>1. PICK node : Resource!SetTree({c}, {p}, node)
        BY <3>1
      <4>2. {p} \in SUBSET Paths
        BY <1>0, <2>3
      <4>3. disk' = [tree |-> [q \in Paths |-> IF q \in {p} THEN node ELSE disk.tree[q]],
                     manifest |-> disk.manifest]
        BY <4>1, <4>2, ResourceSetsTree
      <4> QED BY <4>3
    <3> QED BY <2>1, <3>1
  <2>5. mem'[c].found = Found /\ mem'[c].listed /\ mem'[c].todo \subseteq mem[c].todo
    BY <1>0, <2>1, <2>3 DEF Memories
  <2>6. /\ Resource!Planned(c)' = Resource!Planned(c)
        /\ Resource!ManifestOf(c)' = Resource!ManifestOf(c)
    BY <2>4, <2>5 DEF Resource!Planned, Resource!ManifestOf
  <2>7. report[c] # "rolled_back"
    BY <2>2
  <2> QED BY <1>0, <2>2, <2>3, <2>4, <2>5, <2>6, <2>7 DEF ResourceFits
<1>6. CASE \/ Resource!Applied(c) \/ Resource!FailApply(c) \/ Resource!FailVerify(c)
           \/ Resource!StartRollback(c)
  <2>1. /\ disk' = disk /\ mem' = mem /\ report' = report
        /\ \/ Place(c) \in {"apply", "verify"}
           \/ Place(c) = "done" /\ mem[c].listed
        /\ Place(c)' \in {"verify", "undo"}
    BY <1>6, ResourcePlaces
    DEF Resource!Applied, Resource!FailApply, Resource!FailVerify, Resource!StartRollback,
        Resource!Quiet
  <2> QED
    BY <1>0, <2>1 DEF ResourceFits, Resource!ManifestOf, Resource!Planned
<1>7. CASE \/ Resource!Check(c) \/ Resource!FailManifest(c) \/ Resource!Verify(c)
           \/ Resource!FailRollback(c) \/ Resource!Crash(c)
  <2>1. /\ disk' = disk /\ mem' = mem /\ Place(c)' = "done" /\ Place(c) # "start"
        /\ report'[c] # "rolled_back" /\ report[c] # "declined"
    BY <1>0, <1>7, ResourcePlaces
    DEF Resource!Check, Resource!FailManifest, Resource!Verify, Resource!FailRollback,
        Resource!Crash, Resource!Return, Resource!Quiet
  <2> QED
    BY <1>0, <2>1 DEF ResourceFits, Resource!ManifestOf, Resource!Planned
<1>8. CASE Resource!ReadManifest(c)
  <2>1. /\ disk' = disk /\ report' = report /\ Place(c) = "undo" /\ Place(c)' = "remove"
        /\ mem' = [mem EXCEPT ![c].todo = Resource!ManifestOf(c).entries]
    BY <1>8, ResourcePlaces DEF Resource!ReadManifest, Resource!Quiet
  <2>2. ResourceFits(c) /\ Resource!ManifestOf(c) = [entries |-> Resource!Planned(c)]
    BY <1>0, <2>1 DEF ResourceFits
  <2>3. /\ mem'[c].found = Found /\ mem'[c].listed = mem[c].listed
        /\ mem'[c].todo = Resource!Planned(c)
    BY <1>0, <2>1, <2>2 DEF Memories
  <2>4. /\ Resource!Planned(c)' = Resource!Planned(c)
        /\ Resource!ManifestOf(c)' = Resource!ManifestOf(c)
    BY <2>1, <2>3 DEF Resource!Planned, Resource!ManifestOf
  <2> QED BY <1>0, <2>1, <2>2, <2>3, <2>4 DEF ResourceFits
<1>9. CASE Resource!RemoveCreated(c)
  <2>1. PICK p \in mem[c].todo :
            /\ IF disk.tree[p] = "absent" THEN mixed' = mixed /\ disk' = disk
               ELSE Resource!SetTree({c}, Resource!Below(p), "absent")
            /\ mem' = [mem EXCEPT ![c].todo = @ \ {p}]
    BY <1>9 DEF Resource!RemoveCreated, Resource!Deepest, Resource!Quiet
  <2>2. pc' = pc /\ report' = report /\ Place(c) = "remove" /\ Place(c)' = "remove"
    BY <1>9, ResourcePlaces DEF Resource!RemoveCreated, Place
  <2>3. ResourceFits(c) /\ p \in Resource!Planned(c) /\ mem[c].listed
    BY <1>0, <2>1, <2>2 DEF ResourceFits
  <2>4. /\ disk'.manifest = disk.manifest /\ disk'.tree[p] = "absent"
        /\ \A q \in Paths : disk'.tree[q] = disk.tree[q] \/ disk'.tree[q] = "absent"
        /\ \A q \in Paths : Found[q] # "absent" => disk'.tree[q] = disk.tree[q]
    <3>1. CASE disk.tree[p] # "absent"
      <4>1. Resource!Below(p) \in SUBSET Paths /\ p \in Paths /\ p \in Resource!Below(p)
        BY <1>0, <2>3 DEF Resource!Below
      <4>2. disk' = [tree |-> [q \in Paths |-> IF q \in Resource!Below(p) THEN "absent"
                                               ELSE disk.tree[q]],
                     manifest |-> disk.manifest]
        BY <2>1, <3>1, <4>1, ResourceSetsTree
      <4>3. \A q \in Resource!Below(p) : Found[q] = "absent"
        BY <1>0, <2>3, <4>1, NothingBelow
      <4> QED BY <4>1, <4>2, <4>3
    <3> QED BY <2>1, <3>1
  <2>5. mem'[c].found = Found /\ mem'[c].listed /\ mem'[c].todo = mem[c].todo \ {p}
    BY <1>0, <2>1, <2>3 DEF Memories
  <2>6. /\ Resource!Planned(c)' = Resource!Planned(c)
        /\ Resource!ManifestOf(c)' = Resource!ManifestOf(c)
    BY <2>4, <2>5 DEF Resource!Planned, Resource!ManifestOf
  <2>7. report[c] # "rolled_back"
    BY <2>2
  <2> QED BY <1>0, <2>2, <2>3, <2>4, <2>5, <2>6, <2>7 DEF ResourceFits
<1>10. CASE Resource!Removed(c)
  <2>1. /\ disk' = disk /\ mem' = mem /\ Place(c) = "remove" /\ Place(c)' = "done"
        /\ mem[c].todo = {}
    BY <1>10, ResourcePlaces DEF Resource!Removed, Resource!Return, Resource!Quiet
  <2> QED
    BY <1>0, <2>1 DEF ResourceFits, Resource!ManifestOf, Resource!Planned
<1> QED
  BY <1>1, <1>2, <1>3, <1>4, <1>5, <1>6, <1>7, <1>8, <1>9, <1>10 DEF Resource!Step

LEMMA ResourceStep ==
    ASSUME ResourceInv, NEW c \in Calls, Resource!Step(c)
    PROVE  ResourceInv'
<1> USE DEF ResourceInv
<1>1. Resource!TypeOK' /\ Rooted(disk.tree)' /\ \A d \in Calls : Rooted(mem[d].found)'
  BY ResourceTyped
<1>2. ASSUME NEW d \in Calls
      PROVE  /\ Place(d)' = "start" => report'[d] = "none"
             /\ Place(d)' \in {"start", "check", "manifest", "listing"} => ~ mem'[d].listed
             /\ report'[d] \in {"rolled_back", "declined"} => Place(d)' = "done"
  <2>1. CASE d # c
    BY <2>1, ResourceOthers
  <2>2. CASE d = c
    <3>0. /\ mem[c] \in Memories /\ mem \in [Calls -> Memories]
          /\ report \in [Calls -> Resource!Reports]
          /\ ResourceFits(c) \/ report[c] = "declined" \/ ~ Resource!Alone(c)
      BY DEF Resource!TypeOK, Memories
    <3>1. CASE Resource!Inspect(c)
      <4>1. /\ Place(c) = "start" /\ Place(c)' # "start" /\ report' = report
            /\ mem' = [mem EXCEPT ![c].found = disk.tree]
        BY <3>1, ResourcePlaces DEF Resource!Inspect
      <4>2. mem'[c].listed = mem[c].listed
        BY <3>0, <4>1 DEF Memories
      <4> QED BY <2>2, <4>1, <4>2
    <3>2. CASE \/ Resource!Refuse(c) \/ Resource!Check(c) \/ Resource!FailManifest(c)
               \/ Resource!Verify(c) \/ Resource!Removed(c) \/ Resource!FailRollback(c)
               \/ Resource!Crash(c)
      <4>1. Place(c)' = "done"
        BY <3>2, ResourcePlaces
        DEF Resource!Refuse, Resource!Check, Resource!FailManifest, Resource!Verify,
            Resource!Removed, Resource!FailRollback, Resource!Crash, Resource!Return
      <4> QED BY <2>2, <4>1
    <3>3. CASE Resource!OpenManifest(c)
      <4>1. /\ mem' = mem /\ report' = report /\ Place(c) = "manifest"
            /\ Place(c)' = "listing"
        BY <3>3, ResourcePlaces DEF Resource!OpenManifest
      <4> QED BY <2>2, <4>1
    <3>4. CASE \/ Resource!FillManifest(c) \/ Resource!MakeDirectory(c)
               \/ Resource!MakeFile(c) \/ Resource!Applied(c) \/ Resource!FailApply(c)
               \/ Resource!FailVerify(c) \/ Resource!StartRollback(c)
               \/ Resource!ReadManifest(c) \/ Resource!RemoveCreated(c)
      <4>1. /\ Place(c)' \in {"apply", "verify", "undo", "remove"}
            /\ report' = report
            /\ \/ Place(c) \in {"listing", "apply", "verify", "undo", "remove"}
               \/ report[c] \in {"verified", "crashed", "not_rolled_back"}
        BY <3>4, ResourcePlaces
        DEF Resource!FillManifest, Resource!MakeDirectory, Resource!MakeFile,
            Resource!Applied, Resource!FailApply, Resource!FailVerify,
            Resource!StartRollback, Resource!ReadManifest, Resource!RemoveCreated, Place
      <4> QED BY <2>2, <4>1
    <3> QED BY <3>1, <3>2, <3>3, <3>4 DEF Resource!Step
  <2> QED BY <2>1, <2>2
<1>3. ASSUME NEW d \in Calls, Resource!Alone(d)', report'[d] # "declined"
      PROVE  ResourceFits(d)'
  <2>1. CASE d = c
    BY <1>3, <2>1, ResourceOwn
  <2>2. CASE d # c
    <3>1. /\ Place(d)' = Place(d) /\ mem'[d] = mem[d] /\ report'[d] = report[d]
          /\ d \notin mixed /\ d \notin mixed'
      BY <1>3, <2>2, ResourceOthers DEF Resource!Alone
    <3>2. Place(d) # "start" /\ Resource!Alone(d)
      <4>1. pc'[d] = <<"resources", Place(d)'>>
        BY <1>1 DEF Resource!TypeOK, Resource!Places, Place
      <4>2. Place(d)' # "start"
        BY <1>3, <4>1 DEF Resource!Alone, Resource!Begun, Resource!At
      <4> QED BY <3>1, <4>2, ResourcePlaces DEF Resource!Alone, Resource!Begun
    <3>3. /\ \A p \in Resource!Relied(d) : disk'.tree[p] = disk.tree[p]
          /\ Resource!ManifestOf(d)' = Resource!ManifestOf(d)
      BY <2>2, <3>1, <3>2, ResourceOthers
    <3>4. /\ Resource!Planned(d)' = Resource!Planned(d)
          /\ Resource!Planned(d) \subseteq Resource!Chain(d)
      BY <3>1 DEF Resource!Planned
    <3>5. ResourceFits(d)
      BY <1>3, <3>1, <3>2
    <3> QED BY <3>1, <3>3, <3>4, <3>5 DEF ResourceFits, Resource!Relied
  <2> QED BY <2>1, <2>2
<1> QED BY <1>1, <1>2, <1>3

LEMMA ResourceInit == ASSUME Resource!Init, Works("resources") PROVE ResourceInv
<1>1. PICK tree \in [Paths -> {"absent", "dir", "data"}] :
          /\ \A p \in Paths : tree[p] # "absent" => Resource!DirExists(tree, Parent[p])
          /\ disk = [tree |-> tree, manifest |-> [t \in Resource!Stamps |-> NoFile]]
          /\ mem = [c \in Calls |-> [found |-> tree, todo |-> {}, listed |-> FALSE]]
  BY DEF Resource!Init
<1>2. /\ pc = [c \in Calls |-> <<"resources", "start">>]
      /\ report = [c \in Calls |-> "none"] /\ mixed = {}
  BY DEF Resource!Init, Resource!CallsInit
<1>3. Resource!TypeOK
  <2>1. tree \in [Paths -> Resource!Nodes]
    BY DEF Resource!Nodes
  <2> QED BY <1>1, <1>2, <2>1
    DEF Resource!TypeOK, Resource!Places, Resource!Labels, Resource!Reports
<1>4. Rooted(tree)
  BY <1>1 DEF Rooted
<1>5. ASSUME NEW c \in Calls
      PROVE  /\ Place(c) = "start" /\ report[c] = "none" /\ ~ mem[c].listed
             /\ mem[c].found = tree /\ ~ Resource!Alone(c)
  BY <1>1, <1>2 DEF Place, Resource!Alone, Resource!Begun, Resource!At
<1> QED BY <1>1, <1>3, <1>4, <1>5 DEF ResourceInv

LEMMA ResourceStutters == ASSUME ResourceInv, UNCHANGED vars PROVE ResourceInv'
<1>1. Resource!TypeOK'
  BY DEF ResourceInv, vars, Resource!TypeOK
<1>2. ASSUME NEW c \in Calls
      PROVE  /\ Place(c)' = Place(c) /\ Resource!Alone(c)' = Resource!Alone(c)
             /\ ResourceFits(c)' = ResourceFits(c)
  BY DEF vars, Resource!Alone, Resource!Begun, Resource!At, ResourceFits, Place,
         Resource!ManifestOf, Resource!Planned
<1> QED BY <1>1, <1>2 DEF ResourceInv, vars

LEMMA ResourceHolds == Spec => [](Works("resources") => ResourceInv)
<1>1. Init => (Works("resources") => ResourceInv)
  BY InitWorks, WorksAlone, ResourceInit
<1>2. ASSUME OneWorks, Works("resources") => ResourceInv, [Next]_vars, Works("resources")'
      PROVE  ResourceInv'
  <2>1. Works("resources")
    BY <1>2, WorksOn DEF OneWorks
  <2>2. CASE Next
    BY <1>2, <2>1, <2>2, OneExecutor, ResourceStep, ResourceApplicationKeeps
    DEF Resource!Next
  <2> QED BY <1>2, <2>1, <2>2, ResourceStutters
<1> QED BY <1>1, <1>2, OneExecutorWorks, PTL DEF Spec

\* resources.Ensure and Rollback: in any tree and for any number of calls, what an
\* undisturbed call has created is in its manifest, wherever it stops; a rollback that
\* reports success leaves the path as the call found it; and what was anywhere in the tree
\* when the call looked is still there.  The files that the application has put below a
\* created directory meanwhile are not spoken of: the rollback removes them.
THEOREM CreatedReversible == Spec => []CreatedIsReversible
<1>1. ASSUME ResourceInv, NEW c \in Calls, Resource!Alone(c), Resource!Inspected(c)
      PROVE  /\ \A p \in Resource!Chain(c) : disk.tree[p] # mem[c].found[p] =>
                   /\ Resource!ManifestOf(c) \notin {Torn, NoFile}
                   /\ p \in Resource!ManifestOf(c).entries
             /\ report[c] = "rolled_back" =>
                   \A p \in Resource!Chain(c) : disk.tree[p] = mem[c].found[p]
             /\ \A p \in Paths :
                   mem[c].found[p] # "absent" => disk.tree[p] = mem[c].found[p]
  <2>1. ResourceFits(c)
    BY <1>1 DEF ResourceInv, Resource!Inspected
  <2>2. ASSUME NEW p \in Resource!Chain(c), disk.tree[p] # mem[c].found[p]
        PROVE  /\ Resource!ManifestOf(c) \notin {Torn, NoFile}
               /\ p \in Resource!ManifestOf(c).entries
    <3>1. p \in Resource!Planned(c) /\ Resource!ManifestOf(c) = [entries |-> Resource!Planned(c)]
      <4>1. p \in Paths
        BY <2>2, ResourceChain
      <4>2. mem[c].found[p] = "absent"
        BY <2>1, <2>2, <4>1 DEF ResourceFits
      <4>3. mem[c].listed
        BY <2>1, <2>2 DEF ResourceFits
      <4> QED BY <2>1, <2>2, <4>2, <4>3 DEF ResourceFits, Resource!Planned
    <3>2. Resource!Planned(c) \in SUBSET Paths
      BY ResourceChain DEF Resource!Planned
    <3>3. [entries |-> Resource!Planned(c)] \notin {Torn, NoFile}
      BY <3>2, ManifestAssumption DEF ManifestAssumption
    <3> QED BY <3>1, <3>3
  <2> QED BY <2>1, <2>2 DEF ResourceFits
<1>2. OneWorks /\ (Works("resources") => ResourceInv) => CreatedIsReversible
  <2>1. ASSUME ResourceInv PROVE Resource!CreatedIsListed /\ Resource!RollbackRestores
    BY <1>1, <2>1 DEF Resource!CreatedIsListed, Resource!RollbackRestores
  <2> QED BY <2>1, RunsWorks DEF CreatedIsReversible
<1> QED BY <1>2, OneExecutorWorks, ResourceHolds, PTL

-----------------------------------------------------------------------------
(* permissions.Run                                                         *)

\* What is there is in a directory.
Filled(tree) ==
    \A p \in Directories :
        tree[p] # "missing" /\ DirectoryOf[p] \in Directories => tree[DirectoryOf[p]] # "missing"

\* The directories that a call could see, and what it records of those it is to change.
There(c) == {p \in Directories : Permission!Seen(mem[c].found, p) # "missing"}

Recorded(c) ==
    [p \in Directories |->
        IF p \in Permission!Operations(mem[c].found) \cap There(c)
        THEN mem[c].found[p] ELSE "missing"]

\* In such a tree, what the call could see is there and not closed to it, and has changed
\* only where it has an operation.
SeenKept(c, tree) ==
    \A p \in There(c) :
        /\ tree[p] # "missing"
        /\ tree[p] = "closed" => mem[c].found[p] = "closed"
        /\ p \notin Permission!Operations(mem[c].found) => tree[p] = mem[c].found[p]

\* What has been made among these directories can be reached.
MadeReached(c, tree, set) ==
    \A p \in set : mem[c].found[p] = "missing" /\ tree[p] # "missing" =>
                       Permission!Searchable(tree, p)

\* Apart from these directories, what the call could see is as it was, and what it has
\* made is gone or holds one that the policy does not name.
RestoredBut(c, tree, set) ==
    /\ \A p \in There(c) : tree[p] = mem[c].found[p] \/ p \in set
    /\ \A p \in Permission!Expected : mem[c].found[p] = "missing" /\ tree[p] # "missing" =>
          \/ p \in set
          \/ \E q \in Directories \ Permission!Expected :
                p \in Permission!Over[q] /\ tree[q] # "missing"

\* Until the manifest is written the tree is as found.  From then on what changes is on
\* record, and what is made can be reached until the rollback has taken it from its list.
PermissionFits(c) ==
    LET Found == mem[c].found
        Operations == Permission!Operations(mem[c].found)
    IN  /\ disk.tree = Found \/ Permission!ManifestOf(c) = Recorded(c)
        /\ Place(c) \in {"manifest", "listing"} => disk.tree = Found /\ mem[c].todo = Operations
        /\ Place(c) \in {"listing", "apply", "verify", "undo"} => mem[c].entries = Recorded(c)
        /\ Place(c) \in {"apply", "verify", "undo"} => Permission!ManifestOf(c) = Recorded(c)
        /\ Place(c) \in {"apply", "undo"} => mem[c].todo \subseteq Operations
        /\ SeenKept(c, disk.tree)
        /\ Place(c) \in {"apply", "verify"} => MadeReached(c, disk.tree, Directories)
        /\ Place(c) = "undo" => MadeReached(c, disk.tree, mem[c].todo)
        /\ (Place(c) = "undo" \/ report[c] = "failed") /\ ~ mem[c].skipped =>
              RestoredBut(c, disk.tree, mem[c].todo)
        /\ report[c] = "failed" => mem[c].todo = {}
        /\ Place(c) = "verify" \/ report[c] = "succeeded" => Permission!Matches(disk.tree)

PermissionInv ==
    /\ Permission!TypeOK
    /\ Filled(disk.tree)
    /\ \A c \in Calls :
          /\ Filled(mem[c].found)
          /\ Place(c) # "done" => report[c] = "none"
          /\ Permission!Alone(c) /\ report[c] \notin {"blocked", "dry_run"} => PermissionFits(c)

LEMMA PermissionPlaces ==
    ASSUME Permission!TypeOK, NEW c \in Calls
    PROVE  /\ Works("permissions")
           /\ \A l : Permission!At(c, l) <=> Place(c) = l
           /\ \A labels : Permission!Among(c, labels) <=> Place(c) \in labels
           /\ \A l : Permission!Goto(c, l) =>
                 Place(c)' = l /\ \A d \in Calls \ {c} : Place(d)' = Place(d)
           /\ Place(c) \in Permission!Labels
<1>1. Works("permissions") /\ Place(c) \in Permission!Labels
  BY DEF Permission!TypeOK, Permission!Places, Works, Place
<1> QED
  BY <1>1, Placing DEF Permission!At, Permission!Among, Permission!Places, Permission!Goto

LEMMA PermissionOver == Permission!Over = Above(Directories, DirectoryOf)
  BY DEF Permission!Over, Permission!Above, Permission!Rises, Above, Rises

LEMMA PolicyIsBelowRoot == Permission!Expected \subseteq Directories
<1>1. Policy \in Seq(Directories)
  BY LocalExecutorsAssumption DEF LocalExecutorsAssumption
<1> QED BY <1>1 DEF Permission!Expected

\* A directory of the policy comes before those below it.
LEMMA PolicyGoesDown ==
    ASSUME NEW p \in Permission!Expected, NEW q \in Permission!Expected,
           p \in Permission!Over[q]
    PROVE  Permission!Before(p, q)
<1>1. PICK i \in DOMAIN Policy, j \in DOMAIN Policy : Policy[i] = p /\ Policy[j] = q
  BY DEF Permission!Expected
<1>2. i < j
  BY <1>1, PermissionOver, LocalExecutorsAssumption DEF LocalExecutorsAssumption
<1> QED BY <1>1, <1>2 DEF Permission!Before

LEMMA OverIsAbove ==
    ASSUME NEW p \in Directories
    PROVE  /\ Permission!Over[p] \subseteq Directories
           /\ DirectoryOf[p] \in Directories => DirectoryOf[p] \in Permission!Over[p]
           /\ \A q \in Permission!Over[p] :
                 /\ Permission!Over[q] \subseteq Permission!Over[p]
                 /\ DirectoryOf[q] \in Directories => DirectoryOf[q] \in Permission!Over[p]
  BY PermissionOver, AboveRises, AboveAbove

\* Everything above a directory that is there is there.
LEMMA FilledAbove ==
    ASSUME NEW tree, Filled(tree), NEW p \in Directories, tree[p] # "missing",
           NEW q \in Permission!Over[p]
    PROVE  tree[q] # "missing"
<1> DEFINE there == {r \in Directories : tree[r] # "missing"}
<1>1. Rises(Directories, DirectoryOf, there)
  BY DEF Rises, Filled
<1> QED BY <1>1, AboveIsThere, PermissionOver

\* What a call could see it could see through what is above it.
LEMMA ThereAbove ==
    ASSUME NEW c \in Calls, Filled(mem[c].found), NEW p \in There(c)
    PROVE  /\ mem[c].found[p] # "missing"
           /\ \A q \in Permission!Over[p] : q \in There(c) /\ mem[c].found[q] # "closed"
<1>1. /\ p \in Directories /\ mem[c].found[p] # "missing"
      /\ Permission!Searchable(mem[c].found, p)
  BY DEF There, Permission!Seen
<1>2. ASSUME NEW q \in Permission!Over[p] PROVE q \in There(c) /\ mem[c].found[q] # "closed"
  <2>1. /\ q \in Directories /\ Permission!Over[q] \subseteq Permission!Over[p]
        /\ mem[c].found[q] # "missing"
    BY <1>1, OverIsAbove, FilledAbove
  <2> QED BY <1>1, <2>1 DEF Permission!Searchable, There, Permission!Seen
<1> QED BY <1>1, <1>2

LEMMA FilledMakes ==
    ASSUME NEW tree, Filled(tree), NEW p \in Directories, NEW node, node # "missing"
    PROVE  Filled(Permission!WithDirectories(tree, p, node))
<1> DEFINE made == Permission!WithDirectories(tree, p, node)
<1>0. \A q \in Directories :
          made[q] = IF q = p THEN node
                    ELSE IF q \in Permission!Over[p] /\ tree[q] = "missing" THEN "drifted"
                    ELSE tree[q]
  BY DEF Permission!WithDirectories
<1> HIDE DEF made
<1> SUFFICES ASSUME NEW q \in Directories, made[q] # "missing", DirectoryOf[q] \in Directories
             PROVE  made[DirectoryOf[q]] # "missing"
  BY DEF Filled, made
<1>1. CASE q = p \/ q \in Permission!Over[p]
  <2>1. DirectoryOf[q] \in Permission!Over[p]
    BY <1>1, OverIsAbove
  <2> QED BY <1>0, <2>1
<1>2. CASE q # p /\ q \notin Permission!Over[p]
  <2>1. tree[DirectoryOf[q]] # "missing"
    BY <1>0, <1>2 DEF Filled
  <2> QED BY <1>0, <2>1
<1> QED BY <1>1, <1>2

LEMMA FilledUndoes ==
    ASSUME NEW tree \in [Directories -> Permission!Nodes], Filled(tree), NEW p \in Directories,
           NEW node \in Permission!Nodes,
           node = "missing" => Permission!Empty(tree, p),
           node # "missing" => tree[p] # "missing"
    PROVE  Filled([tree EXCEPT ![p] = node])
  BY DEF Filled, Permission!Empty

LEMMA PermissionSetsTree ==
    ASSUME Permission!TypeOK, NEW c \in Calls, NEW tree, Permission!SetTree(c, tree)
    PROVE  /\ disk' = [tree |-> tree, manifest |-> disk.manifest]
           /\ \A d \in Calls \ {c} : ~ Permission!At(d, "start") =>
                 d \in mixed' \/ disk'.tree = disk.tree
           /\ mixed \subseteq mixed' /\ mixed' \subseteq Calls
<1>1. disk' = [tree |-> tree, manifest |-> disk.manifest]
  BY DEF Permission!SetTree, Permission!TypeOK
<1>2. \/ tree = disk.tree /\ mixed' = mixed
      \/ mixed' = mixed \cup {d \in Calls \ {c} : ~ Permission!At(d, "start")}
  BY DEF Permission!SetTree, Permission!Mix, Permission!Begun
<1> QED BY <1>1, <1>2 DEF Permission!TypeOK

PermissionEntries == {Torn, NoFile} \cup [Directories -> Permission!Nodes]

LEMMA PermissionSetsManifest ==
    ASSUME Permission!TypeOK, NEW c \in Calls, NEW entry \in PermissionEntries,
           Permission!SetManifest(c, entry)
    PROVE  /\ disk' = [tree |-> disk.tree,
                       manifest |-> [disk.manifest EXCEPT ![StampOf[c]] = entry]]
           /\ Permission!ManifestOf(c)' = entry
           /\ \A d \in Calls \ {c} : ~ Permission!At(d, "start") =>
                 d \in mixed' \/ Permission!ManifestOf(d)' = Permission!ManifestOf(d)
           /\ mixed \subseteq mixed' /\ mixed' \subseteq Calls
<1> USE DEF Permission!TypeOK
<1>1. \A d \in Calls : StampOf[d] \in Permission!Stamps
  BY DEF Permission!Stamps
<1>2. /\ disk' = [tree |-> disk.tree,
                  manifest |-> [disk.manifest EXCEPT ![StampOf[c]] = entry]]
      /\ mixed' = mixed \cup {d \in Permission!Sharing(c) \ {c} : ~ Permission!At(d, "start")}
  BY DEF Permission!SetManifest, Permission!Mix, Permission!Begun
<1> QED BY <1>1, <1>2 DEF Permission!ManifestOf, Permission!Sharing

PermissionMemories ==
    [found : [Directories -> Permission!Nodes], entries : [Directories -> Permission!Nodes],
     todo : SUBSET Permission!Expected, skipped : BOOLEAN]

\* What a step writes.
LEMMA PermissionWrites ==
    ASSUME PermissionInv, NEW c \in Calls, Permission!Step(c)
    PROVE  \/ \E tree \in [Directories -> Permission!Nodes] :
                 Filled(tree) /\ Permission!SetTree(c, tree)
           \/ \E entry \in PermissionEntries : Permission!SetManifest(c, entry)
           \/ mixed' = mixed /\ disk' = disk
<1> USE DEF PermissionInv
<1>0. /\ mem[c] \in PermissionMemories /\ disk.tree \in [Directories -> Permission!Nodes]
      /\ mem[c].todo \subseteq Directories
  BY PolicyIsBelowRoot DEF Permission!TypeOK, PermissionMemories
<1>1. ASSUME NEW p \in mem[c].todo, NEW node \in {"right", "drifted"}
      PROVE  LET made == Permission!WithDirectories(disk.tree, p, node)
             IN  made \in [Directories -> Permission!Nodes] /\ Filled(made)
  <2>1. Filled(Permission!WithDirectories(disk.tree, p, node))
    BY <1>0, FilledMakes
  <2> QED
    BY <1>0, <2>1 DEF Permission!WithDirectories, Permission!Nodes, Permission!Modes
<1>2. CASE Permission!Apply(c)
  <2>1. PICK p \in mem[c].todo :
            Permission!SetTree(c, Permission!WithDirectories(disk.tree, p, "right"))
    BY <1>2 DEF Permission!Apply, Permission!First
  <2> QED BY <1>1, <2>1
<1>3. CASE Permission!FailApply(c)
  <2>1. PICK p \in mem[c].todo :
            \/ Permission!Quiet
            \/ Permission!SetTree(c, Permission!WithDirectories(disk.tree, p, "drifted"))
    BY <1>3 DEF Permission!FailApply, Permission!First
  <2> QED BY <1>1, <2>1 DEF Permission!Quiet
<1>4. CASE Permission!Undo(c)
  <2>1. PICK p \in mem[c].todo :
            IF Permission!Undoable(c, p)
            THEN Permission!SetTree(c, [disk.tree EXCEPT ![p] = mem[c].entries[p]])
            ELSE Permission!Quiet
    BY <1>4 DEF Permission!Undo, Permission!Last
  <2>2. CASE Permission!Undoable(c, p)
    <3>1. /\ p \in Directories /\ mem[c].entries[p] \in Permission!Nodes
          /\ mem[c].entries[p] = "missing" => Permission!Empty(disk.tree, p)
          /\ mem[c].entries[p] # "missing" => disk.tree[p] # "missing"
      BY <1>0, <2>2 DEF Permission!Undoable, PermissionMemories
    <3>2. Filled([disk.tree EXCEPT ![p] = mem[c].entries[p]])
      BY <1>0, <3>1, FilledUndoes
    <3>3. [disk.tree EXCEPT ![p] = mem[c].entries[p]] \in [Directories -> Permission!Nodes]
      BY <1>0, <3>1
    <3> QED BY <2>1, <2>2, <3>2, <3>3
  <2> QED BY <2>1, <2>2 DEF Permission!Quiet
<1>5. CASE Permission!StatEntries(c)
  BY <1>5 DEF Permission!StatEntries, PermissionEntries
<1>6. CASE Permission!FillManifest(c)
  <2>1. mem[c].entries \in PermissionEntries
    BY <1>0 DEF PermissionEntries, PermissionMemories
  <2> QED BY <1>6, <2>1 DEF Permission!FillManifest
<1> QED
  BY <1>2, <1>3, <1>4, <1>5, <1>6
  DEF Permission!Step, Permission!Block, Permission!DryRun, Permission!NothingToDo,
      Permission!Inspect, Permission!FailManifest, Permission!Recheck,
      Permission!FailRecheck, Permission!Verify, Permission!FailVerify,
      Permission!SkipUndo, Permission!Undone, Permission!Crash, Permission!Quiet

\* What a step remembers.
LEMMA PermissionRemembers ==
    ASSUME PermissionInv, NEW c \in Calls, Permission!Step(c)
    PROVE  \E m \in PermissionMemories : /\ mem' = [mem EXCEPT ![c] = m]
                                         /\ m.found \in {mem[c].found, disk.tree}
<1> USE DEF PermissionInv
<1>0. /\ mem[c] \in PermissionMemories /\ mem \in [Calls -> PermissionMemories]
      /\ disk.tree \in [Directories -> Permission!Nodes]
  BY DEF Permission!TypeOK, PermissionMemories
<1>1. CASE mem' = mem
  <2>1. mem' = [mem EXCEPT ![c] = mem[c]]
    BY <1>0, <1>1
  <2> QED BY <1>0, <2>1
<1>2. CASE \E todo \in SUBSET Permission!Expected : mem' = [mem EXCEPT ![c].todo = todo]
  <2>1. PICK todo \in SUBSET Permission!Expected : mem' = [mem EXCEPT ![c].todo = todo]
    BY <1>2
  <2>2. mem' = [mem EXCEPT ![c] = [mem[c] EXCEPT !.todo = todo]]
    BY <1>0, <2>1
  <2>3. /\ [mem[c] EXCEPT !.todo = todo] \in PermissionMemories
        /\ [mem[c] EXCEPT !.todo = todo].found = mem[c].found
    BY <1>0 DEF PermissionMemories
  <2> QED BY <2>2, <2>3
<1>3. \A tree : Permission!Operations(tree) \in SUBSET Permission!Expected
  BY DEF Permission!Operations
<1>4. CASE Permission!NothingToDo(c)
  <2> DEFINE m == [mem[c] EXCEPT !.found = disk.tree]
  <2>1. mem' = [mem EXCEPT ![c] = m]
    BY <1>0, <1>4 DEF Permission!NothingToDo
  <2>2. m \in PermissionMemories /\ m.found = disk.tree
    BY <1>0 DEF PermissionMemories
  <2> QED BY <2>1, <2>2
<1>5. CASE Permission!Inspect(c)
  <2> DEFINE m == [mem[c] EXCEPT !.found = disk.tree,
                                 !.todo = Permission!Operations(disk.tree)]
  <2>1. mem' = [mem EXCEPT ![c] = m]
    BY <1>0, <1>5 DEF Permission!Inspect
  <2>2. m \in PermissionMemories /\ m.found = disk.tree
    BY <1>0, <1>3 DEF PermissionMemories
  <2> QED BY <2>1, <2>2
<1>6. CASE Permission!StatEntries(c)
  <2> DEFINE entries == [p \in Directories |->
                IF p \in mem[c].todo /\ Permission!Seen(mem[c].found, p) # "missing"
                THEN disk.tree[p] ELSE "missing"]
             m == [mem[c] EXCEPT !.entries = entries]
  <2>1. mem' = [mem EXCEPT ![c] = m]
    BY <1>0, <1>6 DEF Permission!StatEntries
  <2>2. entries \in [Directories -> Permission!Nodes]
    BY <1>0 DEF Permission!Nodes
  <2>3. m \in PermissionMemories /\ m.found = mem[c].found
    <3> HIDE DEF entries
    <3> QED BY <1>0, <2>2 DEF PermissionMemories
  <2> QED BY <2>1, <2>3
<1>7. CASE Permission!Apply(c) \/ Permission!Undo(c)
  <2>1. PICK p : mem' = [mem EXCEPT ![c].todo = @ \ {p}]
    BY <1>7 DEF Permission!Apply, Permission!Undo
  <2>2. mem' = [mem EXCEPT ![c].todo = mem[c].todo \ {p}]
    BY <1>0, <2>1
  <2>3. mem[c].todo \ {p} \in SUBSET Permission!Expected
    BY <1>0 DEF PermissionMemories
  <2> QED BY <1>2, <2>2, <2>3
<1>8. CASE Permission!SkipUndo(c)
  <2>1. PICK p : mem' = [mem EXCEPT ![c].todo = @ \ {p}, ![c].skipped = TRUE]
    BY <1>8 DEF Permission!SkipUndo
  <2> DEFINE m == [mem[c] EXCEPT !.todo = mem[c].todo \ {p}, !.skipped = TRUE]
  <2>2. mem' = [mem EXCEPT ![c] = m]
    BY <1>0, <2>1
  <2>3. m \in PermissionMemories /\ m.found = mem[c].found
    BY <1>0 DEF PermissionMemories
  <2> QED BY <2>2, <2>3
<1>9. CASE Permission!FailApply(c) \/ Permission!FailRecheck(c) \/ Permission!FailVerify(c)
  BY <1>2, <1>3, <1>9 DEF Permission!FailApply, Permission!FailRecheck, Permission!FailVerify
<1> QED
  BY <1>1, <1>4, <1>5, <1>6, <1>7, <1>8, <1>9
  DEF Permission!Step, Permission!Block, Permission!DryRun, Permission!FillManifest,
      Permission!FailManifest, Permission!Recheck, Permission!Verify,
      Permission!Undone, Permission!Crash

\* What a step answers, and where it goes.
LEMMA PermissionAnswers ==
    ASSUME PermissionInv, NEW c \in Calls, Permission!Step(c)
    PROVE  /\ \/ report' = report
              \/ \E answer \in Permission!Reports : /\ report' = [report EXCEPT ![c] = answer]
                                                    /\ Permission!Goto(c, "done")
           /\ Place(c) # "done"
           /\ \/ UNCHANGED pc /\ Place(c) # "start"
              \/ \E l \in Permission!Labels \ {"start"} : Permission!Goto(c, l)
<1> USE DEF PermissionInv, Permission!Step
<1>1. \/ report' = report
      \/ \E answer \in Permission!Reports : /\ report' = [report EXCEPT ![c] = answer]
                                            /\ Permission!Goto(c, "done")
  BY DEF Permission!Block, Permission!DryRun, Permission!NothingToDo, Permission!Inspect,
         Permission!StatEntries, Permission!FillManifest, Permission!FailManifest,
         Permission!Apply, Permission!FailApply, Permission!Recheck,
         Permission!FailRecheck, Permission!Verify, Permission!FailVerify,
         Permission!Undo, Permission!SkipUndo, Permission!Undone, Permission!Crash,
         Permission!Return, Permission!Reports
<1>2. /\ Place(c) # "done"
      /\ \/ UNCHANGED pc /\ Place(c) # "start"
         \/ \E l \in Permission!Labels \ {"start"} : Permission!Goto(c, l)
  BY PermissionPlaces
  DEF Permission!Block, Permission!DryRun, Permission!NothingToDo, Permission!Inspect,
         Permission!StatEntries, Permission!FillManifest, Permission!FailManifest,
         Permission!Apply, Permission!FailApply, Permission!Recheck,
         Permission!FailRecheck, Permission!Verify, Permission!FailVerify,
         Permission!Undo, Permission!SkipUndo, Permission!Undone, Permission!Crash,
         Permission!Return, Permission!Labels
<1> QED BY <1>1, <1>2

LEMMA PermissionTyped ==
    ASSUME PermissionInv, NEW c \in Calls, Permission!Step(c)
    PROVE  /\ Permission!TypeOK' /\ Filled(disk.tree)'
           /\ \A d \in Calls : Filled(mem[d].found)'
<1> USE DEF PermissionInv
<1>0. disk \in [tree : [Directories -> Permission!Nodes],
                manifest : [Permission!Stamps -> PermissionEntries]]
  BY DEF Permission!TypeOK, PermissionEntries
<1>1. /\ disk' \in [tree : [Directories -> Permission!Nodes],
                    manifest : [Permission!Stamps -> PermissionEntries]]
      /\ mixed' \subseteq Calls /\ Filled(disk'.tree)
  <2>1. CASE \E tree \in [Directories -> Permission!Nodes] :
                Filled(tree) /\ Permission!SetTree(c, tree)
    <3>1. PICK tree \in [Directories -> Permission!Nodes] :
              Filled(tree) /\ Permission!SetTree(c, tree)
      BY <2>1
    <3>2. disk' = [tree |-> tree, manifest |-> disk.manifest] /\ mixed' \subseteq Calls
      BY <3>1, PermissionSetsTree
    <3> QED BY <1>0, <3>1, <3>2
  <2>2. CASE \E entry \in PermissionEntries : Permission!SetManifest(c, entry)
    <3>1. PICK entry \in PermissionEntries :
              /\ disk' = [tree |-> disk.tree,
                          manifest |-> [disk.manifest EXCEPT ![StampOf[c]] = entry]]
              /\ mixed' \subseteq Calls
      BY <2>2, PermissionSetsManifest
    <3> QED BY <1>0, <3>1
  <2>3. CASE mixed' = mixed /\ disk' = disk
    BY <1>0, <2>3 DEF Permission!TypeOK
  <2> QED BY <2>1, <2>2, <2>3, PermissionWrites
<1>2. mem' \in [Calls -> PermissionMemories] /\ \A d \in Calls : Filled(mem'[d].found)
  <2>1. PICK m \in PermissionMemories : /\ mem' = [mem EXCEPT ![c] = m]
                                        /\ m.found \in {mem[c].found, disk.tree}
    BY PermissionRemembers
  <2>2. mem \in [Calls -> PermissionMemories]
    BY DEF Permission!TypeOK, PermissionMemories
  <2> QED BY <2>1, <2>2
<1>3. report' \in [Calls -> Permission!Reports]
  BY PermissionAnswers DEF Permission!TypeOK
<1>4. pc' \in [Calls -> Permission!Places(Permission!Labels)]
  <2>1. \A l \in Permission!Labels : <<"permissions", l>> \in Permission!Places(Permission!Labels)
    BY DEF Permission!Places
  <2>2. pc \in [Calls -> Permission!Places(Permission!Labels)]
    BY DEF Permission!TypeOK
  <2>3. UNCHANGED pc \/ \E l \in Permission!Labels : Permission!Goto(c, l)
    BY PermissionAnswers
  <2> QED BY <2>1, <2>2, <2>3 DEF Permission!Goto
<1>5. Permission!TypeOK'
  BY <1>1, <1>2, <1>3, <1>4 DEF Permission!TypeOK, PermissionMemories, PermissionEntries
<1> QED BY <1>1, <1>2, <1>5

LEMMA PermissionOthers ==
    ASSUME PermissionInv, NEW c \in Calls, Permission!Step(c), NEW d \in Calls \ {c}
    PROVE  /\ Place(d)' = Place(d) /\ mem'[d] = mem[d] /\ report'[d] = report[d]
           /\ d \in mixed => d \in mixed'
           /\ Place(d) # "start" /\ d \notin mixed' =>
                 /\ disk'.tree = disk.tree
                 /\ Permission!ManifestOf(d)' = Permission!ManifestOf(d)
<1> USE DEF PermissionInv
<1>1. Place(d)' = Place(d) /\ mem'[d] = mem[d] /\ report'[d] = report[d]
  <2>1. Place(d)' = Place(d)
    BY PermissionAnswers, PermissionPlaces DEF Place
  <2>2. mem'[d] = mem[d]
    <3>1. PICK m : mem' = [mem EXCEPT ![c] = m]
      BY PermissionRemembers
    <3>2. mem \in [Calls -> PermissionMemories]
      BY DEF Permission!TypeOK, PermissionMemories
    <3> QED BY <3>1, <3>2
  <2>3. report'[d] = report[d]
    <3>1. report' = report \/ \E answer : report' = [report EXCEPT ![c] = answer]
      BY PermissionAnswers
    <3>2. report \in [Calls -> Permission!Reports]
      BY DEF Permission!TypeOK
    <3> QED BY <3>1, <3>2
  <2> QED BY <2>1, <2>2, <2>3
<1>2. CASE \E tree : Permission!SetTree(c, tree)
  <2>1. PICK tree : Permission!SetTree(c, tree)
    BY <1>2
  <2> QED BY <1>1, <2>1, PermissionSetsTree, PermissionPlaces DEF Permission!ManifestOf
<1>3. CASE \E entry \in PermissionEntries : Permission!SetManifest(c, entry)
  BY <1>1, <1>3, PermissionSetsManifest, PermissionPlaces
<1>4. CASE mixed' = mixed /\ disk' = disk
  BY <1>1, <1>4 DEF Permission!ManifestOf
<1> QED BY <1>2, <1>3, <1>4, PermissionWrites

\* An operation makes directories that can be reached, and of what the call could see it
\* changes only the directory it is for.
LEMMA PermissionMakes ==
    ASSUME PermissionInv, NEW c \in Calls, PermissionFits(c), Place(c) = "apply",
           NEW p \in mem[c].todo, NEW node \in {"right", "drifted"}, NEW tree,
           Permission!Searchable(disk.tree, p),
           tree = Permission!WithDirectories(disk.tree, p, node)
    PROVE  SeenKept(c, tree) /\ MadeReached(c, tree, Directories)
<1>0. p \in Directories /\ p \in Permission!Operations(mem[c].found)
  BY PolicyIsBelowRoot DEF PermissionInv, Permission!TypeOK, PermissionFits
<1>1. \A q \in Directories :
          tree[q] = IF q = p THEN node
                    ELSE IF q \in Permission!Over[p] /\ disk.tree[q] = "missing" THEN "drifted"
                    ELSE disk.tree[q]
  BY DEF Permission!WithDirectories
<1>2. ASSUME NEW q \in Directories, Permission!Searchable(disk.tree, q)
      PROVE  Permission!Searchable(tree, q)
  BY <1>1, <1>2, OverIsAbove DEF Permission!Searchable
<1>3. ASSUME NEW q \in There(c)
      PROVE  /\ tree[q] # "missing"
             /\ tree[q] = "closed" => mem[c].found[q] = "closed"
             /\ q \notin Permission!Operations(mem[c].found) => tree[q] = mem[c].found[q]
  <2>1. q \in Directories /\ disk.tree[q] # "missing"
    BY DEF There, PermissionFits, SeenKept
  <2> QED BY <1>0, <1>1, <2>1 DEF PermissionFits, SeenKept, MadeReached, RestoredBut
<1>4. ASSUME NEW q \in Directories, mem[c].found[q] = "missing", tree[q] # "missing"
      PROVE  Permission!Searchable(tree, q)
  <2>1. CASE disk.tree[q] # "missing"
    <3>1. Permission!Searchable(disk.tree, q)
      BY <1>4, <2>1 DEF PermissionFits, SeenKept, MadeReached, RestoredBut
    <3> QED BY <1>2, <3>1
  <2>2. CASE disk.tree[q] = "missing"
    <3>1. q = p \/ q \in Permission!Over[p]
      BY <1>1, <1>4, <2>2
    <3>2. Permission!Searchable(disk.tree, q)
      BY <1>0, <3>1, OverIsAbove DEF Permission!Searchable
    <3> QED BY <1>2, <3>2
  <2> QED BY <2>1, <2>2
<1> QED BY <1>3, <1>4 DEF SeenKept, MadeReached

\* When the rollback begins, whatever it is to restore or to remove is in its list.
LEMMA PermissionListsAll ==
    ASSUME NEW c \in Calls, NEW tree, SeenKept(c, tree)
    PROVE  RestoredBut(c, tree, Permission!Operations(mem[c].found))
  BY DEF SeenKept, RestoredBut, Permission!Operations, Permission!Seen

\* The entries of a rollback put back what the call could see and remove the rest.
LEMMA RecordedIs ==
    ASSUME NEW c \in Calls, Filled(mem[c].found),
           NEW p \in Permission!Operations(mem[c].found)
    PROVE  /\ p \in Permission!Expected /\ p \in Directories
           /\ p \in There(c) => Recorded(c)[p] = mem[c].found[p] /\ mem[c].found[p] # "missing"
           /\ p \notin There(c) => Recorded(c)[p] = "missing"
<1>1. p \in Permission!Expected /\ p \in Directories
  BY PolicyIsBelowRoot DEF Permission!Operations
<1> QED BY <1>1, ThereAbove DEF Recorded

\* A step of the rollback that the system lets through.
LEMMA PermissionUndoes ==
    ASSUME PermissionInv, NEW c \in Calls, PermissionFits(c), Place(c) = "undo",
           NEW p \in Permission!Last(mem[c].todo), NEW tree,
           tree = [disk.tree EXCEPT ![p] = mem[c].entries[p]]
    PROVE  /\ SeenKept(c, tree) /\ MadeReached(c, tree, mem[c].todo \ {p})
           /\ ~ mem[c].skipped => RestoredBut(c, tree, mem[c].todo \ {p})
<1> DEFINE Found == mem[c].found
           Operations == Permission!Operations(mem[c].found)
<1>0. /\ p \in mem[c].todo /\ \A q \in mem[c].todo : ~ Permission!Before(p, q)
      /\ mem[c].todo \subseteq Permission!Expected /\ mem[c].todo \subseteq Operations
      /\ mem[c].entries = Recorded(c) /\ Filled(Found)
  BY DEF Permission!Last, PermissionInv, Permission!TypeOK, PermissionFits
<1>1. /\ p \in Permission!Expected /\ p \in Directories
      /\ p \in There(c) => mem[c].entries[p] = Found[p] /\ Found[p] # "missing"
      /\ p \notin There(c) => mem[c].entries[p] = "missing"
  BY <1>0, RecordedIs
<1>2. /\ tree[p] = mem[c].entries[p]
      /\ \A q \in Directories \ {p} : tree[q] = disk.tree[q]
  BY <1>1 DEF PermissionInv, Permission!TypeOK
<1>3. ASSUME NEW q \in There(c)
      PROVE  /\ tree[q] # "missing"
             /\ tree[q] = "closed" => Found[q] = "closed"
             /\ q \notin Operations => tree[q] = Found[q]
             /\ ~ mem[c].skipped => tree[q] = Found[q] \/ q \in mem[c].todo \ {p}
  <2>1. q \in Directories
    BY DEF There
  <2> QED BY <1>0, <1>1, <1>2, <2>1 DEF PermissionFits, SeenKept, MadeReached, RestoredBut
<1>4. ASSUME NEW q \in mem[c].todo \ {p}, Found[q] = "missing", tree[q] # "missing"
      PROVE  Permission!Searchable(tree, q)
  <2>1. q \in Permission!Expected /\ q \in Directories /\ disk.tree[q] # "missing"
    BY <1>0, <1>2, <1>4, PolicyIsBelowRoot
  <2>2. Permission!Searchable(disk.tree, q)
    BY <1>4, <2>1 DEF PermissionFits, SeenKept, MadeReached, RestoredBut
  <2>3. p \notin Permission!Over[q]
    BY <1>0, <1>1, <2>1, PolicyGoesDown
  <2> QED BY <1>2, <2>1, <2>2, <2>3, OverIsAbove DEF Permission!Searchable
<1>5. ASSUME NEW q \in Permission!Expected, ~ mem[c].skipped,
             Found[q] = "missing", tree[q] # "missing"
      PROVE  \/ q \in mem[c].todo \ {p}
             \/ \E r \in Directories \ Permission!Expected :
                   q \in Permission!Over[r] /\ tree[r] # "missing"
  <2>1. q \in Directories
    BY PolicyIsBelowRoot
  <2>2. q # p
    BY <1>1, <1>2, <1>5
  <2>3. \/ q \in mem[c].todo
        \/ \E r \in Directories \ Permission!Expected :
              q \in Permission!Over[r] /\ disk.tree[r] # "missing"
    BY <1>2, <1>5, <2>1, <2>2 DEF PermissionFits, SeenKept, MadeReached, RestoredBut
  <2> QED BY <1>1, <1>2, <2>2, <2>3
<1> QED BY <1>3, <1>4, <1>5 DEF SeenKept, MadeReached, RestoredBut

\* A step of the rollback that finds its directory in use: what the call could see is
\* never in that case.
LEMMA PermissionLeaves ==
    ASSUME PermissionInv, NEW c \in Calls, PermissionFits(c), Place(c) = "undo",
           NEW p \in Permission!Last(mem[c].todo), ~ Permission!Undoable(c, p),
           ~ mem[c].skipped
    PROVE  RestoredBut(c, disk.tree, mem[c].todo \ {p})
<1> DEFINE Found == mem[c].found
           Operations == Permission!Operations(mem[c].found)
<1>0. /\ p \in mem[c].todo /\ \A q \in mem[c].todo : ~ Permission!Before(p, q)
      /\ mem[c].todo \subseteq Permission!Expected /\ mem[c].todo \subseteq Operations
      /\ mem[c].entries = Recorded(c) /\ Filled(Found)
  BY DEF Permission!Last, PermissionInv, Permission!TypeOK, PermissionFits
<1>1. /\ p \in Permission!Expected /\ p \in Directories
      /\ p \in There(c) => mem[c].entries[p] = Found[p] /\ Found[p] # "missing"
      /\ p \notin There(c) => mem[c].entries[p] = "missing"
  BY <1>0, RecordedIs
<1>2. p \notin There(c)
  <2> SUFFICES ASSUME p \in There(c) PROVE FALSE
    OBVIOUS
  <2>1. Permission!Searchable(disk.tree, p)
    <3>1. \A q \in Permission!Over[p] : q \in There(c) /\ Found[q] # "closed"
      BY <1>0, ThereAbove
    <3> QED BY <3>1 DEF Permission!Searchable, PermissionFits, SeenKept
  <2>2. disk.tree[p] # "missing"
    BY DEF PermissionFits, SeenKept, MadeReached, RestoredBut
  <2> QED BY <1>1, <2>1, <2>2 DEF Permission!Undoable
<1>3. ASSUME Found[p] = "missing", disk.tree[p] # "missing"
      PROVE  \E r \in Directories \ Permission!Expected :
                p \in Permission!Over[r] /\ disk.tree[r] # "missing"
  <2>1. Permission!Searchable(disk.tree, p)
    BY <1>0, <1>1, <1>3 DEF PermissionFits, SeenKept, MadeReached, RestoredBut
  <2>2. PICK q \in Directories : DirectoryOf[q] = p /\ disk.tree[q] # "missing"
    BY <1>1, <1>2, <2>1 DEF Permission!Undoable, Permission!Empty
  <2>3. p \in Permission!Over[q] /\ Found[q] = "missing"
    BY <1>0, <1>1, <1>3, <2>2, OverIsAbove DEF Filled
  <2>4. CASE q \in Permission!Expected
    <3>1. q \notin mem[c].todo
      BY <1>0, <1>1, <2>3, <2>4, PolicyGoesDown
    <3>2. PICK r \in Directories \ Permission!Expected :
              q \in Permission!Over[r] /\ disk.tree[r] # "missing"
      BY <2>2, <2>3, <2>4, <3>1 DEF PermissionFits, SeenKept, MadeReached, RestoredBut
    <3> QED BY <2>3, <3>2, OverIsAbove
  <2> QED BY <2>2, <2>3, <2>4
<1> QED BY <1>2, <1>3, PolicyIsBelowRoot DEF PermissionFits, SeenKept, MadeReached, RestoredBut

\* The call that takes a step, and what it remembers.
LEMMA PermissionOwnBefore ==
    ASSUME PermissionInv, NEW c \in Calls, Permission!Step(c), Permission!Alone(c)'
    PROVE  /\ Place(c) \in Permission!Labels /\ report[c] = "none"
           /\ Place(c) # "start" => PermissionFits(c)
           /\ mem \in [Calls -> PermissionMemories] /\ mem[c] \in PermissionMemories
           /\ report \in [Calls -> Permission!Reports]
           /\ Filled(mem[c].found)
<1>1. mixed \subseteq mixed'
  BY PermissionWrites, PermissionSetsTree, PermissionSetsManifest DEF PermissionInv
<1>2. Place(c) # "done" /\ report[c] = "none"
  BY PermissionAnswers DEF PermissionInv
<1> QED
  BY <1>1, <1>2, PermissionPlaces
  DEF PermissionInv, Permission!Alone, Permission!Begun, Permission!TypeOK,
      PermissionMemories

\* As long as it does not inspect again, it knows the same tree.
LEMMA PermissionKnows ==
    ASSUME NEW c \in Calls, mem'[c].found = mem[c].found
    PROVE  There(c)' = There(c) /\ Recorded(c)' = Recorded(c)
<1>1. There(c)' = There(c)
  BY DEF There
<1> QED BY <1>1 DEF Recorded

\* Before the first operation.
LEMMA PermissionPlans ==
    ASSUME PermissionInv, NEW c \in Calls, Permission!Step(c), Permission!Alone(c)',
           report'[c] \notin {"blocked", "dry_run"},
           \/ Permission!NothingToDo(c) \/ Permission!Inspect(c)
           \/ Permission!StatEntries(c) \/ Permission!FillManifest(c)
           \/ Permission!FailManifest(c)
    PROVE  PermissionFits(c)'
<1> USE DEF PermissionInv
<1>0. /\ Place(c) \in Permission!Labels /\ report[c] = "none"
      /\ Place(c) # "start" => PermissionFits(c)
      /\ mem \in [Calls -> PermissionMemories] /\ mem[c] \in PermissionMemories
      /\ report \in [Calls -> Permission!Reports]
  BY PermissionOwnBefore
<1>1. CASE Permission!NothingToDo(c)
  <2>1. /\ disk' = disk /\ Place(c)' = "done" /\ report'[c] = "succeeded"
        /\ mem' = [mem EXCEPT ![c].found = disk.tree]
        /\ Permission!Operations(disk.tree) = {} /\ Permission!Unfixable(disk.tree) = {}
    BY <1>0, <1>1, PermissionPlaces
    DEF Permission!NothingToDo, Permission!Return, Permission!Quiet
  <2>2. mem'[c].found = disk.tree
    BY <1>0, <2>1 DEF PermissionMemories
  <2>3. Permission!Matches(disk.tree)
    <3>1. ASSUME NEW p \in Permission!Expected PROVE Permission!Seen(disk.tree, p) = "right"
      <4>1. Permission!Seen(disk.tree, p) \in Permission!Nodes
        BY PolicyIsBelowRoot DEF Permission!Seen, Permission!TypeOK, Permission!Nodes
      <4> QED
        BY <2>1, <4>1
        DEF Permission!Operations, Permission!Unfixable, Permission!Nodes, Permission!Modes
    <3> QED BY <3>1 DEF Permission!Matches
  <2>4. \A p \in There(c)' : disk.tree[p] # "missing"
    BY <2>2 DEF There, Permission!Seen
  <2> QED BY <2>1, <2>2, <2>3, <2>4 DEF PermissionFits, SeenKept
<1>2. CASE Permission!Inspect(c)
  <2>1. /\ disk' = disk /\ Place(c)' = "manifest" /\ report' = report
        /\ mem' = [mem EXCEPT ![c].found = disk.tree,
                              ![c].todo = Permission!Operations(disk.tree)]
    BY <1>2, PermissionPlaces DEF Permission!Inspect, Permission!Quiet
  <2>2. /\ mem'[c].found = disk.tree
        /\ mem'[c].todo = Permission!Operations(disk.tree)
    BY <1>0, <2>1 DEF PermissionMemories
  <2>3. \A p \in There(c)' : disk.tree[p] # "missing"
    BY <2>2 DEF There, Permission!Seen
  <2> QED BY <1>0, <2>1, <2>2, <2>3 DEF PermissionFits, SeenKept
<1>3. CASE Permission!StatEntries(c)
  <2> DEFINE entries == [p \in Directories |->
                IF p \in mem[c].todo /\ Permission!Seen(mem[c].found, p) # "missing"
                THEN disk.tree[p] ELSE "missing"]
  <2>1. /\ report' = report /\ Place(c) = "manifest" /\ Place(c)' = "listing"
        /\ Permission!SetManifest(c, Torn)
        /\ mem' = [mem EXCEPT ![c].entries = entries]
    BY <1>3, PermissionPlaces DEF Permission!StatEntries
  <2>2. PermissionFits(c) /\ disk.tree = mem[c].found
        /\ mem[c].todo = Permission!Operations(mem[c].found)
    BY <1>0, <2>1 DEF PermissionFits, SeenKept
  <2>3. entries = Recorded(c)
    <3>1. \A p \in Directories : p \in There(c) <=> Permission!Seen(mem[c].found, p) # "missing"
      BY DEF There
    <3> QED BY <2>2, <3>1 DEF Recorded
  <2>4. /\ mem'[c].found = mem[c].found /\ mem'[c].entries = Recorded(c)
        /\ mem'[c].todo = mem[c].todo
    <3> HIDE DEF entries
    <3> QED BY <1>0, <2>1, <2>3 DEF PermissionMemories
  <2>5. disk'.tree = disk.tree
    BY <2>1, PermissionSetsManifest DEF PermissionEntries
  <2>6. There(c)' = There(c) /\ Recorded(c)' = Recorded(c)
    BY <2>4, PermissionKnows
  <2> QED BY <1>0, <2>1, <2>2, <2>4, <2>5, <2>6
    DEF PermissionFits, SeenKept, MadeReached, RestoredBut
<1>4. CASE Permission!FillManifest(c)
  <2>1. /\ report' = report /\ Place(c) = "listing" /\ Place(c)' = "apply" /\ mem' = mem
        /\ Permission!SetManifest(c, mem[c].entries)
    BY <1>4, PermissionPlaces DEF Permission!FillManifest
  <2>2. PermissionFits(c) /\ disk.tree = mem[c].found /\ mem[c].entries = Recorded(c)
    BY <1>0, <2>1 DEF PermissionFits, SeenKept
  <2>3. mem[c].entries \in PermissionEntries
    BY <1>0 DEF PermissionEntries, PermissionMemories
  <2>4. disk'.tree = disk.tree /\ Permission!ManifestOf(c)' = Recorded(c)
    BY <2>1, <2>2, <2>3, PermissionSetsManifest
  <2>5. There(c)' = There(c) /\ Recorded(c)' = Recorded(c)
    BY <2>1, PermissionKnows
  <2>6. mem[c].todo = Permission!Operations(mem[c].found)
    BY <2>1, <2>2 DEF PermissionFits, SeenKept
  <2> QED BY <1>0, <2>1, <2>2, <2>4, <2>5, <2>6
    DEF PermissionFits, SeenKept, MadeReached, RestoredBut
<1>5. CASE Permission!FailManifest(c)
  <2>1. /\ disk' = disk /\ mem' = mem /\ Place(c) \in {"manifest", "listing"}
        /\ Place(c)' = "done" /\ report'[c] = "no_manifest"
    BY <1>0, <1>5, PermissionPlaces
    DEF Permission!FailManifest, Permission!Return, Permission!Quiet
  <2>2. There(c)' = There(c) /\ Recorded(c)' = Recorded(c)
    BY <2>1, PermissionKnows
  <2> QED BY <1>0, <2>1, <2>2 DEF PermissionFits, SeenKept
<1> QED BY <1>1, <1>2, <1>3, <1>4, <1>5

\* From the first operation on.
LEMMA PermissionApplies ==
    ASSUME PermissionInv, NEW c \in Calls, Permission!Step(c), Permission!Alone(c)',
           \/ Permission!Apply(c) \/ Permission!FailApply(c) \/ Permission!Recheck(c)
           \/ Permission!FailRecheck(c) \/ Permission!Verify(c) \/ Permission!FailVerify(c)
    PROVE  PermissionFits(c)'
<1> USE DEF PermissionInv
<1> DEFINE Operations == Permission!Operations(mem[c].found)
<1>0. /\ Place(c) \in Permission!Labels /\ report[c] = "none"
      /\ Place(c) # "start" => PermissionFits(c)
      /\ mem \in [Calls -> PermissionMemories] /\ mem[c] \in PermissionMemories
      /\ report \in [Calls -> Permission!Reports] /\ Operations \subseteq Directories
  BY PermissionOwnBefore, PolicyIsBelowRoot DEF Permission!Operations
<1>1. CASE Permission!Apply(c)
  <2>1. PICK p \in mem[c].todo :
            /\ Permission!Searchable(disk.tree, p)
            /\ Permission!SetTree(c, Permission!WithDirectories(disk.tree, p, "right"))
            /\ mem' = [mem EXCEPT ![c].todo = @ \ {p}]
    BY <1>1 DEF Permission!Apply, Permission!First
  <2>2. pc' = pc /\ report' = report /\ Place(c) = "apply" /\ Place(c)' = "apply"
    BY <1>1, PermissionPlaces DEF Permission!Apply, Place
  <2>3. PermissionFits(c)
    BY <1>0, <2>2
  <2>4. /\ mem'[c].found = mem[c].found /\ mem'[c].entries = mem[c].entries
        /\ mem'[c].todo = mem[c].todo \ {p}
    BY <1>0, <2>1 DEF PermissionMemories
  <2>5. There(c)' = There(c) /\ Recorded(c)' = Recorded(c)
    BY <2>4, PermissionKnows
  <2>6. /\ disk'.tree = Permission!WithDirectories(disk.tree, p, "right")
        /\ Permission!ManifestOf(c)' = Permission!ManifestOf(c)
    BY <2>1, PermissionSetsTree DEF Permission!ManifestOf
  <2>7. SeenKept(c, disk'.tree) /\ MadeReached(c, disk'.tree, Directories)
    BY <2>1, <2>2, <2>3, <2>6, PermissionMakes
  <2> HIDE DEF PermissionInv
  <2> QED BY <1>0, <2>2, <2>3, <2>4, <2>5, <2>6, <2>7
    DEF PermissionFits, SeenKept, MadeReached, RestoredBut
<1>2. CASE Permission!FailApply(c)
  <2>1. PICK p \in mem[c].todo :
            \/ mixed' = mixed /\ disk' = disk
            \/ /\ Permission!Searchable(disk.tree, p)
               /\ Permission!SetTree(c, Permission!WithDirectories(disk.tree, p, "drifted"))
    BY <1>2 DEF Permission!FailApply, Permission!First, Permission!Quiet
  <2>2. /\ report' = report /\ Place(c) = "apply" /\ Place(c)' = "undo"
        /\ mem' = [mem EXCEPT ![c].todo = Operations]
    BY <1>2, PermissionPlaces DEF Permission!FailApply
  <2>3. PermissionFits(c)
    BY <1>0, <2>2
  <2>4. /\ mem'[c].found = mem[c].found /\ mem'[c].entries = mem[c].entries
        /\ mem'[c].todo = Operations /\ mem'[c].skipped = mem[c].skipped
    BY <1>0, <2>2 DEF PermissionMemories
  <2>5. There(c)' = There(c) /\ Recorded(c)' = Recorded(c)
    BY <2>4, PermissionKnows
  <2>6. /\ Permission!ManifestOf(c)' = Permission!ManifestOf(c)
        /\ SeenKept(c, disk'.tree) /\ MadeReached(c, disk'.tree, Directories)
    <3>1. CASE disk' = disk
      BY <2>2, <2>3, <3>1 DEF PermissionFits, Permission!ManifestOf
    <3>2. CASE /\ Permission!Searchable(disk.tree, p)
               /\ Permission!SetTree(c, Permission!WithDirectories(disk.tree, p, "drifted"))
      <4>1. /\ disk'.tree = Permission!WithDirectories(disk.tree, p, "drifted")
            /\ Permission!ManifestOf(c)' = Permission!ManifestOf(c)
        BY <3>2, PermissionSetsTree DEF Permission!ManifestOf
      <4> QED BY <2>2, <2>3, <3>2, <4>1, PermissionMakes
    <3> QED BY <2>1, <3>1, <3>2
  <2>7. RestoredBut(c, disk'.tree, Operations)
    BY <2>6, PermissionListsAll
  <2> HIDE DEF PermissionInv
  <2> QED BY <1>0, <2>2, <2>3, <2>4, <2>5, <2>6, <2>7
    DEF PermissionFits, SeenKept, MadeReached, RestoredBut
<1>3. CASE Permission!Recheck(c) \/ Permission!Verify(c)
  <2>1. /\ disk' = disk /\ mem' = mem
        /\ \/ /\ Place(c) = "apply" /\ Place(c)' = "verify" /\ report' = report
              /\ Permission!Matches(disk.tree)
           \/ Place(c) = "verify" /\ Place(c)' = "done" /\ report'[c] = "succeeded"
    BY <1>0, <1>3, PermissionPlaces
    DEF Permission!Recheck, Permission!Verify, Permission!Return, Permission!Quiet
  <2>2. /\ There(c)' = There(c) /\ Recorded(c)' = Recorded(c)
        /\ Permission!ManifestOf(c)' = Permission!ManifestOf(c)
    BY <2>1, PermissionKnows DEF Permission!ManifestOf
  <2> HIDE DEF PermissionInv
  <2> QED BY <1>0, <2>1, <2>2
    DEF PermissionFits, SeenKept, MadeReached, RestoredBut
<1>4. CASE Permission!FailRecheck(c) \/ Permission!FailVerify(c)
  <2>1. /\ disk' = disk /\ mem' = [mem EXCEPT ![c].todo = Operations]
        /\ Place(c) \in {"apply", "verify"} /\ Place(c)' = "undo" /\ report' = report
    BY <1>4, PermissionPlaces
    DEF Permission!FailRecheck, Permission!FailVerify, Permission!Quiet
  <2>2. /\ mem'[c].found = mem[c].found /\ mem'[c].entries = mem[c].entries
        /\ mem'[c].todo = Operations /\ mem'[c].skipped = mem[c].skipped
    BY <1>0, <2>1 DEF PermissionMemories
  <2>3. /\ There(c)' = There(c) /\ Recorded(c)' = Recorded(c)
        /\ Permission!ManifestOf(c)' = Permission!ManifestOf(c)
    BY <2>1, <2>2, PermissionKnows DEF Permission!ManifestOf
  <2>4. RestoredBut(c, disk.tree, Operations)
    BY <1>0, <2>1, PermissionListsAll DEF PermissionFits
  <2> HIDE DEF PermissionInv
  <2> QED BY <1>0, <2>1, <2>2, <2>3, <2>4
    DEF PermissionFits, SeenKept, MadeReached, RestoredBut
<1> QED BY <1>1, <1>2, <1>3, <1>4

\* The rollback, and a crash.
LEMMA PermissionEnds ==
    ASSUME PermissionInv, NEW c \in Calls, Permission!Step(c), Permission!Alone(c)',
           \/ Permission!Undo(c) \/ Permission!SkipUndo(c) \/ Permission!Undone(c)
           \/ Permission!Crash(c)
    PROVE  PermissionFits(c)'
<1> USE DEF PermissionInv
<1>0. /\ Place(c) \in Permission!Labels /\ report[c] = "none"
      /\ Place(c) # "start" => PermissionFits(c)
      /\ mem \in [Calls -> PermissionMemories] /\ mem[c] \in PermissionMemories
      /\ report \in [Calls -> Permission!Reports]
  BY PermissionOwnBefore
<1>1. CASE Permission!Undo(c)
  <2>1. PICK p \in Permission!Last(mem[c].todo) :
            /\ IF Permission!Undoable(c, p)
               THEN Permission!SetTree(c, [disk.tree EXCEPT ![p] = mem[c].entries[p]])
               ELSE mixed' = mixed /\ disk' = disk
            /\ mem' = [mem EXCEPT ![c].todo = @ \ {p}]
    BY <1>1 DEF Permission!Undo, Permission!Quiet
  <2>2. pc' = pc /\ report' = report /\ Place(c) = "undo" /\ Place(c)' = "undo"
    BY <1>1, PermissionPlaces DEF Permission!Undo, Place
  <2>3. PermissionFits(c)
    BY <1>0, <2>2
  <2>4. /\ mem'[c].found = mem[c].found /\ mem'[c].entries = mem[c].entries
        /\ mem'[c].todo = mem[c].todo \ {p} /\ mem'[c].skipped = mem[c].skipped
    BY <1>0, <2>1 DEF PermissionMemories
  <2>5. There(c)' = There(c) /\ Recorded(c)' = Recorded(c)
    BY <2>4, PermissionKnows
  <2>6. CASE Permission!Undoable(c, p)
    <3> HIDE DEF PermissionInv
    <3>0. PICK tree : tree = [disk.tree EXCEPT ![p] = mem[c].entries[p]]
      OBVIOUS
    <3>1. /\ disk'.tree = tree
          /\ Permission!ManifestOf(c)' = Permission!ManifestOf(c)
      BY <2>1, <2>6, <3>0, PermissionSetsTree DEF PermissionInv, Permission!ManifestOf
    <3>2. /\ SeenKept(c, tree) /\ MadeReached(c, tree, mem[c].todo \ {p})
          /\ ~ mem[c].skipped => RestoredBut(c, tree, mem[c].todo \ {p})
      BY <2>2, <2>3, <3>0, PermissionUndoes
    <3> QED BY <1>0, <2>2, <2>3, <2>4, <2>5, <3>1, <3>2
    DEF PermissionFits, SeenKept, MadeReached, RestoredBut
  <2>7. CASE ~ Permission!Undoable(c, p)
    <3>1. /\ disk' = disk
          /\ Permission!ManifestOf(c)' = Permission!ManifestOf(c)
      BY <2>1, <2>7 DEF Permission!ManifestOf
    <3>2. ~ mem[c].skipped => RestoredBut(c, disk.tree, mem[c].todo \ {p})
      BY <2>2, <2>3, <2>7, PermissionLeaves
    <3> HIDE DEF PermissionInv
    <3> QED BY <1>0, <2>2, <2>3, <2>4, <2>5, <3>1, <3>2
    DEF PermissionFits, SeenKept, MadeReached, RestoredBut
  <2> QED BY <2>6, <2>7
<1>2. CASE Permission!SkipUndo(c)
  <2>1. PICK p : mem' = [mem EXCEPT ![c].todo = @ \ {p}, ![c].skipped = TRUE]
    BY <1>2 DEF Permission!SkipUndo
  <2>2. /\ pc' = pc /\ report' = report /\ disk' = disk
        /\ Place(c) = "undo" /\ Place(c)' = "undo"
    BY <1>2, PermissionPlaces DEF Permission!SkipUndo, Permission!Quiet, Place
  <2>3. /\ mem'[c].found = mem[c].found /\ mem'[c].entries = mem[c].entries
        /\ mem'[c].todo \subseteq mem[c].todo /\ mem'[c].skipped
    BY <1>0, <2>1 DEF PermissionMemories
  <2>4. /\ There(c)' = There(c) /\ Recorded(c)' = Recorded(c)
        /\ Permission!ManifestOf(c)' = Permission!ManifestOf(c)
    BY <2>2, <2>3, PermissionKnows DEF Permission!ManifestOf
  <2> HIDE DEF PermissionInv
  <2> QED BY <1>0, <2>2, <2>3, <2>4
    DEF PermissionFits, SeenKept, MadeReached, RestoredBut
<1>3. CASE Permission!Undone(c)
  <2>1. /\ disk' = disk /\ mem' = mem /\ mem[c].todo = {}
        /\ Place(c) = "undo" /\ Place(c)' = "done" /\ report'[c] = "failed"
    BY <1>0, <1>3, PermissionPlaces
    DEF Permission!Undone, Permission!Return, Permission!Quiet
  <2>2. /\ There(c)' = There(c) /\ Recorded(c)' = Recorded(c)
        /\ Permission!ManifestOf(c)' = Permission!ManifestOf(c)
    BY <2>1, PermissionKnows DEF Permission!ManifestOf
  <2> HIDE DEF PermissionInv
  <2> QED BY <1>0, <2>1, <2>2
    DEF PermissionFits, SeenKept, MadeReached, RestoredBut
<1>4. CASE Permission!Crash(c)
  <2>1. /\ disk' = disk /\ mem' = mem /\ Place(c) # "start"
        /\ Place(c)' = "done" /\ report'[c] = "crashed"
    BY <1>0, <1>4, PermissionPlaces DEF Permission!Crash, Permission!Return
  <2>2. /\ There(c)' = There(c) /\ Recorded(c)' = Recorded(c)
        /\ Permission!ManifestOf(c)' = Permission!ManifestOf(c)
    BY <2>1, PermissionKnows DEF Permission!ManifestOf
  <2> HIDE DEF PermissionInv
  <2> QED BY <1>0, <2>1, <2>2
    DEF PermissionFits, SeenKept, MadeReached, RestoredBut
<1> QED BY <1>1, <1>2, <1>3, <1>4

LEMMA PermissionStep ==
    ASSUME PermissionInv, NEW c \in Calls, Permission!Step(c)
    PROVE  PermissionInv'
<1> USE DEF PermissionInv
<1>1. Permission!TypeOK' /\ Filled(disk.tree)' /\ \A d \in Calls : Filled(mem[d].found)'
  BY PermissionTyped
<1>2. ASSUME NEW d \in Calls, Place(d)' # "done" PROVE report'[d] = "none"
  <2>1. CASE d # c
    BY <1>2, <2>1, PermissionOthers
  <2>2. CASE d = c
    BY <1>2, <2>2, PermissionAnswers, PermissionPlaces
  <2> QED BY <2>1, <2>2
<1>3. ASSUME NEW d \in Calls, Permission!Alone(d)', report'[d] \notin {"blocked", "dry_run"}
      PROVE  PermissionFits(d)'
  <2>1. CASE d = c
    <3>1. ~ Permission!Block(c) /\ ~ Permission!DryRun(c)
      <4>1. report \in [Calls -> Permission!Reports]
        BY DEF Permission!TypeOK
      <4> QED BY <1>3, <2>1, <4>1 DEF Permission!Block, Permission!DryRun, Permission!Return
    <3> QED
      BY <1>3, <2>1, <3>1, PermissionPlans, PermissionApplies, PermissionEnds
      DEF Permission!Step
  <2>2. CASE d # c
    <3>1. /\ Place(d)' = Place(d) /\ mem'[d] = mem[d] /\ report'[d] = report[d]
          /\ d \notin mixed /\ d \notin mixed'
      BY <1>3, <2>2, PermissionOthers DEF Permission!Alone
    <3>2. Place(d) # "start" /\ Permission!Alone(d)
      <4>1. pc'[d] = <<"permissions", Place(d)'>>
        BY <1>1 DEF Permission!TypeOK, Permission!Places, Place
      <4>2. Place(d)' # "start"
        BY <1>3, <4>1 DEF Permission!Alone, Permission!Begun, Permission!At
      <4> QED BY <3>1, <4>2, PermissionPlaces DEF Permission!Alone, Permission!Begun
    <3>3. /\ disk'.tree = disk.tree
          /\ Permission!ManifestOf(d)' = Permission!ManifestOf(d)
      BY <2>2, <3>1, <3>2, PermissionOthers
    <3>4. There(d)' = There(d) /\ Recorded(d)' = Recorded(d)
      BY <3>1, PermissionKnows
    <3>5. PermissionFits(d)
      BY <1>3, <3>1, <3>2
    <3> QED
      BY <3>1, <3>3, <3>4, <3>5 DEF PermissionFits, SeenKept, MadeReached, RestoredBut
  <2> QED BY <2>1, <2>2
<1> QED BY <1>1, <1>2, <1>3

LEMMA PermissionInit == ASSUME Permission!Init, Works("permissions") PROVE PermissionInv
<1>1. PICK tree \in [Directories -> Permission!Nodes] :
          /\ \A p \in Directories : tree[p] # "missing" /\ DirectoryOf[p] \in Directories =>
                                       tree[DirectoryOf[p]] # "missing"
          /\ disk = [tree |-> tree, manifest |-> [t \in Permission!Stamps |-> NoFile]]
          /\ mem = [c \in Calls |-> [found |-> tree, entries |-> Permission!Nothing,
                                     todo |-> {}, skipped |-> FALSE]]
  BY DEF Permission!Init
<1>2. /\ pc = [c \in Calls |-> <<"permissions", "start">>]
      /\ report = [c \in Calls |-> "none"] /\ mixed = {}
  BY DEF Permission!Init, Permission!CallsInit
<1>3. Permission!TypeOK
  <2>1. Permission!Nothing \in [Directories -> Permission!Nodes]
    BY DEF Permission!Nothing, Permission!Nodes
  <2> QED BY <1>1, <1>2, <2>1
    DEF Permission!TypeOK, Permission!Places, Permission!Labels, Permission!Reports
<1>4. Filled(tree)
  BY <1>1 DEF Filled
<1>5. ASSUME NEW c \in Calls
      PROVE  report[c] = "none" /\ mem[c].found = tree /\ ~ Permission!Alone(c)
  BY <1>1, <1>2 DEF Permission!Alone, Permission!Begun, Permission!At
<1> QED BY <1>1, <1>3, <1>4, <1>5 DEF PermissionInv

LEMMA PermissionStutters == ASSUME PermissionInv, UNCHANGED vars PROVE PermissionInv'
<1>1. Permission!TypeOK'
  BY DEF PermissionInv, vars, Permission!TypeOK
<1>2. ASSUME NEW c \in Calls
      PROVE  /\ Place(c)' = Place(c) /\ Permission!Alone(c)' = Permission!Alone(c)
             /\ PermissionFits(c)' = PermissionFits(c)
  BY DEF vars, Permission!Alone, Permission!Begun, Permission!At, PermissionFits, Place,
         Permission!ManifestOf, There, Recorded, SeenKept, MadeReached, RestoredBut
<1> QED BY <1>1, <1>2 DEF PermissionInv, vars

LEMMA PermissionHolds == Spec => [](Works("permissions") => PermissionInv)
<1>1. Init => (Works("permissions") => PermissionInv)
  BY InitWorks, WorksAlone, PermissionInit
<1>2. ASSUME OneWorks, Works("permissions") => PermissionInv, [Next]_vars,
             Works("permissions")'
      PROVE  PermissionInv'
  <2>1. Works("permissions")
    BY <1>2, WorksOn DEF OneWorks
  <2>2. CASE Next
    BY <1>2, <2>1, <2>2, OneExecutor, PermissionStep DEF Permission!Next
  <2> QED BY <1>2, <2>1, <2>2, PermissionStutters
<1> QED BY <1>1, <1>2, OneExecutorWorks, PTL DEF Spec

\* permissions.Run: for any tree, policy and number of calls, a mode that an undisturbed
\* call has changed is in its manifest, and a call that succeeded leaves every directory
\* of the policy as the policy wants it.
THEOREM ModesAccountedFor == Spec => []ModesAreAccountedFor
<1>1. ASSUME PermissionInv, NEW c \in Calls, Permission!Alone(c), Permission!Inspected(c)
      PROVE  /\ \A p \in Permission!SeenThere(c) : disk.tree[p] # mem[c].found[p] =>
                   /\ Permission!ManifestOf(c) \notin {Torn, NoFile}
                   /\ Permission!ManifestOf(c)[p] = mem[c].found[p]
             /\ report[c] = "succeeded" => Permission!Matches(disk.tree)
  <2>1. PermissionFits(c) /\ Permission!TypeOK
    BY <1>1 DEF PermissionInv, Permission!Inspected
  <2>2. ASSUME NEW p \in Permission!SeenThere(c), disk.tree[p] # mem[c].found[p]
        PROVE  /\ Permission!ManifestOf(c) \notin {Torn, NoFile}
               /\ Permission!ManifestOf(c)[p] = mem[c].found[p]
    <3>1. p \in There(c)
      BY PolicyIsBelowRoot DEF Permission!SeenThere, There
    <3>2. /\ Permission!ManifestOf(c) = Recorded(c)
          /\ p \in Permission!Operations(mem[c].found) /\ p \in Directories
      BY <2>1, <2>2, <3>1 DEF PermissionFits, SeenKept, There
    <3>3. Recorded(c) \in [Directories -> Permission!Nodes]
      BY <2>1 DEF Recorded, Permission!TypeOK, Permission!Nodes
    <3>4. Recorded(c) \notin {Torn, NoFile}
      BY <3>3, ManifestAssumption DEF ManifestAssumption
    <3> QED BY <3>1, <3>2, <3>4 DEF Recorded
  <2> QED BY <2>1, <2>2 DEF PermissionFits
<1>2. OneWorks /\ (Works("permissions") => PermissionInv) => ModesAreAccountedFor
  <2>1. ASSUME PermissionInv PROVE Permission!ModesAreAccountedFor
    BY <1>1, <2>1 DEF Permission!ModesAreAccountedFor
  <2> QED BY <2>1, RunsWorks DEF ModesAreAccountedFor
<1> QED BY <1>2, OneExecutorWorks, PermissionHolds, PTL

\* permissions.Run: a failed call whose rollback the system let through has given the
\* directories it saw the modes they had, and has left of those it made only what holds a
\* directory that the policy does not name.
THEOREM FailureRestores == Spec => []FailureRestoresWhatWasSeen
<1>1. ASSUME PermissionInv, NEW c \in Calls, Permission!Alone(c), report[c] = "failed",
             ~ mem[c].skipped
      PROVE  /\ \A p \in Permission!SeenThere(c) : disk.tree[p] = mem[c].found[p]
             /\ \A p \in Permission!Expected :
                   mem[c].found[p] = "missing" /\ disk.tree[p] # "missing" =>
                      \E q \in Directories \ Permission!Expected :
                          p \in Permission!Over[q] /\ disk.tree[q] # "missing"
  <2>1. PermissionFits(c)
    BY <1>1 DEF PermissionInv
  <2>2. RestoredBut(c, disk.tree, {})
    BY <1>1, <2>1 DEF PermissionFits
  <2>3. Permission!SeenThere(c) \subseteq There(c)
    BY PolicyIsBelowRoot DEF Permission!SeenThere, There
  <2> QED BY <2>2, <2>3 DEF RestoredBut
<1>2. OneWorks /\ (Works("permissions") => PermissionInv) => FailureRestoresWhatWasSeen
  <2>1. ASSUME PermissionInv PROVE Permission!FailureRestoresWhatWasSeen
    BY <1>1, <2>1 DEF Permission!FailureRestoresWhatWasSeen
  <2> QED BY <2>1, RunsWorks DEF FailureRestoresWhatWasSeen
<1> QED BY <1>2, OneExecutorWorks, PermissionHolds, PTL

-----------------------------------------------------------------------------
(* readinessresolve: the permission-drift lane                             *)

\* What is there is in a directory.
Standing(tree) ==
    \A p \in TargetPaths :
        tree[p] # "missing" /\ TargetParent[p] \in TargetPaths => tree[TargetParent[p]] # "missing"

Covered(changes) == {changes[i].path : i \in DOMAIN changes}

\* MadeAbove, of the tree that was found.
MadeOver(found, p) ==
    /\ found[p] = "missing"
    /\ \E i \in DOMAIN Targets :
          /\ Targets[i] \notin TargetFiles /\ p \in Readiness!Over[Targets[i]]
          /\ \A j \in 1 .. i : Targets[j] # p

\* The first change of a path says what was found there, unless a directory was made above
\* a target; what was missing before a change was missing when the call began.
Truthful(found, changes) ==
    \A i \in 1 .. Len(changes) :
        LET path == changes[i].path
            before == changes[i].before
        IN  /\ before = "missing" => found[path] = "missing"
            /\ \/ \E j \in 1 .. i - 1 : changes[j].path = path
               \/ before = found[path]
               \/ MadeOver(found, path)

\* Apart from these paths nothing differs from what was found, but for the directories
\* made above a target.
KeptBut(found, tree, set) ==
    \A p \in TargetPaths : p \in set \/ tree[p] = found[p] \/ MadeOver(found, p)

\* The targets before the next one are right, and what has gone missing is there again.
RepairedSoFar(found, tree, next) ==
    /\ \A j \in 1 .. next - 1 : tree[Targets[j]] = "right"
    /\ \A p \in TargetPaths : tree[p] = "missing" => found[p] = "missing"

\* All that has changed is among the changes, and every target before the next one too.
AccountedFor(found, tree, changes, next) ==
    /\ Truthful(found, changes) /\ KeptBut(found, tree, Covered(changes))
    /\ \A j \in 1 .. next - 1 : Targets[j] \in Covered(changes)
    /\ RepairedSoFar(found, tree, next)

\* Until the rollback all that has changed is among the changes; the rollback has put back
\* whatever is not left among them.
ReadinessFits(c) ==
    LET found == mem[c].found
        changes == mem[c].changes
        OnRecord == \/ Place(c) \in {"verify", "restart", "verify again"}
                    \/ report[c] = "resolved"
    IN  /\ Place(c) \in {"repair", "listing"} \/ OnRecord =>
              ~ mem[c].failed /\ AccountedFor(found, disk.tree, changes, mem[c].next)
        /\ Place(c) = "listing" \/ OnRecord => mem[c].next = Len(Targets) + 1
        /\ OnRecord => Readiness!ManifestOf(c) = changes
        /\ Place(c) = "undo" =>
              /\ Truthful(found, changes)
              /\ ~ mem[c].failed => KeptBut(found, disk.tree, Covered(changes))
        /\ report[c] = "rolled_back" => KeptBut(found, disk.tree, {})

ReadinessInv ==
    /\ Readiness!TypeOK
    /\ Standing(disk.tree)
    /\ \A c \in Calls :
          /\ Standing(mem[c].found)
          /\ Place(c) = "start" =>
                mem[c].next = 1 /\ mem[c].changes = <<>> /\ ~ mem[c].failed
          /\ Place(c) # "done" => report[c] = "none"
          /\ Readiness!Alone(c) => ReadinessFits(c)

LEMMA ReadinessPlaces ==
    ASSUME Readiness!TypeOK, NEW c \in Calls
    PROVE  /\ Works("readiness")
           /\ \A l : Readiness!At(c, l) <=> Place(c) = l
           /\ \A labels : Readiness!Among(c, labels) <=> Place(c) \in labels
           /\ \A l : Readiness!Goto(c, l) =>
                 Place(c)' = l /\ \A d \in Calls \ {c} : Place(d)' = Place(d)
           /\ Place(c) \in Readiness!Labels
<1>1. Works("readiness") /\ Place(c) \in Readiness!Labels
  BY DEF Readiness!TypeOK, Readiness!Places, Works, Place
<1> QED
  BY <1>1, Placing DEF Readiness!At, Readiness!Among, Readiness!Places, Readiness!Goto

LEMMA MadeAboveIs ==
    ASSUME NEW c, NEW p PROVE Readiness!MadeAbove(c, p) <=> MadeOver(mem[c].found, p)
  BY DEF Readiness!MadeAbove, MadeOver

LEMMA ReadinessOver == Readiness!Over = Above(TargetPaths, TargetParent)
  BY DEF Readiness!Over, Readiness!Above, Readiness!Rises, Above, Rises

\* The parent that a repair opens is the target of no other one.
LEMMA TargetsAre ==
    /\ Targets \in Seq(TargetPaths)
    /\ \A p \in TargetPaths : Readiness!NeedsParent(p) =>
          TargetParent[p] \in TargetPaths /\ TargetParent[p] \notin Readiness!Declared
<1>1. Targets \in Seq(TargetPaths) /\ \A p \in TargetPaths : TargetParent[p] \notin TargetFiles
  BY LocalExecutorsAssumption DEF LocalExecutorsAssumption
<1> QED BY <1>1 DEF Readiness!NeedsParent, Readiness!Declared

LEMMA OverTarget ==
    ASSUME NEW p \in TargetPaths
    PROVE  /\ Readiness!Over[p] \subseteq TargetPaths
           /\ TargetParent[p] \in TargetPaths => TargetParent[p] \in Readiness!Over[p]
           /\ \A q \in Readiness!Over[p] :
                 TargetParent[q] \in TargetPaths => TargetParent[q] \in Readiness!Over[p]
  BY ReadinessOver, AboveRises, AboveAbove

\* Below what was missing everything was.
LEMMA StandingBelow ==
    ASSUME NEW tree, Standing(tree), NEW p \in TargetPaths, tree[p] = "missing",
           NEW q \in TargetPaths, p \in Readiness!Over[q]
    PROVE  tree[q] = "missing"
<1> DEFINE there == {r \in TargetPaths : tree[r] # "missing"}
<1>1. Rises(TargetPaths, TargetParent, there)
  BY DEF Rises, Standing
<1> QED BY <1>1, AboveIsThere, ReadinessOver

-----------------------------------------------------------------------------
\* One change more.
LEMMA TruthfulAppend ==
    ASSUME NEW found, NEW changes \in Seq(Readiness!Changes), NEW change \in Readiness!Changes,
           Truthful(found, changes),
           change.before = "missing" => found[change.path] = "missing",
           \/ change.path \in Covered(changes)
           \/ change.before = found[change.path]
           \/ MadeOver(found, change.path)
    PROVE  /\ changes \o <<change>> \in Seq(Readiness!Changes)
           /\ Truthful(found, changes \o <<change>>)
           /\ Covered(changes \o <<change>>) = Covered(changes) \cup {change.path}
<1> DEFINE n == Len(changes)
           more == changes \o <<change>>
<1>1. /\ more \in Seq(Readiness!Changes) /\ Len(more) = n + 1 /\ n \in Nat
      /\ \A i \in 1 .. n : more[i] = changes[i]
      /\ more[n + 1] = change
  <2>1. <<change>> \in Seq(Readiness!Changes) /\ Len(<<change>>) = 1 /\ <<change>>[1] = change
    OBVIOUS
  <2>2. \A i \in 1 .. n + 1 : more[i] = IF i <= n THEN changes[i] ELSE <<change>>[i - n]
    BY <2>1, ConcatProperties
  <2>3. more \in Seq(Readiness!Changes) /\ Len(more) = n + 1
    BY <2>1, ConcatProperties
  <2>4. more[n + 1] = <<change>>[n + 1 - n]
    BY <2>2
  <2> QED BY <2>1, <2>2, <2>3, <2>4
<1> HIDE DEF more
<1>2. DOMAIN changes = 1 .. n /\ DOMAIN more = 1 .. n + 1
  BY <1>1
<1>3. Covered(more) = Covered(changes) \cup {change.path}
  BY <1>1, <1>2 DEF Covered
<1>4. ASSUME NEW i \in 1 .. n + 1
      PROVE  /\ more[i].before = "missing" => found[more[i].path] = "missing"
             /\ \/ \E j \in 1 .. i - 1 : more[j].path = more[i].path
                \/ more[i].before = found[more[i].path]
                \/ MadeOver(found, more[i].path)
  <2>1. CASE i = n + 1
    <3>1. change.path \in Covered(changes) =>
             \E j \in 1 .. n : more[j].path = change.path
      BY <1>1, <1>2 DEF Covered
    <3> QED BY <1>1, <2>1, <3>1
  <2>2. CASE i \in 1 .. n
    BY <1>1, <2>2 DEF Truthful
  <2> QED BY <1>1, <2>1, <2>2
<1> QED BY <1>1, <1>3, <1>4 DEF Truthful, more

\* One change less.
LEMMA FrontOf ==
    ASSUME NEW S, NEW s \in Seq(S), s # <<>>
    PROVE  /\ Readiness!Front(s) \in Seq(S) /\ Len(Readiness!Front(s)) = Len(s) - 1
           /\ \A i \in 1 .. Len(s) - 1 : Readiness!Front(s)[i] = s[i]
           /\ Len(s) \in Nat \ {0} /\ Readiness!Last(s) = s[Len(s)] /\ s[Len(s)] \in S
<1>1. Len(s) \in Nat \ {0} /\ \A i \in 1 .. Len(s) : s[i] \in S
  OBVIOUS
<1>2. \A i \in 1 .. Len(s) - 1 : s[i] \in S
  BY <1>1
<1>3. /\ SubSeq(s, 1, Len(s) - 1) \in Seq(S)
      /\ Len(SubSeq(s, 1, Len(s) - 1)) = Len(s) - 1
      /\ \A i \in 1 .. Len(s) - 1 : SubSeq(s, 1, Len(s) - 1)[i] = s[i]
  <2> DEFINE m == Len(s) - 1
             front == SubSeq(s, 1, m)
  <2>1. m \in Int /\ 1 \in Int /\ 0 <= m /\ m - 1 + 1 = m
    BY <1>1
  <2> HIDE DEF m
  <2>2. /\ front \in Seq(S)
        /\ Len(front) = IF 1 <= m THEN m - 1 + 1 ELSE 0
        /\ \A i \in 1 .. m - 1 + 1 : front[i] = s[1 + i - 1]
    <3>1. \A i \in 1 .. m : s[i] \in S
      BY <1>2 DEF m
    <3> QED BY <2>1, <3>1, SubSeqProperties
  <2>3. Len(front) = m
    BY <2>1, <2>2
  <2>4. \A i \in 1 .. m : front[i] = s[i]
    BY <2>1, <2>2
  <2> QED BY <2>2, <2>3, <2>4 DEF m
<1> QED BY <1>1, <1>3 DEF Readiness!Front, Readiness!Last

LEMMA TruthfulFront ==
    ASSUME NEW found, NEW changes \in Seq(Readiness!Changes), changes # <<>>,
           Truthful(found, changes)
    PROVE  /\ Truthful(found, Readiness!Front(changes))
           /\ Covered(changes) = Covered(Readiness!Front(changes))
                                     \cup {Readiness!Last(changes).path}
           /\ Readiness!Last(changes) \in Readiness!Changes
           /\ LET change == Readiness!Last(changes)
              IN  /\ change.before = "missing" => found[change.path] = "missing"
                  /\ \/ change.path \in Covered(Readiness!Front(changes))
                     \/ change.before = found[change.path]
                     \/ MadeOver(found, change.path)
<1> DEFINE n == Len(changes)
           less == Readiness!Front(changes)
<1>1. /\ less \in Seq(Readiness!Changes) /\ Len(less) = n - 1 /\ n \in Nat \ {0}
      /\ \A i \in 1 .. n - 1 : less[i] = changes[i]
      /\ Readiness!Last(changes) = changes[n] /\ changes[n] \in Readiness!Changes
  BY FrontOf
<1> HIDE DEF less
<1>2. DOMAIN changes = 1 .. n /\ DOMAIN less = 1 .. n - 1
  BY <1>1
<1>3. Covered(changes) = Covered(less) \cup {changes[n].path}
  BY <1>1, <1>2 DEF Covered
<1>4. Truthful(found, less)
  <2>1. ASSUME NEW i \in 1 .. n - 1
        PROVE  /\ less[i].before = "missing" => found[less[i].path] = "missing"
               /\ \/ \E j \in 1 .. i - 1 : less[j].path = less[i].path
                  \/ less[i].before = found[less[i].path]
                  \/ MadeOver(found, less[i].path)
    <3>1. i \in 1 .. Len(changes) /\ \A j \in 1 .. i - 1 : j \in 1 .. n - 1
      BY <1>1
    <3> QED BY <1>1, <3>1 DEF Truthful
  <2> QED BY <1>1, <2>1 DEF Truthful
<1>5. /\ changes[n].before = "missing" => found[changes[n].path] = "missing"
      /\ \/ \E j \in 1 .. n - 1 : changes[j].path = changes[n].path
         \/ changes[n].before = found[changes[n].path]
         \/ MadeOver(found, changes[n].path)
  <2>1. n \in 1 .. Len(changes)
    BY <1>1
  <2> QED BY <2>1 DEF Truthful
<1>6. (\E j \in 1 .. n - 1 : changes[j].path = changes[n].path) =>
         changes[n].path \in Covered(less)
  BY <1>1, <1>2 DEF Covered
<1> QED BY <1>1, <1>3, <1>4, <1>5, <1>6 DEF less

-----------------------------------------------------------------------------
\* The trees that a repair and a rollback make.
LEMMA ParentOpened ==
    ASSUME NEW c, NEW tree \in [TargetPaths -> Readiness!Nodes], Standing(tree),
           NEW p \in TargetPaths, Readiness!ParentRepairable(c, tree, p)
    PROVE  LET opened == Readiness!WithParent(tree, p)
           IN  /\ opened \in [TargetPaths -> Readiness!Nodes] /\ Standing(opened)
               /\ \A q \in TargetPaths :
                     opened[q] = IF Readiness!NeedsParent(p) /\ q = TargetParent[p] THEN "search"
                                 ELSE tree[q]
               /\ \A q \in TargetPaths : opened[q] = "missing" <=> tree[q] = "missing"
<1> DEFINE opened == Readiness!WithParent(tree, p)
<1>1. Readiness!NeedsParent(p) =>
         TargetParent[p] \in TargetPaths /\ tree[TargetParent[p]] # "missing"
  BY TargetsAre DEF Readiness!ParentRepairable
<1>2. \A q \in TargetPaths :
          opened[q] = IF Readiness!NeedsParent(p) /\ q = TargetParent[p] THEN "search" ELSE tree[q]
  BY <1>1 DEF Readiness!WithParent
<1>3. opened \in [TargetPaths -> Readiness!Nodes]
  BY DEF Readiness!WithParent, Readiness!Nodes
<1> HIDE DEF opened
<1>4. \A q \in TargetPaths : opened[q] = "missing" <=> tree[q] = "missing"
  BY <1>1, <1>2
<1>5. Standing(opened)
  BY <1>4 DEF Standing
<1> QED BY <1>2, <1>3, <1>4, <1>5 DEF opened

LEMMA PathMade ==
    ASSUME NEW c, NEW tree \in [TargetPaths -> Readiness!Nodes], Standing(tree),
           NEW p \in TargetPaths, Readiness!Repairable(c, tree, p)
    PROVE  LET made == Readiness!WithPath(Readiness!WithParent(tree, p), p)
           IN  /\ made \in [TargetPaths -> Readiness!Nodes] /\ Standing(made) /\ made[p] # "missing"
               /\ \A q \in TargetPaths \ {p} :
                     made[q] = IF Readiness!NeedsParent(p) /\ q = TargetParent[p] THEN "search"
                               ELSE IF tree[q] # "missing" THEN tree[q]
                               ELSE IF p \notin TargetFiles /\ q \in Readiness!Over[p]
                               THEN "drifted" ELSE "missing"
<1> DEFINE opened == Readiness!WithParent(tree, p)
           made == Readiness!WithPath(opened, p)
<1>1. /\ opened \in [TargetPaths -> Readiness!Nodes] /\ Standing(opened)
      /\ \A q \in TargetPaths :
            opened[q] = IF Readiness!NeedsParent(p) /\ q = TargetParent[p] THEN "search"
                        ELSE tree[q]
      /\ \A q \in TargetPaths : opened[q] = "missing" <=> tree[q] = "missing"
  BY ParentOpened DEF Readiness!Repairable
<1> HIDE DEF opened
<1>2. \A q \in TargetPaths :
          made[q] = IF opened[q] # "missing" THEN opened[q]
                    ELSE IF q = p \/ (p \notin TargetFiles /\ q \in Readiness!Over[p])
                    THEN "drifted" ELSE "missing"
  BY DEF Readiness!WithPath
<1>3. made \in [TargetPaths -> Readiness!Nodes]
  BY <1>1 DEF Readiness!WithPath, Readiness!Nodes
<1> HIDE DEF made
<1>4. \A q \in TargetPaths :
          made[q] = "missing" <=>
             /\ tree[q] = "missing" /\ q # p
             /\ p \in TargetFiles \/ q \notin Readiness!Over[p]
  BY <1>1, <1>2
<1>5. ASSUME NEW q \in TargetPaths, made[q] # "missing", TargetParent[q] \in TargetPaths
      PROVE  made[TargetParent[q]] # "missing"
  <2>1. CASE tree[q] # "missing"
    <3>1. tree[TargetParent[q]] # "missing"
      BY <1>5, <2>1 DEF Standing
    <3> QED BY <1>4, <1>5, <3>1
  <2>2. CASE tree[q] = "missing" /\ p \in TargetFiles
    <3>1. q = p
      BY <1>4, <1>5, <2>2
    <3>2. tree[TargetParent[q]] # "missing"
      BY <1>5, <2>2, <3>1 DEF Readiness!Repairable
    <3> QED BY <1>4, <1>5, <3>2
  <2>3. CASE tree[q] = "missing" /\ p \notin TargetFiles
    <3>1. q = p \/ q \in Readiness!Over[p]
      BY <1>4, <1>5, <2>3
    <3>2. TargetParent[q] \in Readiness!Over[p]
      BY <1>5, <3>1, OverTarget
    <3> QED BY <1>4, <1>5, <2>3, <3>2
  <2> QED BY <2>1, <2>2, <2>3
<1>6. Standing(made)
  BY <1>5 DEF Standing
<1>7. \A q \in TargetPaths \ {p} :
          made[q] = IF Readiness!NeedsParent(p) /\ q = TargetParent[p] THEN "search"
                    ELSE IF tree[q] # "missing" THEN tree[q]
                    ELSE IF p \notin TargetFiles /\ q \in Readiness!Over[p]
                    THEN "drifted" ELSE "missing"
  <2> SUFFICES ASSUME NEW q \in TargetPaths \ {p}
               PROVE  made[q] = IF Readiness!NeedsParent(p) /\ q = TargetParent[p] THEN "search"
                                ELSE IF tree[q] # "missing" THEN tree[q]
                                ELSE IF p \notin TargetFiles /\ q \in Readiness!Over[p]
                                THEN "drifted" ELSE "missing"
    OBVIOUS
  <2> QED BY <1>1, <1>2
<1> QED BY <1>3, <1>4, <1>6, <1>7 DEF made, opened

LEMMA PathRepaired ==
    ASSUME NEW c, NEW tree \in [TargetPaths -> Readiness!Nodes], Standing(tree),
           NEW p \in TargetPaths, Readiness!Repairable(c, tree, p)
    PROVE  LET repaired == Readiness!Repaired(tree, p)
           IN  /\ repaired \in [TargetPaths -> Readiness!Nodes] /\ Standing(repaired)
               /\ repaired[p] = "right"
               /\ \A q \in TargetPaths \ {p} :
                     repaired[q] = IF Readiness!NeedsParent(p) /\ q = TargetParent[p] THEN "search"
                                   ELSE IF tree[q] # "missing" THEN tree[q]
                                   ELSE IF p \notin TargetFiles /\ q \in Readiness!Over[p]
                                   THEN "drifted" ELSE "missing"
<1> DEFINE made == Readiness!WithPath(Readiness!WithParent(tree, p), p)
           repaired == Readiness!Repaired(tree, p)
<1>1. /\ made \in [TargetPaths -> Readiness!Nodes] /\ Standing(made) /\ made[p] # "missing"
      /\ \A q \in TargetPaths \ {p} :
            made[q] = IF Readiness!NeedsParent(p) /\ q = TargetParent[p] THEN "search"
                      ELSE IF tree[q] # "missing" THEN tree[q]
                      ELSE IF p \notin TargetFiles /\ q \in Readiness!Over[p]
                      THEN "drifted" ELSE "missing"
  BY PathMade
<1>2. repaired = [made EXCEPT ![p] = "right"]
  BY DEF Readiness!Repaired
<1> HIDE DEF made, repaired
<1>3. /\ repaired \in [TargetPaths -> Readiness!Nodes] /\ repaired[p] = "right"
      /\ \A q \in TargetPaths \ {p} : repaired[q] = made[q]
  BY <1>1, <1>2 DEF Readiness!Nodes
<1>4. Standing(repaired)
  BY <1>1, <1>3 DEF Standing
<1> QED BY <1>1, <1>3, <1>4 DEF repaired

LEMMA PathReversed ==
    ASSUME NEW c, NEW tree \in [TargetPaths -> Readiness!Nodes], Standing(tree),
           NEW change \in Readiness!Changes, Readiness!Reversible(c, tree, change)
    PROVE  LET reversed == Readiness!Reversed(tree, change)
           IN  /\ reversed \in [TargetPaths -> Readiness!Nodes] /\ Standing(reversed)
               /\ reversed[change.path] = change.before
               /\ \A q \in TargetPaths \ {change.path} :
                     \/ reversed[q] = tree[q]
                     \/ /\ reversed[q] = "missing" /\ change.before = "missing"
                        /\ change.path \in Readiness!Over[q]
<1> DEFINE reversed == Readiness!Reversed(tree, change)
<1>0. change.path \in TargetPaths /\ change.before \in Readiness!Nodes
  BY DEF Readiness!Changes
<1>1. CASE change.before = "missing"
  <2>1. reversed = [q \in TargetPaths |-> IF q = change.path \/ change.path \in Readiness!Over[q]
                                    THEN "missing" ELSE tree[q]]
    BY <1>1 DEF Readiness!Reversed
  <2>2. reversed \in [TargetPaths -> Readiness!Nodes]
    BY <2>1 DEF Readiness!Nodes
  <2>3. ASSUME NEW q \in TargetPaths, reversed[q] # "missing", TargetParent[q] \in TargetPaths
        PROVE  reversed[TargetParent[q]] # "missing"
    <3>1. /\ tree[q] # "missing" /\ q # change.path
          /\ change.path \notin Readiness!Over[q]
      BY <2>1, <2>3
    <3>2. tree[TargetParent[q]] # "missing"
      BY <2>3, <3>1 DEF Standing
    <3>3. /\ TargetParent[q] \in Readiness!Over[q]
          /\ Readiness!Over[TargetParent[q]] \subseteq Readiness!Over[q]
      BY <2>3, OverTarget, AboveAbove, ReadinessOver
    <3> QED BY <2>1, <2>3, <3>1, <3>2, <3>3
  <2>4. Standing(reversed)
    BY <2>3 DEF Standing
  <2> QED BY <1>0, <1>1, <2>1, <2>2, <2>4
<1>2. CASE change.before # "missing"
  <2>1. /\ reversed = [tree EXCEPT ![change.path] = change.before]
        /\ tree[change.path] # "missing"
    BY <1>2 DEF Readiness!Reversed, Readiness!Reversible
  <2>2. reversed \in [TargetPaths -> Readiness!Nodes]
    BY <1>0, <2>1
  <2>3. Standing(reversed)
    BY <1>0, <1>2, <2>1 DEF Standing
  <2> QED BY <1>0, <1>2, <2>1, <2>2, <2>3
<1> QED BY <1>1, <1>2

LEMMA ReadinessSetsTree ==
    ASSUME Readiness!TypeOK, NEW c \in Calls, NEW tree, Readiness!SetTree(c, tree)
    PROVE  /\ disk' = [tree |-> tree, manifest |-> disk.manifest]
           /\ \A d \in Calls \ {c} : ~ Readiness!At(d, "start") =>
                 d \in mixed' \/ disk'.tree = disk.tree
           /\ mixed \subseteq mixed' /\ mixed' \subseteq Calls
<1>1. disk' = [tree |-> tree, manifest |-> disk.manifest]
  BY DEF Readiness!SetTree, Readiness!TypeOK
<1>2. \/ tree = disk.tree /\ mixed' = mixed
      \/ mixed' = mixed \cup {d \in Calls \ {c} : ~ Readiness!At(d, "start")}
  BY DEF Readiness!SetTree, Readiness!Mix, Readiness!Begun
<1> QED BY <1>1, <1>2 DEF Readiness!TypeOK

ReadinessEntries == {Torn, NoFile} \cup Seq(Readiness!Changes)

LEMMA ReadinessSetsManifest ==
    ASSUME Readiness!TypeOK, NEW c \in Calls, NEW entry \in ReadinessEntries,
           Readiness!SetManifest(c, entry)
    PROVE  /\ disk' = [tree |-> disk.tree,
                       manifest |-> [disk.manifest EXCEPT ![StampOf[c]] = entry]]
           /\ Readiness!ManifestOf(c)' = entry
           /\ \A d \in Calls \ {c} : ~ Readiness!At(d, "start") =>
                 d \in mixed' \/ Readiness!ManifestOf(d)' = Readiness!ManifestOf(d)
           /\ mixed \subseteq mixed' /\ mixed' \subseteq Calls
<1> USE DEF Readiness!TypeOK
<1>1. \A d \in Calls : StampOf[d] \in Readiness!Stamps
  BY DEF Readiness!Stamps
<1>2. /\ disk' = [tree |-> disk.tree,
                  manifest |-> [disk.manifest EXCEPT ![StampOf[c]] = entry]]
      /\ mixed' = mixed \cup {d \in Readiness!Sharing(c) \ {c} : ~ Readiness!At(d, "start")}
  BY DEF Readiness!SetManifest, Readiness!Mix, Readiness!Begun
<1> QED BY <1>1, <1>2 DEF Readiness!ManifestOf, Readiness!Sharing

-----------------------------------------------------------------------------
\* What a repair puts on record.
LEMMA ReadinessRecords ==
    ASSUME NEW found, NEW changes \in Seq(Readiness!Changes),
           NEW tree \in [TargetPaths -> Readiness!Nodes], NEW p \in TargetPaths
    PROVE  /\ changes \o Readiness!ChangesFor(tree, p) \in Seq(Readiness!Changes)
           /\ (Truthful(found, changes) /\ KeptBut(found, tree, Covered(changes))
                  /\ RepairedSoFar(found, tree, 1)) =>
                 /\ Truthful(found, changes \o Readiness!ChangesFor(tree, p))
                 /\ Covered(changes \o Readiness!ChangesFor(tree, p)) =
                       Covered(changes) \cup {p} \cup
                          (IF Readiness!NeedsParent(p) THEN {TargetParent[p]} ELSE {})
<1> DEFINE own == [path |-> p, before |-> tree[p]]
           above == [path |-> TargetParent[p], before |-> tree[TargetParent[p]]]
<1>1. own \in Readiness!Changes /\ own.path = p /\ own.before = tree[p]
  BY DEF Readiness!Changes
<1>2. Readiness!NeedsParent(p) =>
         /\ above \in Readiness!Changes
         /\ above.path = TargetParent[p] /\ TargetParent[p] \in TargetPaths
         /\ above.before = tree[TargetParent[p]]
  BY TargetsAre DEF Readiness!Changes
<1> HIDE DEF own, above
<1>3. <<own>> \in Seq(Readiness!Changes)
  BY <1>1
<1>4. /\ ~ Readiness!NeedsParent(p) =>
            changes \o Readiness!ChangesFor(tree, p) = changes \o <<own>>
      /\ Readiness!NeedsParent(p) =>
            /\ changes \o Readiness!ChangesFor(tree, p) = (changes \o <<above>>) \o <<own>>
            /\ changes \o <<above>> \in Seq(Readiness!Changes)
  <2>1. CASE ~ Readiness!NeedsParent(p)
    <3>1. Readiness!ChangesFor(tree, p) = <<>> \o <<own>>
      BY <2>1 DEF Readiness!ChangesFor, own
    <3> QED BY <1>3, <2>1, <3>1, ConcatEmptySeq
  <2>2. CASE Readiness!NeedsParent(p)
    <3>1. Readiness!ChangesFor(tree, p) = <<above>> \o <<own>>
      BY <2>2 DEF Readiness!ChangesFor, own, above
    <3>2. <<above>> \in Seq(Readiness!Changes)
      BY <1>2, <2>2
    <3> QED BY <1>3, <2>2, <3>1, <3>2, ConcatAssociative, ConcatProperties
  <2> QED BY <2>1, <2>2
<1>5. changes \o Readiness!ChangesFor(tree, p) \in Seq(Readiness!Changes)
  BY <1>3, <1>4, ConcatProperties
<1>6. ASSUME Truthful(found, changes), KeptBut(found, tree, Covered(changes)),
             RepairedSoFar(found, tree, 1)
      PROVE  /\ Truthful(found, changes \o Readiness!ChangesFor(tree, p))
             /\ Covered(changes \o Readiness!ChangesFor(tree, p)) =
                   Covered(changes) \cup {p} \cup
                      (IF Readiness!NeedsParent(p) THEN {TargetParent[p]} ELSE {})
  <2>1. \A q \in TargetPaths :
           /\ tree[q] = "missing" => found[q] = "missing"
           /\ \/ q \in Covered(changes) \/ tree[q] = found[q]
              \/ MadeOver(found, q)
    BY <1>6 DEF KeptBut, RepairedSoFar
  <2>2. CASE ~ Readiness!NeedsParent(p)
    <3>1. /\ own.before = "missing" => found[own.path] = "missing"
          /\ \/ own.path \in Covered(changes) \/ own.before = found[own.path]
             \/ MadeOver(found, own.path)
      BY <1>1, <2>1
    <3>2. /\ Truthful(found, changes \o <<own>>)
          /\ Covered(changes \o <<own>>) = Covered(changes) \cup {own.path}
      BY <1>1, <1>6, <3>1, TruthfulAppend
    <3> QED BY <1>1, <1>4, <2>2, <3>2
  <2>3. CASE Readiness!NeedsParent(p)
    <3>1. /\ Truthful(found, changes \o <<above>>)
          /\ Covered(changes \o <<above>>) = Covered(changes) \cup {TargetParent[p]}
      BY <1>2, <1>6, <2>1, <2>3, TruthfulAppend
    <3>2. /\ own.before = "missing" => found[own.path] = "missing"
          /\ \/ own.path \in Covered(changes \o <<above>>)
             \/ own.before = found[own.path] \/ MadeOver(found, own.path)
      BY <1>1, <2>1, <3>1
    <3>3. changes \o <<above>> \in Seq(Readiness!Changes)
      BY <1>4, <2>3
    <3> DEFINE first == changes \o <<above>>
    <3>4. /\ first \in Seq(Readiness!Changes) /\ Truthful(found, first)
          /\ own.before = "missing" => found[own.path] = "missing"
          /\ \/ own.path \in Covered(first) \/ own.before = found[own.path]
             \/ MadeOver(found, own.path)
      BY <3>1, <3>2, <3>3
    <3>5. changes \o Readiness!ChangesFor(tree, p) = first \o <<own>>
      BY <1>4, <2>3
    <3>6. Covered(first) = Covered(changes) \cup {TargetParent[p]}
      BY <3>1
    <3> HIDE DEF first
    <3>7. /\ Truthful(found, first \o <<own>>)
          /\ Covered(first \o <<own>>) = Covered(first) \cup {own.path}
      BY <1>1, <3>4, TruthfulAppend
    <3> QED BY <1>1, <2>3, <3>5, <3>6, <3>7
  <2> QED BY <2>2, <2>3
<1> QED BY <1>5, <1>6

ReadinessMemories ==
    [found : [TargetPaths -> Readiness!Nodes], next : 1 .. Len(Targets) + 1,
     changes : Seq(Readiness!Changes), failed : BOOLEAN]

LEMMA NextTarget ==
    ASSUME Readiness!TypeOK, NEW c \in Calls, mem[c].next <= Len(Targets)
    PROVE  /\ Targets[mem[c].next] \in TargetPaths /\ mem[c].next \in DOMAIN Targets
           /\ mem[c].next + 1 \in 1 .. Len(Targets) + 1
<1>1. mem[c].next \in 1 .. Len(Targets) + 1 /\ Len(Targets) \in Nat
  BY TargetsAre DEF Readiness!TypeOK
<1>2. mem[c].next \in 1 .. Len(Targets) /\ mem[c].next + 1 \in 1 .. Len(Targets) + 1
  BY <1>1
<1> QED BY <1>2, TargetsAre

\* What a step writes.
LEMMA ReadinessWrites ==
    ASSUME ReadinessInv, NEW c \in Calls, Readiness!Step(c)
    PROVE  \/ \E tree \in [TargetPaths -> Readiness!Nodes] :
                 Standing(tree) /\ Readiness!SetTree(c, tree)
           \/ \E entry \in ReadinessEntries : Readiness!SetManifest(c, entry)
           \/ mixed' = mixed /\ disk' = disk
<1> USE DEF ReadinessInv
<1>0. mem[c] \in ReadinessMemories /\ disk.tree \in [TargetPaths -> Readiness!Nodes]
  BY DEF Readiness!TypeOK, ReadinessMemories
<1>1. CASE Readiness!Repair(c)
  <2>1. PICK p \in TargetPaths : /\ Readiness!Repairable(c, disk.tree, p)
                                 /\ Readiness!SetTree(c, Readiness!Repaired(disk.tree, p))
    BY <1>1, NextTarget DEF Readiness!Repair
  <2> QED BY <1>0, <2>1, PathRepaired
<1>2. CASE Readiness!FailRepair(c)
  <2>1. PICK p \in TargetPaths :
            \/ Readiness!Quiet
            \/ /\ Readiness!ParentRepairable(c, disk.tree, p)
               /\ Readiness!SetTree(c, Readiness!WithParent(disk.tree, p))
            \/ /\ Readiness!Repairable(c, disk.tree, p)
               /\ Readiness!SetTree(c,
                      Readiness!WithPath(Readiness!WithParent(disk.tree, p), p))
    BY <1>2, NextTarget DEF Readiness!FailRepair
  <2>2. CASE Readiness!Quiet
    BY <2>2 DEF Readiness!Quiet
  <2>3. CASE /\ Readiness!ParentRepairable(c, disk.tree, p)
             /\ Readiness!SetTree(c, Readiness!WithParent(disk.tree, p))
    <3>1. LET opened == Readiness!WithParent(disk.tree, p)
          IN  opened \in [TargetPaths -> Readiness!Nodes] /\ Standing(opened)
      BY <1>0, <2>1, <2>3, ParentOpened
    <3> QED BY <2>3, <3>1
  <2>4. CASE /\ Readiness!Repairable(c, disk.tree, p)
             /\ Readiness!SetTree(c,
                    Readiness!WithPath(Readiness!WithParent(disk.tree, p), p))
    <3>1. LET made == Readiness!WithPath(Readiness!WithParent(disk.tree, p), p)
          IN  made \in [TargetPaths -> Readiness!Nodes] /\ Standing(made)
      BY <1>0, <2>1, <2>4, PathMade
    <3> QED BY <2>4, <3>1
  <2> QED BY <2>1, <2>2, <2>3, <2>4
<1>3. CASE Readiness!Undo(c)
  <2>1. PICK change \in Readiness!Changes :
            /\ Readiness!Reversible(c, disk.tree, change)
            /\ Readiness!SetTree(c, Readiness!Reversed(disk.tree, change))
    BY <1>0, <1>3, FrontOf DEF Readiness!Undo, ReadinessMemories
  <2> QED BY <1>0, <2>1, PathReversed
<1>4. CASE Readiness!OpenManifest(c)
  BY <1>4 DEF Readiness!OpenManifest, ReadinessEntries
<1>5. CASE Readiness!FillManifest(c)
  <2>1. mem[c].changes \in ReadinessEntries
    BY <1>0 DEF ReadinessEntries, ReadinessMemories
  <2> QED BY <1>5, <2>1 DEF Readiness!FillManifest
<1> QED
  BY <1>1, <1>2, <1>3, <1>4, <1>5
  DEF Readiness!Step, Readiness!Refuse, Readiness!Begin, Readiness!FailManifest,
      Readiness!Verify, Readiness!FailVerify, Readiness!Restart, Readiness!FailRestart,
      Readiness!FailUndo, Readiness!Undone, Readiness!Crash, Readiness!Quiet

\* What a step remembers.
LEMMA ReadinessRemembers ==
    ASSUME ReadinessInv, NEW c \in Calls, Readiness!Step(c)
    PROVE  \E m \in ReadinessMemories : /\ mem' = [mem EXCEPT ![c] = m]
                                        /\ m.found \in {mem[c].found, disk.tree}
<1> USE DEF ReadinessInv
<1>0. /\ mem[c] \in ReadinessMemories /\ mem \in [Calls -> ReadinessMemories]
      /\ disk.tree \in [TargetPaths -> Readiness!Nodes]
  BY DEF Readiness!TypeOK, ReadinessMemories
<1>1. CASE mem' = mem
  <2>1. mem' = [mem EXCEPT ![c] = mem[c]]
    BY <1>0, <1>1
  <2> QED BY <1>0, <2>1
<1>2. CASE Readiness!Begin(c)
  <2> DEFINE m == [mem[c] EXCEPT !.found = disk.tree]
  <2>1. mem' = [mem EXCEPT ![c] = m]
    BY <1>0, <1>2 DEF Readiness!Begin
  <2>2. m \in ReadinessMemories /\ m.found = disk.tree
    BY <1>0 DEF ReadinessMemories
  <2> QED BY <2>1, <2>2
<1>3. CASE Readiness!Repair(c)
  <2> DEFINE p == Targets[mem[c].next]
             changes == mem[c].changes \o Readiness!ChangesFor(disk.tree, p)
             m == [mem[c] EXCEPT !.next = mem[c].next + 1, !.changes = changes]
  <2>1. mem' = [mem EXCEPT ![c] = m]
    BY <1>0, <1>3 DEF Readiness!Repair
  <2>2. changes \in Seq(Readiness!Changes) /\ mem[c].next + 1 \in 1 .. Len(Targets) + 1
    <3>1. p \in TargetPaths /\ mem[c].next + 1 \in 1 .. Len(Targets) + 1
      BY <1>3, NextTarget DEF Readiness!Repair
    <3> QED BY <1>0, <3>1, ReadinessRecords DEF ReadinessMemories
  <2>3. m \in ReadinessMemories /\ m.found = mem[c].found
    <3> HIDE DEF changes
    <3> QED BY <1>0, <2>2 DEF ReadinessMemories
  <2> QED BY <2>1, <2>3
<1>4. CASE Readiness!Undo(c) \/ Readiness!FailUndo(c)
  <2>1. PICK failed \in BOOLEAN :
            mem' = [mem EXCEPT ![c] = [mem[c] EXCEPT !.changes = Readiness!Front(@),
                                                     !.failed = failed]]
    <3>1. CASE Readiness!Undo(c)
      <4>1. mem' = [mem EXCEPT ![c] = [mem[c] EXCEPT !.changes = Readiness!Front(@),
                                                     !.failed = mem[c].failed]]
        BY <1>0, <3>1 DEF Readiness!Undo, ReadinessMemories
      <4> QED BY <1>0, <4>1 DEF ReadinessMemories
    <3>2. CASE Readiness!FailUndo(c)
      <4>1. mem' = [mem EXCEPT ![c] = [mem[c] EXCEPT !.changes = Readiness!Front(@),
                                                     !.failed = TRUE]]
        BY <1>0, <3>2 DEF Readiness!FailUndo, ReadinessMemories
      <4> QED BY <4>1
    <3> QED BY <1>4, <3>1, <3>2
  <2> DEFINE less == Readiness!Front(mem[c].changes)
             m == [mem[c] EXCEPT !.changes = less, !.failed = failed]
  <2>2. less \in Seq(Readiness!Changes)
    BY <1>0, <1>4, FrontOf DEF Readiness!Undo, Readiness!FailUndo, ReadinessMemories
  <2>3. mem' = [mem EXCEPT ![c] = m]
    BY <1>0, <2>1
  <2>4. m \in ReadinessMemories /\ m.found = mem[c].found
    <3> HIDE DEF less
    <3> QED BY <1>0, <2>2 DEF ReadinessMemories
  <2> QED BY <2>3, <2>4
<1> QED
  BY <1>1, <1>2, <1>3, <1>4
  DEF Readiness!Step, Readiness!Refuse, Readiness!FailRepair, Readiness!OpenManifest,
      Readiness!FillManifest, Readiness!FailManifest, Readiness!Verify,
      Readiness!FailVerify, Readiness!Restart, Readiness!FailRestart,
      Readiness!Undone, Readiness!Crash

\* What a step answers, and where it goes.
LEMMA ReadinessAnswers ==
    ASSUME ReadinessInv, NEW c \in Calls, Readiness!Step(c)
    PROVE  /\ \/ report' = report
              \/ \E answer \in Readiness!Reports : /\ report' = [report EXCEPT ![c] = answer]
                                                   /\ Readiness!Goto(c, "done")
           /\ Place(c) # "done"
           /\ \/ UNCHANGED pc /\ Place(c) # "start"
              \/ \E l \in Readiness!Labels \ {"start"} : Readiness!Goto(c, l)
<1> USE DEF ReadinessInv, Readiness!Step
<1>1. \/ report' = report
      \/ \E answer \in Readiness!Reports : /\ report' = [report EXCEPT ![c] = answer]
                                           /\ Readiness!Goto(c, "done")
  BY DEF Readiness!Refuse, Readiness!Begin, Readiness!Repair, Readiness!FailRepair,
         Readiness!OpenManifest, Readiness!FillManifest, Readiness!FailManifest,
         Readiness!Verify, Readiness!FailVerify, Readiness!Restart,
         Readiness!FailRestart, Readiness!Undo, Readiness!FailUndo, Readiness!Undone,
         Readiness!Crash, Readiness!Return, Readiness!Reports
<1>2. Place(c) # "done"
  BY ReadinessPlaces
  DEF Readiness!Refuse, Readiness!Begin, Readiness!Repair, Readiness!FailRepair,
         Readiness!OpenManifest, Readiness!FillManifest, Readiness!FailManifest,
         Readiness!Verify, Readiness!FailVerify, Readiness!Restart,
         Readiness!FailRestart, Readiness!Undo, Readiness!FailUndo, Readiness!Undone,
         Readiness!Crash
<1>3. \/ UNCHANGED pc /\ Place(c) # "start"
      \/ \E l \in Readiness!Labels \ {"start"} : Readiness!Goto(c, l)
  <2>1. CASE Readiness!FailVerify(c)
    <3>1. Readiness!Goto(c, "restart") \/ Readiness!Goto(c, "undo")
      BY <2>1 DEF Readiness!FailVerify
    <3> QED BY <3>1 DEF Readiness!Labels
  <2>2. CASE Readiness!Repair(c) \/ Readiness!Undo(c) \/ Readiness!FailUndo(c)
    BY <2>2, ReadinessPlaces DEF Readiness!Repair, Readiness!Undo, Readiness!FailUndo
  <2> QED
    BY <2>1, <2>2
    DEF Readiness!Refuse, Readiness!Begin, Readiness!FailRepair,
         Readiness!OpenManifest, Readiness!FillManifest, Readiness!FailManifest,
         Readiness!Verify, Readiness!Restart, Readiness!FailRestart, Readiness!Undone,
         Readiness!Crash, Readiness!Return, Readiness!Labels
<1> QED BY <1>1, <1>2, <1>3

LEMMA ReadinessTyped ==
    ASSUME ReadinessInv, NEW c \in Calls, Readiness!Step(c)
    PROVE  /\ Readiness!TypeOK' /\ Standing(disk.tree)'
           /\ \A d \in Calls : Standing(mem[d].found)'
<1> USE DEF ReadinessInv
<1>0. disk \in [tree : [TargetPaths -> Readiness!Nodes],
                manifest : [Readiness!Stamps -> ReadinessEntries]]
  BY DEF Readiness!TypeOK, ReadinessEntries
<1>1. /\ disk' \in [tree : [TargetPaths -> Readiness!Nodes],
                    manifest : [Readiness!Stamps -> ReadinessEntries]]
      /\ mixed' \subseteq Calls /\ Standing(disk'.tree)
  <2>1. CASE \E tree \in [TargetPaths -> Readiness!Nodes] :
                Standing(tree) /\ Readiness!SetTree(c, tree)
    <3>1. PICK tree \in [TargetPaths -> Readiness!Nodes] :
              Standing(tree) /\ Readiness!SetTree(c, tree)
      BY <2>1
    <3>2. disk' = [tree |-> tree, manifest |-> disk.manifest] /\ mixed' \subseteq Calls
      BY <3>1, ReadinessSetsTree
    <3> QED BY <1>0, <3>1, <3>2
  <2>2. CASE \E entry \in ReadinessEntries : Readiness!SetManifest(c, entry)
    <3>1. PICK entry \in ReadinessEntries :
              /\ disk' = [tree |-> disk.tree,
                          manifest |-> [disk.manifest EXCEPT ![StampOf[c]] = entry]]
              /\ mixed' \subseteq Calls
      BY <2>2, ReadinessSetsManifest
    <3> QED BY <1>0, <3>1
  <2>3. CASE mixed' = mixed /\ disk' = disk
    BY <1>0, <2>3 DEF Readiness!TypeOK
  <2> QED BY <2>1, <2>2, <2>3, ReadinessWrites
<1>2. mem' \in [Calls -> ReadinessMemories] /\ \A d \in Calls : Standing(mem'[d].found)
  <2>1. PICK m \in ReadinessMemories : /\ mem' = [mem EXCEPT ![c] = m]
                                       /\ m.found \in {mem[c].found, disk.tree}
    BY ReadinessRemembers
  <2>2. mem \in [Calls -> ReadinessMemories]
    BY DEF Readiness!TypeOK, ReadinessMemories
  <2> QED BY <2>1, <2>2
<1>3. report' \in [Calls -> Readiness!Reports]
  BY ReadinessAnswers DEF Readiness!TypeOK
<1>4. pc' \in [Calls -> Readiness!Places(Readiness!Labels)]
  <2>1. \A l \in Readiness!Labels : <<"readiness", l>> \in Readiness!Places(Readiness!Labels)
    BY DEF Readiness!Places
  <2>2. pc \in [Calls -> Readiness!Places(Readiness!Labels)]
    BY DEF Readiness!TypeOK
  <2>3. UNCHANGED pc \/ \E l \in Readiness!Labels : Readiness!Goto(c, l)
    BY ReadinessAnswers
  <2> QED BY <2>1, <2>2, <2>3 DEF Readiness!Goto
<1>5. Readiness!TypeOK'
  BY <1>1, <1>2, <1>3, <1>4 DEF Readiness!TypeOK, ReadinessMemories, ReadinessEntries
<1> QED BY <1>1, <1>2, <1>5

LEMMA ReadinessOthers ==
    ASSUME ReadinessInv, NEW c \in Calls, Readiness!Step(c), NEW d \in Calls \ {c}
    PROVE  /\ Place(d)' = Place(d) /\ mem'[d] = mem[d] /\ report'[d] = report[d]
           /\ d \in mixed => d \in mixed'
           /\ Place(d) # "start" /\ d \notin mixed' =>
                 /\ disk'.tree = disk.tree
                 /\ Readiness!ManifestOf(d)' = Readiness!ManifestOf(d)
<1> USE DEF ReadinessInv
<1>1. Place(d)' = Place(d) /\ mem'[d] = mem[d] /\ report'[d] = report[d]
  <2>1. Place(d)' = Place(d)
    BY ReadinessAnswers, ReadinessPlaces DEF Place
  <2>2. mem'[d] = mem[d]
    <3>1. PICK m : mem' = [mem EXCEPT ![c] = m]
      BY ReadinessRemembers
    <3>2. mem \in [Calls -> ReadinessMemories]
      BY DEF Readiness!TypeOK, ReadinessMemories
    <3> QED BY <3>1, <3>2
  <2>3. report'[d] = report[d]
    <3>1. report' = report \/ \E answer : report' = [report EXCEPT ![c] = answer]
      BY ReadinessAnswers
    <3>2. report \in [Calls -> Readiness!Reports]
      BY DEF Readiness!TypeOK
    <3> QED BY <3>1, <3>2
  <2> QED BY <2>1, <2>2, <2>3
<1>2. CASE \E tree : Readiness!SetTree(c, tree)
  <2>1. PICK tree : Readiness!SetTree(c, tree)
    BY <1>2
  <2> QED BY <1>1, <2>1, ReadinessSetsTree, ReadinessPlaces DEF Readiness!ManifestOf
<1>3. CASE \E entry \in ReadinessEntries : Readiness!SetManifest(c, entry)
  BY <1>1, <1>3, ReadinessSetsManifest, ReadinessPlaces
<1>4. CASE mixed' = mixed /\ disk' = disk
  BY <1>1, <1>4 DEF Readiness!ManifestOf
<1> QED BY <1>2, <1>3, <1>4, ReadinessWrites

-----------------------------------------------------------------------------
\* A repair keeps what the earlier ones have done, and what it changes is among its
\* changes or a directory made above its target.
LEMMA RepairKeeps ==
    ASSUME NEW c, NEW found, NEW changes \in Seq(Readiness!Changes),
           NEW tree \in [TargetPaths -> Readiness!Nodes], Standing(tree),
           NEW n \in 1 .. Len(Targets),
           AccountedFor(found, tree, changes, n),
           Readiness!Repairable(c, tree, Targets[n]),
           NEW repaired, repaired = Readiness!Repaired(tree, Targets[n]),
           NEW more, more = changes \o Readiness!ChangesFor(tree, Targets[n])
    PROVE  AccountedFor(found, repaired, more, n + 1)
<1> USE DEF AccountedFor
<1>0. /\ n \in Nat \ {0} /\ n + 1 - 1 = n
      /\ \A j \in 1 .. n : /\ Targets[j] \in TargetPaths /\ Targets[j] \in Readiness!Declared
                           /\ j = n \/ j \in 1 .. n - 1
      /\ DOMAIN Targets = 1 .. Len(Targets)
  <2>1. Targets \in Seq(TargetPaths) /\ Len(Targets) \in Nat
    BY TargetsAre
  <2>2. DOMAIN Targets = 1 .. Len(Targets)
    BY <2>1
  <2>3. n \in Nat \ {0} /\ n + 1 - 1 = n
    BY <2>1
  <2>4. ASSUME NEW j \in 1 .. n
        PROVE  /\ Targets[j] \in TargetPaths /\ Targets[j] \in Readiness!Declared
               /\ j = n \/ j \in 1 .. n - 1
    <3>1. j \in DOMAIN Targets /\ (j = n \/ j \in 1 .. n - 1)
      BY <2>1, <2>2
    <3>2. Targets[j] \in TargetPaths
      BY <2>1, <3>1
    <3> QED BY <3>1, <3>2 DEF Readiness!Declared
  <2> QED BY <2>2, <2>3, <2>4
<1> DEFINE p == Targets[n]
<1>1. p \in TargetPaths
  BY <1>0
<1>2. /\ repaired[p] = "right"
      /\ \A q \in TargetPaths \ {p} :
            repaired[q] = IF Readiness!NeedsParent(p) /\ q = TargetParent[p] THEN "search"
                          ELSE IF tree[q] # "missing" THEN tree[q]
                          ELSE IF p \notin TargetFiles /\ q \in Readiness!Over[p]
                          THEN "drifted" ELSE "missing"
  <2> HIDE DEF p
  <2> SUFFICES Readiness!Repairable(c, tree, p) /\ repaired = Readiness!Repaired(tree, p)
    BY <1>1, PathRepaired
  <2> QED BY DEF p
<1>3. /\ Truthful(found, more)
      /\ Covered(more) = Covered(changes) \cup {p} \cup
                            (IF Readiness!NeedsParent(p) THEN {TargetParent[p]} ELSE {})
  <2>1. RepairedSoFar(found, tree, 1)
    BY DEF RepairedSoFar
  <2>2. more = changes \o Readiness!ChangesFor(tree, p)
    OBVIOUS
  <2> HIDE DEF p
  <2> QED BY <1>1, <2>1, <2>2, ReadinessRecords
<1>4. \A j \in 1 .. n : Targets[j] \in Covered(more)
  BY <1>0, <1>3
<1>5. RepairedSoFar(found, repaired, n + 1)
  <2>1. ASSUME NEW j \in 1 .. n PROVE repaired[Targets[j]] = "right"
    <3>1. CASE Targets[j] = p
      BY <1>2, <3>1
    <3>2. CASE Targets[j] # p
      <4>1. tree[Targets[j]] = "right"
        BY <1>0, <3>2 DEF RepairedSoFar
      <4>2. /\ Targets[j] \in TargetPaths
            /\ ~ (Readiness!NeedsParent(p) /\ Targets[j] = TargetParent[p])
        BY <1>0, <1>1, TargetsAre
      <4> HIDE DEF p
      <4> QED BY <1>2, <3>2, <4>1, <4>2
    <3> QED BY <3>1, <3>2
  <2>2. ASSUME NEW q \in TargetPaths, repaired[q] = "missing" PROVE found[q] = "missing"
    <3> HIDE DEF p
    <3>1. tree[q] = "missing"
      BY <1>2, <2>2
    <3> QED BY <3>1 DEF RepairedSoFar
  <2> QED BY <1>0, <2>1, <2>2 DEF RepairedSoFar
<1> HIDE DEF p
<1>6. ASSUME NEW q \in TargetPaths, q \notin Covered(more), repaired[q] # found[q]
      PROVE  MadeOver(found, q)
  <2>1. /\ q # p /\ ~ (Readiness!NeedsParent(p) /\ q = TargetParent[p])
        /\ q \notin Covered(changes)
    BY <1>3, <1>6
  <2>2. CASE repaired[q] = tree[q]
    BY <1>6, <2>1, <2>2 DEF KeptBut
  <2>3. CASE repaired[q] # tree[q]
    <3>1. tree[q] = "missing" /\ p \notin TargetFiles /\ q \in Readiness!Over[p]
      BY <1>2, <2>1, <2>3
    <3>2. found[q] = "missing"
      BY <3>1 DEF RepairedSoFar
    <3>3. \A j \in 1 .. n : Targets[j] # q
      BY <1>4, <1>6
    <3> QED BY <1>0, <3>1, <3>2, <3>3 DEF MadeOver, p
  <2> QED BY <2>2, <2>3
<1>7. KeptBut(found, repaired, Covered(more))
  BY <1>6 DEF KeptBut
<1> QED BY <1>0, <1>3, <1>4, <1>5, <1>7

\* A step of the rollback puts back what its change says, and what it removes with it was
\* missing when the call began.
LEMMA ReversalKeeps ==
    ASSUME NEW c, NEW found, Standing(found), NEW changes \in Seq(Readiness!Changes),
           changes # <<>>, NEW tree \in [TargetPaths -> Readiness!Nodes], Standing(tree),
           Truthful(found, changes), KeptBut(found, tree, Covered(changes)),
           NEW change, change = Readiness!Last(changes),
           Readiness!Reversible(c, tree, change),
           NEW reversed, reversed = Readiness!Reversed(tree, change)
    PROVE  KeptBut(found, reversed, Covered(Readiness!Front(changes)))
<1> DEFINE less == Covered(Readiness!Front(changes))
<1>1. /\ Covered(changes) = less \cup {change.path} /\ change \in Readiness!Changes
      /\ change.before = "missing" => found[change.path] = "missing"
      /\ \/ change.path \in less \/ change.before = found[change.path]
         \/ MadeOver(found, change.path)
  BY TruthfulFront
<1> HIDE DEF less
<1>2. /\ reversed[change.path] = change.before
      /\ \A q \in TargetPaths \ {change.path} :
            \/ reversed[q] = tree[q]
            \/ /\ reversed[q] = "missing" /\ change.before = "missing"
               /\ change.path \in Readiness!Over[q]
  BY <1>1, PathReversed
<1>3. change.path \in TargetPaths
  BY <1>1 DEF Readiness!Changes
<1>4. ASSUME NEW q \in TargetPaths, q \notin less
      PROVE  reversed[q] = found[q] \/ MadeOver(found, q)
  <2>1. CASE q = change.path
    BY <1>1, <1>2, <1>4, <2>1
  <2>2. CASE q # change.path /\ reversed[q] = tree[q]
    BY <1>1, <1>4, <2>2 DEF KeptBut
  <2>3. CASE q # change.path /\ reversed[q] # tree[q]
    <3>1. /\ reversed[q] = "missing" /\ change.before = "missing"
          /\ change.path \in Readiness!Over[q]
      BY <1>2, <2>3
    <3>2. found[q] = "missing"
      BY <1>1, <1>3, <3>1, StandingBelow
    <3> QED BY <3>1, <3>2
  <2> QED BY <2>1, <2>2, <2>3
<1> QED BY <1>4 DEF KeptBut, less

-----------------------------------------------------------------------------
LEMMA ReadinessOwnBefore ==
    ASSUME ReadinessInv, NEW c \in Calls, Readiness!Step(c), Readiness!Alone(c)'
    PROVE  /\ Place(c) \in Readiness!Labels /\ report[c] = "none"
           /\ Place(c) # "start" => ReadinessFits(c)
           /\ mem \in [Calls -> ReadinessMemories] /\ mem[c] \in ReadinessMemories
           /\ report \in [Calls -> Readiness!Reports]
           /\ disk.tree \in [TargetPaths -> Readiness!Nodes]
<1> USE DEF ReadinessInv
<1>1. c \notin mixed
  <2>1. mixed \subseteq mixed'
    BY ReadinessWrites, ReadinessSetsTree, ReadinessSetsManifest
  <2> QED BY <2>1 DEF Readiness!Alone
<1>2. Place(c) # "start" => Readiness!Alone(c)
  BY <1>1, ReadinessPlaces DEF Readiness!Alone, Readiness!Begun
<1> QED BY <1>2, ReadinessPlaces, ReadinessAnswers DEF Readiness!TypeOK, ReadinessMemories

\* The start of a call and its repairs.
LEMMA ReadinessGoesOn ==
    ASSUME ReadinessInv, NEW c \in Calls, Readiness!Step(c), Readiness!Alone(c)',
           \/ Readiness!Refuse(c) \/ Readiness!Begin(c)
           \/ Readiness!Repair(c) \/ Readiness!FailRepair(c)
    PROVE  ReadinessFits(c)'
<1> USE DEF ReadinessInv
<1>0. /\ report[c] = "none"
      /\ Place(c) # "start" => ReadinessFits(c)
      /\ mem \in [Calls -> ReadinessMemories] /\ mem[c] \in ReadinessMemories
      /\ report \in [Calls -> Readiness!Reports]
      /\ disk.tree \in [TargetPaths -> Readiness!Nodes]
  BY ReadinessOwnBefore
<1>1. CASE Readiness!Refuse(c) \/ Readiness!FailRepair(c)
  <2>1. Place(c)' = "done" /\ report'[c] \in {"invalid", "unsupported", "error"}
    BY <1>0, <1>1, ReadinessPlaces DEF Readiness!Refuse, Readiness!FailRepair, Readiness!Return
  <2> HIDE DEF ReadinessInv
  <2> QED BY <2>1 DEF ReadinessFits
<1>2. CASE Readiness!Begin(c)
  <2>1. /\ mem' = [mem EXCEPT ![c].found = disk.tree] /\ disk' = disk /\ report' = report
        /\ Place(c) = "start" /\ Place(c)' = "repair"
    BY <1>2, ReadinessPlaces DEF Readiness!Begin, Readiness!Quiet
  <2>2. /\ mem'[c].found = disk.tree /\ mem'[c].next = 1 /\ mem'[c].changes = <<>>
        /\ ~ mem'[c].failed
    BY <1>0, <2>1 DEF ReadinessMemories
  <2>3. Truthful(disk.tree, <<>>) /\ KeptBut(disk.tree, disk.tree, Covered(<<>>))
    BY DEF Truthful, KeptBut
  <2>4. AccountedFor(disk.tree, disk.tree, <<>>, 1)
    BY <2>3 DEF AccountedFor, RepairedSoFar
  <2> HIDE DEF ReadinessInv
  <2> QED BY <1>0, <2>1, <2>2, <2>3, <2>4 DEF ReadinessFits
<1>3. CASE Readiness!Repair(c)
  <2> DEFINE n == mem[c].next
             repaired == Readiness!Repaired(disk.tree, Targets[n])
             more == mem[c].changes \o Readiness!ChangesFor(disk.tree, Targets[n])
  <2>1. /\ Readiness!Repairable(c, disk.tree, Targets[n]) /\ Readiness!SetTree(c, repaired)
        /\ mem' = [mem EXCEPT ![c].next = n + 1, ![c].changes = more]
        /\ pc' = pc /\ report' = report /\ n <= Len(Targets)
    BY <1>0, <1>3 DEF Readiness!Repair, ReadinessMemories
  <2>2. Place(c) = "repair" /\ Place(c)' = "repair"
    BY <1>3, <2>1, ReadinessPlaces DEF Readiness!Repair, Place
  <2>3. n \in 1 .. Len(Targets)
    BY <2>1, NextTarget, TargetsAre
  <2>4. /\ AccountedFor(mem[c].found, disk.tree, mem[c].changes, n)
        /\ ~ mem[c].failed
    BY <1>0, <2>2 DEF ReadinessFits
  <2>5. mem[c].changes \in Seq(Readiness!Changes) /\ Standing(disk.tree)
    BY <1>0 DEF ReadinessMemories
  <2>6. disk'.tree = repaired
    BY <2>1, ReadinessSetsTree
  <2>7. /\ mem'[c].found = mem[c].found /\ mem'[c].next = n + 1
        /\ mem'[c].changes = more /\ mem'[c].failed = mem[c].failed
    BY <1>0, <2>1 DEF ReadinessMemories
  <2> HIDE DEF ReadinessInv, n
  <2>8. AccountedFor(mem[c].found, repaired, more, n + 1)
    BY <1>0, <2>1, <2>3, <2>4, <2>5, RepairKeeps
  <2> HIDE DEF repaired, more
  <2> QED BY <1>0, <2>1, <2>2, <2>4, <2>6, <2>7, <2>8 DEF ReadinessFits
<1> QED BY <1>1, <1>2, <1>3

\* The manifest, the probes and the restart.
LEMMA ReadinessLists ==
    ASSUME ReadinessInv, NEW c \in Calls, Readiness!Step(c), Readiness!Alone(c)',
           \/ Readiness!OpenManifest(c) \/ Readiness!FillManifest(c) \/ Readiness!FailManifest(c)
           \/ Readiness!Verify(c) \/ Readiness!FailVerify(c) \/ Readiness!Restart(c)
           \/ Readiness!FailRestart(c) \/ Readiness!Crash(c)
    PROVE  ReadinessFits(c)'
<1> USE DEF ReadinessInv
<1>0. /\ report[c] = "none"
      /\ Place(c) # "start" => ReadinessFits(c)
      /\ mem \in [Calls -> ReadinessMemories] /\ mem[c] \in ReadinessMemories
      /\ report \in [Calls -> Readiness!Reports]
  BY ReadinessOwnBefore
<1>1. CASE Readiness!FailManifest(c) \/ Readiness!Crash(c)
  <2>1. Place(c)' = "done" /\ report'[c] \in {"error", "crashed"}
    BY <1>0, <1>1, ReadinessPlaces DEF Readiness!FailManifest, Readiness!Crash, Readiness!Return
  <2> HIDE DEF ReadinessInv
  <2> QED BY <2>1 DEF ReadinessFits
<1>2. CASE Readiness!OpenManifest(c)
  <2>1. /\ Readiness!SetManifest(c, Torn) /\ mem' = mem /\ report' = report
        /\ Place(c) = "repair" /\ Place(c)' = "listing" /\ mem[c].next > Len(Targets)
    BY <1>2, ReadinessPlaces DEF Readiness!OpenManifest
  <2>2. mem[c].next = Len(Targets) + 1
    <3>1. Len(Targets) \in Nat /\ mem[c].next \in 1 .. Len(Targets) + 1
      BY <1>0, TargetsAre DEF ReadinessMemories
    <3> QED BY <2>1, <3>1
  <2>3. disk'.tree = disk.tree
    <3>1. Torn \in ReadinessEntries
      BY DEF ReadinessEntries
    <3> QED BY <2>1, <3>1, ReadinessSetsManifest
  <2> HIDE DEF ReadinessInv
  <2> QED BY <1>0, <2>1, <2>2, <2>3 DEF ReadinessFits
<1>3. CASE Readiness!FillManifest(c)
  <2>1. /\ Readiness!SetManifest(c, mem[c].changes) /\ mem' = mem /\ report' = report
        /\ Place(c) = "listing" /\ Place(c)' = "verify"
    BY <1>3, ReadinessPlaces DEF Readiness!FillManifest
  <2>2. mem[c].changes \in ReadinessEntries
    BY <1>0 DEF ReadinessEntries, ReadinessMemories
  <2>3. disk'.tree = disk.tree /\ Readiness!ManifestOf(c)' = mem[c].changes
    BY <2>1, <2>2, ReadinessSetsManifest
  <2> HIDE DEF ReadinessInv
  <2> QED BY <1>0, <2>1, <2>3 DEF ReadinessFits
<1>4. CASE \/ Readiness!Verify(c) \/ Readiness!FailVerify(c) \/ Readiness!Restart(c)
           \/ Readiness!FailRestart(c)
  <2>1. /\ disk' = disk /\ mem' = mem /\ Place(c) \in {"verify", "restart", "verify again"}
        /\ \/ Place(c)' = "done" /\ report'[c] = "resolved"
           \/ Place(c)' \in {"restart", "verify again", "undo"} /\ report' = report
    BY <1>0, <1>4, ReadinessPlaces
    DEF Readiness!Verify, Readiness!FailVerify, Readiness!Restart, Readiness!FailRestart,
        Readiness!Return, Readiness!Quiet
  <2>2. Readiness!ManifestOf(c)' = Readiness!ManifestOf(c)
    BY <2>1 DEF Readiness!ManifestOf
  <2>3. /\ AccountedFor(mem[c].found, disk.tree, mem[c].changes, mem[c].next)
        /\ mem[c].next = Len(Targets) + 1
        /\ ~ mem[c].failed /\ Readiness!ManifestOf(c) = mem[c].changes
    BY <1>0, <2>1 DEF ReadinessFits
  <2>4. /\ Truthful(mem[c].found, mem[c].changes)
        /\ KeptBut(mem[c].found, disk.tree, Covered(mem[c].changes))
    BY <2>3 DEF AccountedFor
  <2> HIDE DEF ReadinessInv
  <2> QED BY <2>1, <1>0, <2>2, <2>3, <2>4 DEF ReadinessFits
<1> QED BY <1>1, <1>2, <1>3, <1>4

\* The rollback.
LEMMA ReadinessRollsBack ==
    ASSUME ReadinessInv, NEW c \in Calls, Readiness!Step(c), Readiness!Alone(c)',
           Readiness!Undo(c) \/ Readiness!FailUndo(c) \/ Readiness!Undone(c)
    PROVE  ReadinessFits(c)'
<1> USE DEF ReadinessInv
<1> DEFINE found == mem[c].found
           changes == mem[c].changes
           less == Readiness!Front(changes)
<1>0. /\ report[c] = "none" /\ mem[c] \in ReadinessMemories
      /\ mem \in [Calls -> ReadinessMemories] /\ report \in [Calls -> Readiness!Reports]
      /\ disk.tree \in [TargetPaths -> Readiness!Nodes]
      /\ Place(c) = "undo"
  BY ReadinessOwnBefore, ReadinessPlaces DEF Readiness!Undo, Readiness!FailUndo, Readiness!Undone
<1>1. /\ Truthful(found, changes) /\ changes \in Seq(Readiness!Changes) /\ Standing(found)
      /\ ~ mem[c].failed => KeptBut(found, disk.tree, Covered(changes))
  BY <1>0, ReadinessOwnBefore DEF ReadinessFits, ReadinessMemories
<1>2. changes # <<>> => Truthful(found, less)
  BY <1>1, TruthfulFront
<1>3. CASE Readiness!Undo(c)
  <2> DEFINE change == Readiness!Last(changes)
             reversed == Readiness!Reversed(disk.tree, change)
  <2>1. /\ changes # <<>> /\ Readiness!Reversible(c, disk.tree, change)
        /\ Readiness!SetTree(c, reversed)
        /\ mem' = [mem EXCEPT ![c].changes = less] /\ pc' = pc /\ report' = report
    BY <1>0, <1>3 DEF Readiness!Undo, ReadinessMemories
  <2>2. disk'.tree = reversed /\ Place(c)' = "undo"
    BY <1>0, <2>1, ReadinessSetsTree DEF Place
  <2>3. /\ mem'[c].found = found /\ mem'[c].changes = less
        /\ mem'[c].failed = mem[c].failed
    BY <1>0, <2>1 DEF ReadinessMemories
  <2>4. ~ mem[c].failed => KeptBut(found, reversed, Covered(less))
    <3>1. SUFFICES ASSUME ~ mem[c].failed PROVE KeptBut(found, reversed, Covered(less))
      OBVIOUS
    <3> HIDE DEF found, changes
    <3> QED BY <1>0, <1>1, <2>1, <3>1, ReversalKeeps
  <2> HIDE DEF ReadinessInv, less, reversed
  <2> QED BY <1>0, <1>2, <2>1, <2>2, <2>3, <2>4 DEF ReadinessFits
<1>4. CASE Readiness!FailUndo(c)
  <2>1. /\ changes # <<>> /\ mem' = [mem EXCEPT ![c].changes = less, ![c].failed = TRUE]
        /\ pc' = pc /\ report' = report
    BY <1>0, <1>4 DEF Readiness!FailUndo, ReadinessMemories
  <2>2. /\ Place(c)' = "undo" /\ mem'[c].found = found /\ mem'[c].changes = less
        /\ mem'[c].failed
    BY <1>0, <2>1 DEF ReadinessMemories, Place
  <2> HIDE DEF ReadinessInv, less
  <2> QED BY <1>0, <1>2, <2>1, <2>2 DEF ReadinessFits
<1>5. CASE Readiness!Undone(c)
  <2>1. /\ changes = <<>> /\ disk' = disk /\ mem' = mem /\ Place(c)' = "done"
        /\ report'[c] = IF mem[c].failed THEN "rollback_failed" ELSE "rolled_back"
    BY <1>0, <1>5, ReadinessPlaces DEF Readiness!Undone, Readiness!Return, Readiness!Quiet
  <2>2. Covered(<<>>) = {}
    BY DEF Covered
  <2> HIDE DEF ReadinessInv
  <2> QED BY <1>0, <1>1, <2>1, <2>2 DEF ReadinessFits
<1> QED BY <1>3, <1>4, <1>5

LEMMA ReadinessStep ==
    ASSUME ReadinessInv, NEW c \in Calls, Readiness!Step(c)
    PROVE  ReadinessInv'
<1> USE DEF ReadinessInv
<1>1. /\ Readiness!TypeOK' /\ Standing(disk.tree)'
      /\ \A d \in Calls : Standing(mem[d].found)'
  BY ReadinessTyped
<1>2. ASSUME NEW d \in Calls
      PROVE  /\ Place(d)' # "done" => report'[d] = "none"
             /\ Place(d)' = "start" =>
                   mem'[d].next = 1 /\ mem'[d].changes = <<>> /\ ~ mem'[d].failed
  <2>1. CASE d # c
    BY <2>1, ReadinessOthers
  <2>2. CASE d = c
    <3>1. Place(c) # "done" /\ Place(c)' # "start"
      BY ReadinessAnswers, ReadinessPlaces DEF Place
    <3> QED BY <2>2, <3>1, ReadinessAnswers, ReadinessPlaces
  <2> QED BY <2>1, <2>2
<1>3. ASSUME NEW d \in Calls, Readiness!Alone(d)' PROVE ReadinessFits(d)'
  <2>1. CASE d = c
    BY <1>3, <2>1, ReadinessGoesOn, ReadinessLists, ReadinessRollsBack DEF Readiness!Step
  <2>2. CASE d # c
    <3>1. /\ Place(d)' = Place(d) /\ mem'[d] = mem[d] /\ report'[d] = report[d]
          /\ d \notin mixed /\ d \notin mixed'
      BY <1>3, <2>2, ReadinessOthers DEF Readiness!Alone
    <3>2. Place(d) # "start" /\ Readiness!Alone(d)
      <4>1. pc'[d] = <<"readiness", Place(d)'>>
        BY <1>1 DEF Readiness!TypeOK, Readiness!Places, Place
      <4>2. Place(d)' # "start"
        BY <1>3, <4>1 DEF Readiness!Alone, Readiness!Begun, Readiness!At
      <4> QED BY <3>1, <4>2, ReadinessPlaces DEF Readiness!Alone, Readiness!Begun
    <3>3. /\ disk'.tree = disk.tree
          /\ Readiness!ManifestOf(d)' = Readiness!ManifestOf(d)
      BY <2>2, <3>1, <3>2, ReadinessOthers
    <3>4. ReadinessFits(d)
      BY <3>2
    <3> HIDE DEF ReadinessInv
    <3> QED BY <3>1, <3>3, <3>4 DEF ReadinessFits
  <2> QED BY <2>1, <2>2
<1> QED BY <1>1, <1>2, <1>3

LEMMA ReadinessInit == ASSUME Readiness!Init, Works("readiness") PROVE ReadinessInv
<1>1. PICK tree \in [TargetPaths -> Readiness!Nodes \ {"search"}] :
          /\ \A p \in TargetPaths : tree[p] # "missing" /\ TargetParent[p] \in TargetPaths =>
                                 tree[TargetParent[p]] # "missing"
          /\ disk = [tree |-> tree, manifest |-> [t \in Readiness!Stamps |-> NoFile]]
          /\ mem = [c \in Calls |-> [found |-> tree, next |-> 1, changes |-> <<>>,
                                     failed |-> FALSE]]
  BY DEF Readiness!Init
<1>2. /\ pc = [c \in Calls |-> <<"readiness", "start">>]
      /\ report = [c \in Calls |-> "none"] /\ mixed = {}
  BY DEF Readiness!Init, Readiness!CallsInit
<1>3. tree \in [TargetPaths -> Readiness!Nodes] /\ Standing(tree)
  BY <1>1 DEF Standing
<1>4. Readiness!TypeOK
  <2>1. 1 \in 1 .. Len(Targets) + 1
    <3>1. Len(Targets) \in Nat
      BY TargetsAre
    <3> QED BY <3>1
  <2>2. mem \in [Calls -> ReadinessMemories]
    BY <1>1, <1>3, <2>1 DEF ReadinessMemories
  <2>3. disk \in [tree : [TargetPaths -> Readiness!Nodes],
                  manifest : [Readiness!Stamps -> ReadinessEntries]]
    BY <1>1, <1>3 DEF ReadinessEntries
  <2> QED BY <1>2, <2>2, <2>3
    DEF Readiness!TypeOK, Readiness!Places, Readiness!Labels, Readiness!Reports,
        ReadinessMemories, ReadinessEntries
<1>5. ASSUME NEW c \in Calls
      PROVE  /\ report[c] = "none" /\ mem[c].found = tree /\ ~ Readiness!Alone(c)
             /\ mem[c].next = 1 /\ mem[c].changes = <<>> /\ ~ mem[c].failed
  BY <1>1, <1>2 DEF Readiness!Alone, Readiness!Begun, Readiness!At
<1> QED BY <1>1, <1>3, <1>4, <1>5 DEF ReadinessInv

LEMMA ReadinessStutters == ASSUME ReadinessInv, UNCHANGED vars PROVE ReadinessInv'
<1>1. Readiness!TypeOK'
  BY DEF ReadinessInv, vars, Readiness!TypeOK
<1>2. ASSUME NEW c \in Calls
      PROVE  /\ Place(c)' = Place(c) /\ Readiness!Alone(c)' = Readiness!Alone(c)
             /\ ReadinessFits(c)' = ReadinessFits(c)
  BY DEF vars, Readiness!Alone, Readiness!Begun, Readiness!At, ReadinessFits, Place,
         Readiness!ManifestOf
<1> QED BY <1>1, <1>2 DEF ReadinessInv, vars

LEMMA ReadinessHolds == Spec => [](Works("readiness") => ReadinessInv)
<1>1. Init => (Works("readiness") => ReadinessInv)
  BY InitWorks, WorksAlone, ReadinessInit
<1>2. ASSUME OneWorks, Works("readiness") => ReadinessInv, [Next]_vars,
             Works("readiness")'
      PROVE  ReadinessInv'
  <2>1. Works("readiness")
    BY <1>2, WorksOn DEF OneWorks
  <2>2. CASE Next
    BY <1>2, <2>1, <2>2, OneExecutor, ReadinessStep DEF Readiness!Next
  <2> QED BY <1>2, <2>1, <2>2, ReadinessStutters
<1> QED BY <1>1, <1>2, OneExecutorWorks, PTL DEF Spec

\* readinessresolve, the permission-drift lane: for any tree, targets and number of calls,
\* an undisturbed call that says it rolled its changes back has put every path as it was,
\* a parent that two targets changed included, but for the directories made above a target.
THEOREM RepairReversed == Spec => []RepairIsReversed
<1>1. ASSUME ReadinessInv, NEW c \in Calls, Readiness!Alone(c), report[c] = "rolled_back",
             NEW p \in TargetPaths
      PROVE  disk.tree[p] = mem[c].found[p] \/ Readiness!MadeAbove(c, p)
  <2>1. ReadinessFits(c)
    BY <1>1 DEF ReadinessInv
  <2>2. KeptBut(mem[c].found, disk.tree, {})
    BY <1>1, <2>1 DEF ReadinessFits
  <2> QED BY <2>2, MadeAboveIs DEF KeptBut
<1>2. OneWorks /\ (Works("readiness") => ReadinessInv) => RepairIsReversed
  <2>1. ASSUME ReadinessInv PROVE Readiness!RollbackRestores
    BY <1>1, <2>1 DEF Readiness!RollbackRestores
  <2> QED BY <2>1, RunsWorks DEF RepairIsReversed
<1> QED BY <1>2, OneExecutorWorks, ReadinessHolds, PTL

LEMMA LeastExists ==
    ASSUME NEW S \in SUBSET Nat, S # {} PROVE \E m \in S : \A i \in S : m <= i
<1> DEFINE R == {pair \in Nat \X Nat : pair[1] < pair[2]}
<1>1. IsWellFoundedOn(R, Nat)
  BY NatLessThanWellFounded DEF OpToRel
<1>2. \A i, j \in Nat : i < j => <<i, j>> \in R
  OBVIOUS
<1> HIDE DEF R
<1>3. PICK m \in S : \A i \in S : <<i, m>> \notin R
  BY <1>1, WFMin
<1>4. ASSUME NEW i \in S PROVE m <= i
  <2>1. i \in Nat /\ m \in Nat /\ ~ (i < m)
    BY <1>2, <1>3
  <2> QED BY <2>1
<1> QED BY <1>4

\* readinessresolve, the permission-drift lane: once the manifest is written, and until a
\* rollback begins, a mode that an undisturbed call has changed is in it with the mode there
\* was, in the first entry of its path; a resolved call leaves every target as the policy
\* wants it.
THEOREM RepairOnRecord == Spec => []RepairIsOnRecord
<1>1. ASSUME ReadinessInv, NEW c \in Calls, Readiness!Alone(c),
             \/ Readiness!Among(c, {"verify", "restart", "verify again"})
             \/ report[c] = "resolved"
      PROVE  /\ \A p \in Readiness!Declared : disk.tree[p] = "right"
             /\ \A p \in TargetPaths : disk.tree[p] # mem[c].found[p] =>
                   \/ Readiness!MadeAbove(c, p)
                   \/ \E i \in DOMAIN Readiness!ManifestOf(c) :
                         /\ Readiness!ManifestOf(c)[i] =
                               [path |-> p, before |-> mem[c].found[p]]
                         /\ \A j \in 1 .. i - 1 : Readiness!ManifestOf(c)[j].path # p
  <2> DEFINE found == mem[c].found
             changes == mem[c].changes
  <2>1. ReadinessFits(c) /\ Readiness!TypeOK
    BY <1>1 DEF ReadinessInv
  <2>2. Place(c) \in {"verify", "restart", "verify again"} \/ report[c] = "resolved"
    BY <1>1, <2>1, ReadinessPlaces
  <2>3. /\ AccountedFor(found, disk.tree, changes, mem[c].next)
        /\ mem[c].next = Len(Targets) + 1 /\ Readiness!ManifestOf(c) = changes
    BY <2>1, <2>2 DEF ReadinessFits
  <2>4. /\ Truthful(found, changes) /\ KeptBut(found, disk.tree, Covered(changes))
        /\ \A j \in 1 .. mem[c].next - 1 : disk.tree[Targets[j]] = "right"
        /\ changes \in Seq(Readiness!Changes)
    BY <2>1, <2>3 DEF AccountedFor, RepairedSoFar, Readiness!TypeOK
  <2>5. \A p \in Readiness!Declared : disk.tree[p] = "right"
    <3>1. DOMAIN Targets = 1 .. mem[c].next - 1
      BY <2>3, TargetsAre
    <3> QED BY <2>4, <3>1 DEF Readiness!Declared
  <2> HIDE DEF found, changes
  <2>6. ASSUME NEW p \in TargetPaths, disk.tree[p] # found[p], ~ MadeOver(found, p)
        PROVE  \E i \in DOMAIN changes : /\ changes[i] = [path |-> p, before |-> found[p]]
                                         /\ \A j \in 1 .. i - 1 : changes[j].path # p
    <3> DEFINE At(i) == i \in 1 .. Len(changes) /\ changes[i].path = p
               Spots == {i \in Nat : At(i)}
    <3>1. DOMAIN changes = 1 .. Len(changes) /\ Len(changes) \in Nat
      BY <2>4
    <3>2. Spots \in SUBSET Nat /\ Spots # {}
      <4>1. p \in Covered(changes)
        BY <2>4, <2>6 DEF KeptBut
      <4>2. PICK i \in 1 .. Len(changes) : changes[i].path = p
        BY <3>1, <4>1 DEF Covered
      <4>3. i \in Nat
        BY <3>1
      <4> QED BY <4>2, <4>3
    <3>3. PICK i \in Spots : \A j \in Spots : i <= j
      BY <3>2, LeastExists
    <3>4. i \in 1 .. Len(changes) /\ changes[i].path = p /\ i \in Nat
      BY <3>3
    <3>5. ASSUME NEW j \in 1 .. i - 1 PROVE changes[j].path # p
      <4>1. j \in 1 .. Len(changes) /\ j \in Nat /\ ~ (i <= j)
        BY <3>1, <3>4
      <4>2. j \notin Spots
        BY <3>3, <4>1
      <4> QED BY <4>1, <4>2
    <3>6. changes[i].before = found[p]
      <4>1. \/ \E j \in 1 .. i - 1 : changes[j].path = p
            \/ changes[i].before = found[p]
            \/ MadeOver(found, p)
        BY <2>4, <3>4 DEF Truthful
      <4> QED BY <2>6, <3>5, <4>1
    <3>7. changes[i] \in Readiness!Changes
      BY <2>4, <3>4
    <3>8. changes[i] = [path |-> p, before |-> found[p]]
      BY <3>4, <3>6, <3>7 DEF Readiness!Changes
    <3> QED BY <3>1, <3>4, <3>5, <3>8
  <2> QED BY <2>3, <2>5, <2>6, MadeAboveIs DEF found
<1>2. OneWorks /\ (Works("readiness") => ReadinessInv) => RepairIsOnRecord
  <2>1. ASSUME ReadinessInv PROVE Readiness!RepairIsOnRecord
    BY <1>1, <2>1 DEF Readiness!RepairIsOnRecord
  <2> QED BY <2>1, RunsWorks DEF RepairIsOnRecord
<1> QED BY <1>2, OneExecutorWorks, ReadinessHolds, PTL

-----------------------------------------------------------------------------
(* The types of all executors                                              *)

ManifestTrees == [Paths -> Manifest!Nodes]

\* A restored file that is being filled or given its mode is one of an entry left.
ManifestInv ==
    /\ Manifest!TypeOK
    /\ \A c \in Calls : Place(c) \in {"copy", "mode"} => mem[c] > 0

LEMMA ManifestPlaces ==
    ASSUME Manifest!TypeOK, NEW c \in Calls
    PROVE  /\ Works("rollback")
           /\ \A l : Manifest!At(c, l) <=> Place(c) = l
           /\ \A labels : Manifest!Among(c, labels) <=> Place(c) \in labels
           /\ \A l : Manifest!Goto(c, l) =>
                 Place(c)' = l /\ \A d \in Calls \ {c} : Place(d)' = Place(d)
           /\ Place(c) \in Manifest!Labels
<1>1. Works("rollback") /\ Place(c) \in Manifest!Labels
  BY DEF Manifest!TypeOK, Manifest!Places, Works, Place
<1> QED BY <1>1, Placing DEF Manifest!At, Manifest!Among, Manifest!Places, Manifest!Goto

\* The entry that a call is at.
LEMMA EntryAt ==
    ASSUME Manifest!TypeOK, NEW c \in Calls, mem[c] > 0
    PROVE  Manifest!Entry(c).path \in Paths /\ mem[c] - 1 \in 0 .. Len(disk.entries)
<1> DEFINE UndoSteps == [action : {"remove_created_path", "chmod", "restore_file"}, path : Paths]
           n == mem[c]
           l == Len(disk.entries)
<1>1. disk.entries \in Seq(UndoSteps)
  BY LocalExecutorsAssumption DEF LocalExecutorsAssumption, Manifest!TypeOK
<1> HIDE DEF UndoSteps
<1>2. n \in 0 .. l /\ l \in Nat /\ n > 0
  BY <1>1 DEF Manifest!TypeOK
<1>3. n \in 1 .. l /\ n - 1 \in 0 .. l
  <2> HIDE DEF n, l
  <2> QED BY <1>2
<1>4. disk.entries[n] \in UndoSteps
  <2> HIDE DEF n
  <2> QED BY <1>1, <1>3
<1> QED BY <1>3, <1>4 DEF Manifest!Entry, UndoSteps

\* The trees that the entries make.
LEMMA EntriesMake ==
    ASSUME NEW tree \in ManifestTrees, NEW p \in Paths
    PROVE  /\ Manifest!Removed(tree, p) \in ManifestTrees
           /\ Manifest!Opened(tree, p) \in ManifestTrees
           /\ tree[p] # NoFile =>
                 /\ Manifest!Moded(tree, p) \in ManifestTrees
                 /\ [tree EXCEPT ![p] = [@ EXCEPT !.data = "then"]] \in ManifestTrees
<1> DEFINE Files == [data : {"then", "now", Torn}, mode : {"then", "now", "created"}]
<1>1. Manifest!Nodes = {NoFile} \cup Files
  BY DEF Manifest!Nodes
<1>2. /\ Manifest!Created \in Files /\ [Manifest!Created EXCEPT !.data = Torn] \in Files
      /\ \A f \in Files : /\ [f EXCEPT !.data = Torn] \in Files
                          /\ [f EXCEPT !.data = "then"] \in Files
                          /\ [f EXCEPT !.mode = "then"] \in Files
  BY DEF Manifest!Created
<1> HIDE DEF Files
<1>3. \A q \in Paths : tree[q] \in Manifest!Nodes
  BY DEF ManifestTrees
<1>4. Manifest!Removed(tree, p) \in ManifestTrees
  BY <1>1, <1>3 DEF Manifest!Removed, ManifestTrees
<1>5. Manifest!Opened(tree, p) \in ManifestTrees
  <2>1. \A q \in Paths :
           (IF q = p THEN IF tree[p] = NoFile THEN [Manifest!Created EXCEPT !.data = Torn]
                          ELSE [tree[p] EXCEPT !.data = Torn]
            ELSE IF q \in Manifest!Over[p] /\ tree[q] = NoFile THEN Manifest!Created
            ELSE tree[q]) \in Manifest!Nodes
    BY <1>1, <1>2, <1>3
  <2> QED BY <2>1 DEF Manifest!Opened, ManifestTrees
<1>6. ASSUME tree[p] # NoFile
      PROVE  /\ Manifest!Moded(tree, p) \in ManifestTrees
             /\ [tree EXCEPT ![p] = [@ EXCEPT !.data = "then"]] \in ManifestTrees
  <2>1. tree[p] \in Files
    BY <1>1, <1>3, <1>6
  <2>2. [tree[p] EXCEPT !.mode = "then"] \in Manifest!Nodes
    BY <1>1, <1>2, <2>1
  <2>3. [tree[p] EXCEPT !.data = "then"] \in Manifest!Nodes
    BY <1>1, <1>2, <2>1
  <2> QED BY <2>2, <2>3 DEF Manifest!Moded, ManifestTrees
<1> QED BY <1>4, <1>5, <1>6

\* What a step writes, and how far it comes.
LEMMA ManifestWrites ==
    ASSUME ManifestInv, NEW c \in Calls, Manifest!Step(c)
    PROVE  /\ \/ \E tree \in ManifestTrees : Manifest!SetTree(c, tree)
              \/ disk' = disk /\ mixed' = mixed
           /\ \/ mem' = mem
              \/ mem[c] > 0 /\ mem' = [mem EXCEPT ![c] = mem[c] - 1]
<1> USE DEF ManifestInv
<1>0. disk.tree \in ManifestTrees
  BY DEF Manifest!TypeOK, ManifestTrees
<1>1. CASE Manifest!RemovePath(c) \/ Manifest!Chmod(c) \/ Manifest!OpenFile(c)
  <2>1. mem[c] > 0
    BY <1>1 DEF Manifest!RemovePath, Manifest!Chmod, Manifest!OpenFile, Manifest!Facing
  <2>2. Manifest!Entry(c).path \in Paths
    BY <2>1, EntryAt
  <2> QED
    BY <1>0, <1>1, <2>1, <2>2, EntriesMake
    DEF Manifest!RemovePath, Manifest!Chmod, Manifest!OpenFile
<1>2. CASE Manifest!FillFile(c) \/ Manifest!ChmodFile(c)
  <2>1. mem[c] > 0
    BY <1>2, ManifestPlaces DEF Manifest!FillFile, Manifest!ChmodFile
  <2>2. Manifest!Entry(c).path \in Paths
    BY <2>1, EntryAt
  <2> QED
    BY <1>0, <1>2, <2>1, <2>2, EntriesMake DEF Manifest!FillFile, Manifest!ChmodFile
<1> QED
  BY <1>1, <1>2
  DEF Manifest!Step, Manifest!Refuse, Manifest!Begin, Manifest!FillUnlinked,
      Manifest!FailEntry, Manifest!Executed, Manifest!Crash, Manifest!Quiet

LEMMA ManifestStep ==
    ASSUME ManifestInv, NEW c \in Calls, Manifest!Step(c)
    PROVE  ManifestInv'
<1> USE DEF ManifestInv
<1>1. /\ disk' \in [tree : [Paths -> Manifest!Nodes], origin : [Paths -> Manifest!Nodes],
                    entries : Manifests]
      /\ disk'.entries = disk.entries /\ mixed' \subseteq Calls
  <2>1. CASE disk' = disk /\ mixed' = mixed
    BY <2>1 DEF Manifest!TypeOK
  <2>2. CASE \E tree \in ManifestTrees : Manifest!SetTree(c, tree)
    <3>1. PICK tree \in ManifestTrees : Manifest!SetTree(c, tree)
      BY <2>2
    <3>2. disk' = [disk EXCEPT !.tree = tree] /\ mixed' \subseteq Calls
      BY <3>1 DEF Manifest!SetTree, Manifest!Mix, Manifest!TypeOK
    <3> QED BY <3>1, <3>2 DEF ManifestTrees, Manifest!TypeOK
  <2> QED BY <2>1, <2>2, ManifestWrites
<1>2. mem' \in [Calls -> 0 .. Len(disk'.entries)]
  <2>1. mem \in [Calls -> 0 .. Len(disk.entries)]
    BY DEF Manifest!TypeOK
  <2>2. mem[c] > 0 => mem[c] - 1 \in 0 .. Len(disk.entries)
    BY EntryAt
  <2> HIDE DEF ManifestInv
  <2> QED BY <1>1, <2>1, <2>2, ManifestWrites
<1>3. report' \in [Calls -> Manifest!Reports]
  <2>1. report \in [Calls -> Manifest!Reports]
    BY DEF Manifest!TypeOK
  <2> QED
    BY <2>1
    DEF Manifest!Step, Manifest!Refuse, Manifest!Begin, Manifest!RemovePath,
        Manifest!Chmod, Manifest!OpenFile, Manifest!FillFile, Manifest!FillUnlinked,
        Manifest!ChmodFile, Manifest!FailEntry, Manifest!Executed, Manifest!Crash,
        Manifest!Return, Manifest!Reports
<1>4. pc' \in [Calls -> Manifest!Places(Manifest!Labels)]
  <2>1. \A l \in Manifest!Labels : <<"rollback", l>> \in Manifest!Places(Manifest!Labels)
    BY DEF Manifest!Places
  <2>2. pc \in [Calls -> Manifest!Places(Manifest!Labels)]
    BY DEF Manifest!TypeOK
  <2>3. UNCHANGED pc \/ \E l \in Manifest!Labels : Manifest!Goto(c, l)
    BY ManifestGoes
  <2> QED BY <2>1, <2>2, <2>3 DEF Manifest!Goto
<1>5. Manifest!TypeOK'
  BY <1>1, <1>2, <1>3, <1>4 DEF Manifest!TypeOK
<1>6. ASSUME NEW d \in Calls, Place(d)' \in {"copy", "mode"} PROVE mem'[d] > 0
  <2>0. mem \in [Calls -> 0 .. Len(disk.entries)]
    BY DEF Manifest!TypeOK
  <2>1. CASE d # c
    <3>1. Place(d)' = Place(d)
      BY <2>1, ManifestGoes, ManifestPlaces DEF Place
    <3>2. mem'[d] = mem[d]
      BY <2>0, <2>1, ManifestWrites
    <3> QED BY <1>6, <3>1, <3>2
  <2>2. CASE d = c
    <3>1. CASE Manifest!OpenFile(c) \/ Manifest!FillFile(c) \/ Manifest!FillUnlinked(c)
      <4>1. mem' = mem /\ mem[c] > 0
        BY <3>1, ManifestPlaces
        DEF Manifest!OpenFile, Manifest!FillFile, Manifest!FillUnlinked, Manifest!Facing
      <4> QED BY <2>2, <4>1
    <3>2. CASE Manifest!RemovePath(c) \/ Manifest!Chmod(c)
      <4>1. Place(c)' = Place(c) /\ Place(c) = "entry"
        BY <3>2, ManifestPlaces
        DEF Manifest!RemovePath, Manifest!Chmod, Manifest!Facing, Place
      <4> QED BY <1>6, <2>2, <4>1
    <3>3. CASE \/ Manifest!Refuse(c) \/ Manifest!Begin(c) \/ Manifest!ChmodFile(c)
               \/ Manifest!FailEntry(c) \/ Manifest!Executed(c) \/ Manifest!Crash(c)
      <4>1. Place(c)' \in {"entry", "done"}
        BY <3>3, ManifestPlaces
        DEF Manifest!Refuse, Manifest!Begin, Manifest!ChmodFile, Manifest!FailEntry,
            Manifest!Executed, Manifest!Crash, Manifest!Return
      <4> QED BY <1>6, <2>2, <4>1
    <3> QED BY <3>1, <3>2, <3>3 DEF Manifest!Step
  <2> QED BY <2>1, <2>2
<1> QED BY <1>5, <1>6

LEMMA ManifestInit == ASSUME Manifest!Init, Works("rollback") PROVE ManifestInv
<1>1. PICK tree \in [Paths -> {NoFile} \cup [data : {"now"}, mode : {"now"}]],
           entries \in Manifests :
          /\ disk = [tree |-> tree, origin |-> tree, entries |-> entries]
          /\ mem = [c \in Calls |-> Len(entries)]
  BY DEF Manifest!Init
<1>2. /\ pc = [c \in Calls |-> <<"rollback", "start">>]
      /\ report = [c \in Calls |-> "none"] /\ mixed = {}
  BY DEF Manifest!Init, Manifest!CallsInit
<1>3. tree \in [Paths -> Manifest!Nodes]
  BY DEF Manifest!Nodes
<1>4. mem \in [Calls -> 0 .. Len(disk.entries)]
  <2>1. entries \in Seq([action : {"remove_created_path", "chmod", "restore_file"},
                         path : Paths])
    BY LocalExecutorsAssumption DEF LocalExecutorsAssumption
  <2>2. Len(entries) \in 0 .. Len(entries)
    BY <2>1
  <2> QED BY <1>1, <2>2
<1>5. Manifest!TypeOK
  BY <1>1, <1>2, <1>3, <1>4
  DEF Manifest!TypeOK, Manifest!Places, Manifest!Labels, Manifest!Reports
<1> QED BY <1>2, <1>5 DEF ManifestInv, Place

LEMMA ManifestHolds == Spec => [](Works("rollback") => ManifestInv)
<1>1. Init => (Works("rollback") => ManifestInv)
  BY InitWorks, WorksAlone, ManifestInit
<1>2. ASSUME OneWorks, Works("rollback") => ManifestInv, [Next]_vars,
             Works("rollback")'
      PROVE  ManifestInv'
  <2>1. Works("rollback")
    BY <1>2, WorksOn DEF OneWorks
  <2>2. CASE Next
    BY <1>2, <2>1, <2>2, OneExecutor, ManifestStep DEF Manifest!Next
  <2>3. CASE UNCHANGED vars
    BY <1>2, <2>1, <2>3 DEF ManifestInv, Manifest!TypeOK, Place, vars
  <2> QED BY <1>2, <2>2, <2>3
<1> QED BY <1>1, <1>2, OneExecutorWorks, PTL DEF Spec

\* The variables of every executor keep their types.
THEOREM Typed == Spec => []TypeOK
<1>1. /\ OneWorks
      /\ (Works("source") => SourceInv) /\ (Works("package") => PackageInv)
      /\ (Works("env") => EnvInv) /\ (Works("resources") => ResourceInv)
      /\ (Works("permissions") => PermissionInv) /\ (Works("readiness") => ReadinessInv)
      /\ (Works("restart") => RestartInv) /\ (Works("laravel") => StubInv)
      /\ (Works("rollback") => ManifestInv)
      => TypeOK
  BY RunsWorks
  DEF TypeOK, SourceInv, PackageInv, EnvInv, ResourceInv, PermissionInv, ReadinessInv,
      RestartInv, StubInv, ManifestInv
<1> QED
  BY <1>1, OneExecutorWorks, SourceHolds, PackageHolds, EnvHolds, ResourceHolds,
     PermissionHolds, ReadinessHolds, RestartHolds, StubHolds, ManifestHolds, PTL

-----------------------------------------------------------------------------
(* rollbackmanifest.Execute, repeated                                      *)

UndoEntries == [action : {"remove_created_path", "chmod", "restore_file"}, path : Paths]

\* What an entry makes of a tree is a tree.
LEMMA UndoneMakes ==
    ASSUME NEW tree \in ManifestTrees, NEW entry \in UndoEntries
    PROVE  Manifest!Undone(tree, entry) \in ManifestTrees
<1>1. entry.path \in Paths /\ entry.action \in {"remove_created_path", "chmod", "restore_file"}
  BY DEF UndoEntries
<1>2. CASE entry.action = "restore_file"
  <2> DEFINE opened == Manifest!Opened(tree, entry.path)
  <2>1. opened \in ManifestTrees
    BY <1>1, EntriesMake
  <2>2. [data |-> "then", mode |-> "then"] \in Manifest!Nodes
    BY DEF Manifest!Nodes
  <2> HIDE DEF opened
  <2>3. [opened EXCEPT ![entry.path] = [data |-> "then", mode |-> "then"]] \in ManifestTrees
    BY <2>1, <2>2 DEF ManifestTrees
  <2> QED BY <1>2, <2>3 DEF Manifest!Undone, Manifest!Restored, opened
<1>3. CASE entry.action # "restore_file"
  BY <1>1, <1>3, EntriesMake DEF Manifest!Undone
<1> QED BY <1>2, <1>3

\* One execution, a tree for each number of entries left.
Execution(f, origin, entries) ==
    f = [left \in 0 .. Len(entries) |->
            IF left = Len(entries) THEN origin
            ELSE Manifest!Undone(f[left + 1], entries[left + 1])]

LEMMA ExecutionChosen ==
    ASSUME NEW origin, NEW entries, NEW f, Execution(f, origin, entries)
    PROVE  Execution(Manifest!Leaving(origin, entries), origin, entries)
  BY DEF Execution, Manifest!Leaving

\* An execution exists, and Leaving is one.
LEMMA ExecutionExists ==
    ASSUME NEW origin \in ManifestTrees, NEW entries \in Seq(UndoEntries)
    PROVE  \E f : Execution(f, origin, entries)
<1> DEFINE L == Len(entries)
           Part(f, k) ==
               /\ f \in [L - k .. L -> ManifestTrees] /\ f[L] = origin
               /\ \A n \in L - k .. L - 1 : f[n] = Manifest!Undone(f[n + 1], entries[n + 1])
           bad == {k \in 0 .. L : \A f : ~ Part(f, k)}
<1>1. L \in Nat /\ \A n \in 1 .. L : entries[n] \in UndoEntries
  OBVIOUS
<1>2. bad = {}
  <2> SUFFICES ASSUME bad # {} PROVE FALSE
    OBVIOUS
  <2>1. PICK k \in bad : \A i \in bad : k <= i
    <3>1. bad \in SUBSET Nat
      BY <1>1
    <3> HIDE DEF bad
    <3> QED BY <3>1, LeastExists
  <2>2. k \in 0 .. L /\ \A f : ~ Part(f, k)
    OBVIOUS
  <2> HIDE DEF L, bad
  <2>3. k # 0
    <3> SUFFICES ASSUME k = 0 PROVE FALSE
      OBVIOUS
    <3> DEFINE f == [n \in L .. L |-> origin]
    <3>1. f \in [L - k .. L -> ManifestTrees] /\ f[L] = origin /\ L - k .. L - 1 = {}
      BY <1>1
    <3>2. Part(f, k)
      BY <3>1
    <3> QED BY <2>2, <3>2
  <2>4. k - 1 \in 0 .. L /\ k - 1 \notin bad
    BY <1>1, <2>1, <2>2, <2>3
  <2>5. PICK f : Part(f, k - 1)
    BY <2>4 DEF bad
  <2> DEFINE first == L - k
             g == [n \in first .. L |-> IF n = first
                                        THEN Manifest!Undone(f[first + 1], entries[first + 1])
                                        ELSE f[n]]
  <2>6. /\ first \in Nat /\ first < L /\ L - (k - 1) = first + 1
        /\ first + 1 \in 1 .. L /\ first + 1 \in first + 1 .. L /\ L \in first + 1 .. L
    BY <1>1, <2>2, <2>3
  <2>7. /\ f \in [first + 1 .. L -> ManifestTrees] /\ f[L] = origin
        /\ \A n \in first + 1 .. L - 1 : f[n] = Manifest!Undone(f[n + 1], entries[n + 1])
    BY <2>5, <2>6
  <2> HIDE DEF first, Part
  <2>8. Manifest!Undone(f[first + 1], entries[first + 1]) \in ManifestTrees
    BY <1>1, <2>6, <2>7, UndoneMakes
  <2>9. g \in [first .. L -> ManifestTrees] /\ g[L] = origin
    BY <1>1, <2>6, <2>7, <2>8
  <2>10. ASSUME NEW n \in first .. L - 1
         PROVE  g[n] = Manifest!Undone(g[n + 1], entries[n + 1])
    <3>1. g[n + 1] = f[n + 1] /\ n \in first .. L
      BY <1>1, <2>6
    <3>2. CASE n = first
      BY <3>1, <3>2
    <3>3. CASE n # first
      <4>1. n \in first + 1 .. L - 1 /\ g[n] = f[n]
        BY <1>1, <2>6, <3>1, <3>3
      <4> QED BY <2>7, <3>1, <4>1
    <3> QED BY <3>2, <3>3
  <2>11. Part(g, k)
    BY <2>9, <2>10 DEF Part, first
  <2> QED BY <2>2, <2>11
<1>3. PICK f : Part(f, L)
  <2>1. L \in 0 .. L /\ L \notin bad
    <3> HIDE DEF bad
    <3> QED BY <1>1, <1>2
  <2> HIDE DEF Part, L
  <2> QED BY <2>1
<1>4. /\ f \in [0 .. L -> ManifestTrees] /\ f[L] = origin
      /\ \A n \in 0 .. L - 1 : f[n] = Manifest!Undone(f[n + 1], entries[n + 1])
  BY <1>1, <1>3
<1>5. f = [n \in 0 .. L |-> IF n = L THEN origin
                            ELSE Manifest!Undone(f[n + 1], entries[n + 1])]
  <2> HIDE DEF L
  <2>1. \A n \in 0 .. L : n = L \/ n \in 0 .. L - 1
    BY <1>1
  <2> QED BY <1>4, <2>1
<1> QED BY <1>5 DEF Execution

\* The trees of an uninterrupted execution, each made of the one before by an entry.
LEMMA LeavingIs ==
    ASSUME NEW origin \in ManifestTrees, NEW entries \in Seq(UndoEntries)
    PROVE  LET leaving == Manifest!Leaving(origin, entries)
           IN  /\ leaving[Len(entries)] = origin
               /\ \A n \in 1 .. Len(entries) :
                     leaving[n - 1] = Manifest!Undone(leaving[n], entries[n])
               /\ \A n \in 0 .. Len(entries) : leaving[n] \in ManifestTrees
<1> DEFINE L == Len(entries)
           leaving == Manifest!Leaving(origin, entries)
           bad == {k \in 0 .. L : leaving[L - k] \notin ManifestTrees}
<1>1. L \in Nat /\ \A n \in 1 .. L : entries[n] \in UndoEntries
  OBVIOUS
<1>2. leaving = [n \in 0 .. L |-> IF n = L THEN origin
                                  ELSE Manifest!Undone(leaving[n + 1], entries[n + 1])]
  BY ExecutionExists, ExecutionChosen DEF Execution
<1> HIDE DEF L, leaving
<1>3. leaving[L] = origin
  BY <1>1, <1>2
<1>4. ASSUME NEW n \in 1 .. L PROVE leaving[n - 1] = Manifest!Undone(leaving[n], entries[n])
  <2>1. n - 1 \in 0 .. L /\ n - 1 # L /\ (n - 1) + 1 = n
    BY <1>1
  <2>2. leaving[n - 1] = Manifest!Undone(leaving[(n - 1) + 1], entries[(n - 1) + 1])
    BY <1>2, <2>1
  <2> QED BY <2>1, <2>2
<1>5. bad = {}
  <2> SUFFICES ASSUME bad # {} PROVE FALSE
    OBVIOUS
  <2>1. PICK k \in bad : \A i \in bad : k <= i
    <3>1. bad \in SUBSET Nat
      BY <1>1
    <3> HIDE DEF bad
    <3> QED BY <3>1, LeastExists
  <2>2. k \in 0 .. L /\ leaving[L - k] \notin ManifestTrees
    OBVIOUS
  <2>3. k # 0
    <3>1. L - 0 = L /\ origin \in ManifestTrees
      BY <1>1
    <3> HIDE DEF bad
    <3> QED BY <1>3, <2>2, <3>1
  <2>4. k - 1 \in 0 .. L /\ k - 1 \notin bad
    <3> HIDE DEF bad
    <3> QED BY <1>1, <2>1, <2>2, <2>3
  <2> DEFINE n == L - k + 1
  <2>5. n \in 1 .. L /\ n - 1 = L - k /\ L - (k - 1) = n
    BY <1>1, <2>2, <2>3
  <2>6. leaving[n] \in ManifestTrees
    BY <2>4, <2>5
  <2> HIDE DEF n
  <2>7. leaving[n - 1] \in ManifestTrees
    BY <1>1, <1>4, <2>5, <2>6, UndoneMakes
  <2> QED BY <2>2, <2>5, <2>7
<1>6. ASSUME NEW n \in 0 .. L PROVE leaving[n] \in ManifestTrees
  <2>1. L - n \in 0 .. L /\ L - (L - n) = n
    BY <1>1
  <2>2. L - n \notin bad
    <3> HIDE DEF bad
    <3> QED BY <1>5
  <2> QED BY <2>1, <2>2
<1> QED BY <1>3, <1>4, <1>6 DEF L, leaving

\* What an entry says of a path: it settles what is there, whatever was there before; or
\* it makes a directory of it if nothing is there; or it gives it its mode.
Settles(e, q) ==
    \/ e.action = "restore_file" /\ q = e.path
    \/ e.action = "remove_created_path" /\ (q = e.path \/ e.path \in Manifest!Over[q])

Makes(e, q) == e.action = "restore_file" /\ q \in Manifest!Over[e.path]

Modes(e, q) == e.action = "chmod" /\ q = e.path

Then(node) == [node EXCEPT !.mode = "then"]

AsBefore == [data |-> "then", mode |-> "then"]

After(e, q, node) ==
    IF Settles(e, q) THEN IF e.action = "restore_file" THEN AsBefore ELSE NoFile
    ELSE IF Makes(e, q) /\ node = NoFile THEN Manifest!Created
    ELSE IF Modes(e, q) /\ node # NoFile THEN Then(node)
    ELSE node

ManifestFiles == [data : {"then", "now", Torn}, mode : {"then", "now", "created"}]

LEMMA NodesAre ==
    /\ Manifest!Nodes = {NoFile} \cup ManifestFiles /\ NoFile \notin ManifestFiles
    /\ AsBefore \in ManifestFiles /\ Manifest!Created \in ManifestFiles
    /\ Then(Manifest!Created) = AsBefore /\ Then(AsBefore) = AsBefore
    /\ \A f \in ManifestFiles : Then(f) \in ManifestFiles /\ Then(Then(f)) = Then(f)
    /\ \A f \in ManifestFiles : f.data = "then" => Then(f) = AsBefore
<1>1. Manifest!Nodes = {NoFile} \cup ManifestFiles /\ NoFile \notin ManifestFiles
  BY ManifestAssumption DEF ManifestAssumption, Manifest!Nodes, ManifestFiles
<1>2. AsBefore \in ManifestFiles /\ Manifest!Created \in ManifestFiles
  BY DEF ManifestFiles, AsBefore, Manifest!Created
<1>3. Then(Manifest!Created) = AsBefore /\ Then(AsBefore) = AsBefore
  BY DEF Then, AsBefore, Manifest!Created
<1>4. ASSUME NEW f \in ManifestFiles
      PROVE  /\ Then(f) \in ManifestFiles /\ Then(Then(f)) = Then(f)
             /\ f.data = "then" => Then(f) = AsBefore
  <2>1. Then(f) = [data |-> f.data, mode |-> "then"]
    BY DEF Then, ManifestFiles
  <2>2. Then(f) \in ManifestFiles
    BY <2>1 DEF ManifestFiles
  <2>3. Then(Then(f)) = [data |-> f.data, mode |-> "then"]
    BY <2>1 DEF Then
  <2> QED BY <2>1, <2>2, <2>3 DEF AsBefore
<1> QED BY <1>1, <1>2, <1>3, <1>4

LEMMA UndoneAt ==
    ASSUME NEW tree \in ManifestTrees, NEW e \in UndoEntries, NEW q \in Paths
    PROVE  Manifest!Undone(tree, e)[q] = After(e, q, tree[q])
<1>1. e.path \in Paths /\ e.action \in {"remove_created_path", "chmod", "restore_file"}
  BY DEF UndoEntries
<1>2. CASE e.action = "remove_created_path"
  BY <1>1, <1>2
  DEF Manifest!Undone, Manifest!Removed, After, Settles, Makes, Modes
<1>3. CASE e.action = "restore_file"
  <2> DEFINE opened == Manifest!Opened(tree, e.path)
  <2>1. opened \in ManifestTrees
    BY <1>1, EntriesMake
  <2>2. q # e.path => opened[q] = IF Makes(e, q) /\ tree[q] = NoFile THEN Manifest!Created
                                  ELSE tree[q]
    BY <1>3 DEF Manifest!Opened, Makes
  <2> HIDE DEF opened
  <2>3. Manifest!Undone(tree, e) = [opened EXCEPT ![e.path] = AsBefore]
    BY <1>3 DEF Manifest!Undone, Manifest!Restored, AsBefore, opened
  <2>4. [opened EXCEPT ![e.path] = AsBefore][q] = IF q = e.path THEN AsBefore ELSE opened[q]
    BY <2>1 DEF ManifestTrees
  <2> QED BY <1>3, <2>2, <2>3, <2>4 DEF After, Settles, Modes
<1>4. CASE e.action = "chmod"
  <2>1. Manifest!Undone(tree, e) = IF tree[e.path] = NoFile THEN tree
                                   ELSE Manifest!Moded(tree, e.path)
    BY <1>4 DEF Manifest!Undone
  <2>2. Manifest!Moded(tree, e.path)[q] = IF q = e.path THEN Then(tree[q]) ELSE tree[q]
    BY <1>1 DEF Manifest!Moded, Then, ManifestTrees
  <2> QED BY <1>4, <2>1, <2>2 DEF After, Settles, Makes, Modes
<1> QED BY <1>1, <1>2, <1>3, <1>4

-----------------------------------------------------------------------------
\* What is at a path, and what an uninterrupted execution has made of it when n entries
\* are left: the same, or the entries that are left settle it; or no entry does, and the
\* entries left will give it the mode, or make the directory, that it has already.
Untouched(es, q) == \A i \in 1 .. Len(es) : ~ Settles(es[i], q)

Agrees(es, n, q, node, ideal) ==
    \/ node = ideal
    \/ \E i \in 1 .. n : Settles(es[i], q)
    \/ /\ Untouched(es, q)
       /\ ideal # NoFile /\ node = Then(ideal)
       /\ \E i \in 1 .. n : Modes(es[i], q)
    \/ /\ Untouched(es, q)
       /\ ideal = NoFile /\ \E i \in 1 .. n : Makes(es[i], q)
       /\ \/ node = Manifest!Created
          \/ node = AsBefore /\ \E i \in 1 .. n : Modes(es[i], q)

\* Once an entry is taken back they agree for those left; the exception is a mode that
\* only one of the two could be given.
LEMMA AgreesOn ==
    ASSUME NEW es \in Seq(UndoEntries), NEW n \in 1 .. Len(es), NEW q \in Paths,
           NEW node \in Manifest!Nodes, NEW ideal \in Manifest!Nodes,
           Agrees(es, n, q, node, ideal),
           Untouched(es, q) /\ Modes(es[n], q) /\ ideal = NoFile => node = NoFile
    PROVE  Agrees(es, n - 1, q, After(es[n], q, node), After(es[n], q, ideal))
<1> DEFINE e == es[n]
<1>1. /\ n \in Nat \ {0} /\ n \in 1 .. Len(es)
      /\ \A i \in 1 .. n : i = n \/ i \in 1 .. n - 1
  OBVIOUS
<1>2. ~ (Makes(e, q) /\ Modes(e, q))
  BY DEF Makes, Modes
<1>3. CASE node = ideal \/ Settles(e, q)
  BY <1>3 DEF Agrees, After
<1>4. CASE ~ Settles(e, q) /\ \E i \in 1 .. n : Settles(es[i], q)
  BY <1>1, <1>4 DEF Agrees
<1>5. CASE /\ ~ Settles(e, q) /\ Untouched(es, q)
           /\ ideal # NoFile /\ node = Then(ideal)
           /\ \E i \in 1 .. n : Modes(es[i], q)
  <2>1. ideal \in ManifestFiles /\ node \in ManifestFiles /\ node # NoFile /\ Then(node) = node
    BY <1>5, NodesAre
  <2>2. CASE Modes(e, q)
    BY <1>5, <2>1, <2>2, <1>2 DEF Agrees, After
  <2>3. CASE ~ Modes(e, q)
    <3>1. After(e, q, node) = node /\ After(e, q, ideal) = ideal
      BY <1>5, <2>1, <2>3 DEF After
    <3> QED BY <1>1, <1>5, <2>3, <3>1 DEF Agrees
  <2> QED BY <2>2, <2>3
<1>6. CASE /\ ~ Settles(e, q) /\ Untouched(es, q)
           /\ ideal = NoFile /\ \E i \in 1 .. n : Makes(es[i], q)
           /\ \/ node = Manifest!Created
              \/ node = AsBefore /\ \E i \in 1 .. n : Modes(es[i], q)
  <2>1. node \in ManifestFiles /\ node # NoFile
    BY <1>6, NodesAre
  <2>2. ~ Modes(e, q)
    BY <1>6, <2>1
  <2>3. After(e, q, node) = node
    BY <1>6, <2>1, <2>2 DEF After
  <2>4. CASE Makes(e, q)
    <3>1. After(e, q, ideal) = Manifest!Created /\ Manifest!Created # NoFile
      BY <1>6, <2>4, NodesAre DEF After
    <3> QED BY <1>1, <1>6, <2>2, <2>3, <3>1, NodesAre DEF Agrees
  <2>5. CASE ~ Makes(e, q)
    <3>1. After(e, q, ideal) = NoFile
      BY <1>6, <2>2, <2>5 DEF After
    <3> QED BY <1>1, <1>6, <2>2, <2>3, <2>5, <3>1 DEF Agrees
  <2> QED BY <2>4, <2>5
<1> QED BY <1>3, <1>4, <1>5, <1>6 DEF Agrees

\* What is at a path and what was there first agree for all the entries, whichever entry
\* is taken back, and in whatever order.
LEMMA AgreesStill ==
    ASSUME NEW es \in Seq(UndoEntries), NEW n \in 1 .. Len(es), NEW q \in Paths,
           NEW node \in Manifest!Nodes, NEW ideal \in Manifest!Nodes,
           Agrees(es, Len(es), q, node, ideal)
    PROVE  Agrees(es, Len(es), q, After(es[n], q, node), ideal)
<1> DEFINE e == es[n]
           l == Len(es)
<1>1. n \in 1 .. l
  OBVIOUS
<1>2. ~ (Makes(e, q) /\ Modes(e, q))
  BY DEF Makes, Modes
<1> HIDE DEF l
<1>3. CASE \E i \in 1 .. l : Settles(es[i], q)
  BY <1>3 DEF Agrees, l
<1>4. CASE \A i \in 1 .. l : ~ Settles(es[i], q)
  <2>1. Untouched(es, q) /\ ~ Settles(e, q)
    BY <1>1, <1>4 DEF Untouched, l
  <2>2. CASE node = NoFile
    <3>1. ideal = NoFile
      BY <1>4, <2>2, NodesAre DEF Agrees, l
    <3>2. After(e, q, node) = IF Makes(e, q) THEN Manifest!Created ELSE NoFile
      BY <2>1, <2>2 DEF After
    <3> QED BY <1>1, <2>1, <3>1, <3>2 DEF Agrees, l
  <2>3. CASE node # NoFile
    <3>1. After(e, q, node) = IF Modes(e, q) THEN Then(node) ELSE node
      BY <2>1, <2>3 DEF After
    <3>2. CASE ~ Modes(e, q)
      BY <3>1, <3>2
    <3>3. CASE Modes(e, q)
      <4>1. node \in ManifestFiles
        BY <2>3, NodesAre
      <4>2. CASE ideal # NoFile
        <5>1. ideal \in ManifestFiles /\ (node = ideal \/ node = Then(ideal))
          BY <1>4, <4>2, NodesAre DEF Agrees, l
        <5>2. Then(node) = Then(ideal)
          BY <5>1, NodesAre
        <5> QED BY <1>1, <2>1, <3>1, <3>3, <4>2, <5>2 DEF Agrees, l
      <4>3. CASE ideal = NoFile
        <5>1. /\ \E i \in 1 .. l : Makes(es[i], q)
              /\ node = Manifest!Created \/ node = AsBefore
          BY <1>4, <2>3, <4>3 DEF Agrees, l
        <5>2. Then(node) = AsBefore
          BY <5>1, NodesAre
        <5> QED BY <1>1, <2>1, <3>1, <3>3, <4>3, <5>1, <5>2 DEF Agrees, l
      <4> QED BY <4>2, <4>3
    <3> QED BY <3>2, <3>3
  <2> QED BY <2>2, <2>3
<1> QED BY <1>3, <1>4

\* A path that no entry settles is missing after an uninterrupted execution only if it was
\* missing before, and no entry taken back makes it.
LEMMA LeavingMissing ==
    ASSUME NEW origin \in ManifestTrees, NEW es \in Seq(UndoEntries), NEW q \in Paths,
           Untouched(es, q), NEW n \in 0 .. Len(es),
           Manifest!Leaving(origin, es)[n][q] = NoFile
    PROVE  origin[q] = NoFile /\ \A i \in n + 1 .. Len(es) : ~ Makes(es[i], q)
<1> DEFINE L == Len(es)
           leaving == Manifest!Leaving(origin, es)
           Wrong(m) == /\ leaving[m][q] = NoFile
                       /\ origin[q] # NoFile \/ \E i \in m + 1 .. L : Makes(es[i], q)
           bad == {k \in 0 .. L : Wrong(L - k)}
<1>1. L \in Nat /\ \A m \in 1 .. L : es[m] \in UndoEntries
  OBVIOUS
<1>2. /\ leaving[L] = origin
      /\ \A m \in 1 .. L : leaving[m - 1] = Manifest!Undone(leaving[m], es[m])
      /\ \A m \in 0 .. L : leaving[m] \in ManifestTrees
  BY LeavingIs
<1>3. \A m \in 1 .. L : ~ Settles(es[m], q)
  BY DEF Untouched
<1> HIDE DEF L, leaving
<1>4. ASSUME NEW m \in 1 .. L, Wrong(m - 1) PROVE Wrong(m)
  <2>1. m \in 0 .. L /\ (m - 1) + 1 = m /\ \A i \in m .. L : i = m \/ i \in m + 1 .. L
    BY <1>1
  <2>2. leaving[m - 1][q] = After(es[m], q, leaving[m][q])
    BY <1>1, <1>2, <2>1, UndoneAt
  <2>3. ~ Makes(es[m], q) /\ leaving[m][q] = NoFile
    <3>1. leaving[m - 1][q] = NoFile /\ ~ Settles(es[m], q)
      BY <1>3, <1>4
    <3>2. leaving[m][q] \in Manifest!Nodes
      BY <1>2, <2>1 DEF ManifestTrees
    <3> HIDE DEF Wrong
    <3> QED BY <2>2, <3>1, <3>2, NodesAre DEF After, Makes, Modes
  <2> QED BY <1>4, <2>1, <2>3
<1>5. bad = {}
  <2> SUFFICES ASSUME bad # {} PROVE FALSE
    OBVIOUS
  <2>1. PICK k \in bad : \A i \in bad : k <= i
    <3>1. bad \in SUBSET Nat
      BY <1>1
    <3> HIDE DEF bad
    <3> QED BY <3>1, LeastExists
  <2>2. k \in 0 .. L /\ Wrong(L - k)
    OBVIOUS
  <2>3. k # 0
    <3>1. L - 0 = L /\ L + 1 .. L = {}
      BY <1>1
    <3>2. ~ Wrong(L)
      BY <1>2, <3>1
    <3> HIDE DEF bad, Wrong
    <3> QED BY <2>2, <3>1, <3>2
  <2>4. /\ k - 1 \in 0 .. L /\ L - k + 1 \in 1 .. L /\ L - (k - 1) = L - k + 1
        /\ (L - k + 1) - 1 = L - k
    BY <1>1, <2>2, <2>3
  <2>5. Wrong(L - k + 1)
    <3> HIDE DEF Wrong, bad
    <3> QED BY <1>4, <2>2, <2>4
  <2>6. k - 1 \in bad
    <3> HIDE DEF Wrong
    <3> QED BY <2>4, <2>5
  <2> HIDE DEF bad
  <2> QED BY <1>1, <2>1, <2>2, <2>6
<1>6. ~ Wrong(n)
  <2>1. L - n \in 0 .. L /\ L - (L - n) = n
    BY <1>1 DEF L
  <2>2. L - n \notin bad
    <3> HIDE DEF bad
    <3> QED BY <1>5
  <2> HIDE DEF Wrong
  <2> QED BY <2>1, <2>2
<1> QED BY <1>6 DEF L, leaving

-----------------------------------------------------------------------------
\* A path that nothing has made where an entry is to give it its mode: no execution comes
\* past that entry.
Blocked(q, j) ==
    /\ Untouched(disk.entries, q) /\ disk.origin[q] = NoFile
    /\ Modes(disk.entries[j], q)
    /\ \A i \in j + 1 .. Len(disk.entries) : ~ Makes(disk.entries[i], q)

NonePassesBlocked ==
    \A q \in Paths : \A j \in 1 .. Len(disk.entries) :
        Blocked(q, j) => disk.tree[q] = NoFile /\ \A c \in Calls : j <= mem[c]

\* Whoever starts may find what earlier executions left.
AllAgrees ==
    \A q \in Paths :
        Agrees(disk.entries, Len(disk.entries), q, disk.tree[q], disk.origin[q])

Ideal(n) == Manifest!Leaving(disk.origin, disk.entries)[n]

\* What a call has taken back is as an uninterrupted execution would leave it, or will be.
AgreesUpTo(n, paths) ==
    \A q \in paths : Agrees(disk.entries, n, q, disk.tree[q], Ideal(n)[q])

ExecutionFits(c) ==
    /\ Place(c) = "entry" => AgreesUpTo(mem[c], Paths)
    /\ Place(c) \in {"copy", "mode"} =>
          /\ disk.tree[Manifest!Entry(c).path] # NoFile
          /\ AgreesUpTo(mem[c] - 1, Paths \ {Manifest!Entry(c).path})
    /\ Place(c) = "mode" => disk.tree[Manifest!Entry(c).path].data = "then"
    /\ report[c] = "executed" => disk.tree = Manifest!Uninterrupted

RetryInv ==
    /\ ManifestInv
    /\ AllAgrees /\ NonePassesBlocked
    /\ \A c \in Calls :
          /\ Place(c) \in {"copy", "mode"} => Manifest!Entry(c).action = "restore_file"
          /\ Place(c) = "start" => mem[c] = Len(disk.entries)
          /\ Place(c) # "done" => report[c] = "none"
          /\ Manifest!Alone(c) => ExecutionFits(c)

LEMMA EntryOf ==
    ASSUME ManifestInv
    PROVE  /\ disk.entries \in Seq(UndoEntries) /\ Len(disk.entries) \in Nat
           /\ disk.tree \in ManifestTrees /\ disk.origin \in ManifestTrees
           /\ \A c \in Calls : mem[c] \in 0 .. Len(disk.entries)
           /\ \A c \in Calls : mem[c] > 0 =>
                 /\ mem[c] \in 1 .. Len(disk.entries)
                 /\ Manifest!Entry(c) = disk.entries[mem[c]]
                 /\ Manifest!Entry(c) \in UndoEntries /\ Manifest!Entry(c).path \in Paths
<1>1. disk.entries \in Seq(UndoEntries)
  BY LocalExecutorsAssumption
  DEF LocalExecutorsAssumption, ManifestInv, Manifest!TypeOK, UndoEntries
<1>2. Len(disk.entries) \in Nat /\ \A c \in Calls : mem[c] \in 0 .. Len(disk.entries)
  BY <1>1 DEF ManifestInv, Manifest!TypeOK
<1>3. disk.tree \in ManifestTrees /\ disk.origin \in ManifestTrees
  BY DEF ManifestInv, Manifest!TypeOK, ManifestTrees
<1>4. ASSUME NEW c \in Calls, mem[c] > 0
      PROVE  /\ mem[c] \in 1 .. Len(disk.entries)
             /\ Manifest!Entry(c) = disk.entries[mem[c]]
             /\ Manifest!Entry(c) \in UndoEntries /\ Manifest!Entry(c).path \in Paths
  <2>1. mem[c] \in 1 .. Len(disk.entries)
    BY <1>2, <1>4
  <2>2. disk.entries[mem[c]] \in UndoEntries
    BY <1>1, <2>1
  <2> QED BY <2>1, <2>2 DEF Manifest!Entry, UndoEntries
<1> QED BY <1>1, <1>2, <1>3, <1>4

-----------------------------------------------------------------------------
LEMMA ManifestSetsTree ==
    ASSUME ManifestInv, NEW c \in Calls, NEW tree, Manifest!SetTree(c, tree)
    PROVE  /\ disk'.tree = tree /\ disk'.origin = disk.origin /\ disk'.entries = disk.entries
           /\ \A d \in Calls \ {c} : Place(d) = "start" \/ d \in mixed'
<1>1. /\ disk' = [disk EXCEPT !.tree = tree]
      /\ mixed' = mixed \cup {d \in Calls \ {c} : Manifest!Begun(d)}
  BY DEF Manifest!SetTree, Manifest!Mix
<1>2. disk \in [tree : [Paths -> Manifest!Nodes], origin : [Paths -> Manifest!Nodes],
                entries : Manifests]
  BY DEF ManifestInv, Manifest!TypeOK
<1>3. \A d \in Calls : Manifest!Begun(d) <=> Place(d) # "start"
  BY ManifestPlaces DEF ManifestInv, Manifest!Begun
<1> QED BY <1>1, <1>2, <1>3

\* What a step changes: the paths that the entry it is at says something of, as the entry
\* says, or, on the way, one that the entry settles.
LEMMA StepTouches ==
    ASSUME RetryInv, NEW c \in Calls, Manifest!Step(c)
    PROVE  /\ disk'.origin = disk.origin /\ disk'.entries = disk.entries
           /\ \A q \in Paths :
                 \/ disk'.tree[q] = disk.tree[q]
                 \/ /\ mem[c] > 0
                    /\ \/ Settles(Manifest!Entry(c), q)
                       \/ disk'.tree[q] = After(Manifest!Entry(c), q, disk.tree[q])
           /\ \/ disk' = disk /\ mixed' = mixed
              \/ \A d \in Calls \ {c} : Place(d) = "start" \/ d \in mixed'
           /\ \/ mem' = mem
              \/ /\ mem[c] > 0 /\ mem' = [mem EXCEPT ![c] = mem[c] - 1]
                 /\ \/ Manifest!Entry(c).action # "chmod"
                    \/ disk.tree[Manifest!Entry(c).path] # NoFile
<1> DEFINE e == Manifest!Entry(c)
           p == e.path
<1>0. /\ ManifestInv /\ disk.tree \in [Paths -> Manifest!Nodes]
      /\ mem[c] > 0 => e \in UndoEntries /\ p \in Paths
      /\ Place(c) \in {"copy", "mode"} => mem[c] > 0 /\ e.action = "restore_file"
  BY EntryOf DEF RetryInv, ManifestInv, ManifestTrees
<1>1. CASE Manifest!RemovePath(c)
  <2>1. /\ mem[c] > 0 /\ e.action = "remove_created_path"
        /\ Manifest!SetTree(c, Manifest!Removed(disk.tree, p))
        /\ mem' = [mem EXCEPT ![c] = mem[c] - 1]
    BY <1>1 DEF Manifest!RemovePath, Manifest!Facing
  <2>2. \A q \in Paths :
           Settles(e, q) \/ Manifest!Removed(disk.tree, p)[q] = disk.tree[q]
    BY <2>1 DEF Settles, Manifest!Removed
  <2> QED BY <1>0, <2>1, <2>2, ManifestSetsTree
<1>2. CASE Manifest!Chmod(c)
  <2>1. /\ mem[c] > 0 /\ e.action = "chmod" /\ disk.tree[p] # NoFile
        /\ Manifest!SetTree(c, Manifest!Moded(disk.tree, p))
        /\ mem' = [mem EXCEPT ![c] = mem[c] - 1]
    BY <1>2 DEF Manifest!Chmod, Manifest!Facing
  <2>2. \A q \in Paths : \/ Manifest!Moded(disk.tree, p)[q] = disk.tree[q]
                         \/ Manifest!Moded(disk.tree, p)[q] = After(e, q, disk.tree[q])
    BY <1>0, <2>1 DEF Manifest!Moded, After, Settles, Makes, Modes, Then
  <2> QED BY <1>0, <2>1, <2>2, ManifestSetsTree
<1>3. CASE Manifest!OpenFile(c)
  <2>1. /\ mem[c] > 0 /\ e.action = "restore_file"
        /\ Manifest!SetTree(c, Manifest!Opened(disk.tree, p))
        /\ mem' = mem
    BY <1>3 DEF Manifest!OpenFile, Manifest!Facing
  <2>2. \A q \in Paths : \/ Settles(e, q)
                         \/ Manifest!Opened(disk.tree, p)[q] = After(e, q, disk.tree[q])
    BY <2>1 DEF Manifest!Opened, After, Settles, Makes, Modes
  <2> QED BY <1>0, <2>1, <2>2, ManifestSetsTree
<1>4. CASE Manifest!FillFile(c)
  <2>1. /\ Place(c) = "copy" /\ mem' = mem
        /\ Manifest!SetTree(c, [disk.tree EXCEPT ![p] = [@ EXCEPT !.data = "then"]])
    BY <1>0, <1>4, ManifestPlaces DEF Manifest!FillFile, ManifestInv
  <2>2. \A q \in Paths :
           \/ Settles(e, q)
           \/ [disk.tree EXCEPT ![p] = [@ EXCEPT !.data = "then"]][q] = disk.tree[q]
    BY <1>0, <2>1 DEF Settles
  <2> QED BY <1>0, <2>1, <2>2, ManifestSetsTree
<1>5. CASE Manifest!ChmodFile(c)
  <2>1. /\ Place(c) = "mode" /\ mem' = [mem EXCEPT ![c] = mem[c] - 1]
        /\ Manifest!SetTree(c, Manifest!Moded(disk.tree, p))
    BY <1>0, <1>5, ManifestPlaces DEF Manifest!ChmodFile, ManifestInv
  <2>2. \A q \in Paths :
           Settles(e, q) \/ Manifest!Moded(disk.tree, p)[q] = disk.tree[q]
    BY <1>0, <2>1 DEF Settles, Manifest!Moded
  <2> QED BY <1>0, <2>1, <2>2, ManifestSetsTree
<1>6. CASE \/ Manifest!Refuse(c) \/ Manifest!Begin(c) \/ Manifest!FillUnlinked(c)
           \/ Manifest!FailEntry(c) \/ Manifest!Executed(c) \/ Manifest!Crash(c)
  BY <1>6
  DEF Manifest!Refuse, Manifest!Begin, Manifest!FillUnlinked, Manifest!FailEntry,
      Manifest!Executed, Manifest!Crash, Manifest!Quiet
<1> QED BY <1>1, <1>2, <1>3, <1>4, <1>5, <1>6 DEF Manifest!Step

LEMMA AllAgreesKept ==
    ASSUME RetryInv, NEW c \in Calls, Manifest!Step(c)
    PROVE  AllAgrees'
<1> SUFFICES ASSUME NEW q \in Paths
             PROVE  Agrees(disk.entries, Len(disk.entries), q, disk'.tree[q], disk.origin[q])
  BY StepTouches DEF AllAgrees
<1> DEFINE es == disk.entries
           n == mem[c]
<1>1. Agrees(es, Len(es), q, disk.tree[q], disk.origin[q]) /\ ManifestInv
  BY DEF RetryInv, AllAgrees
<1>2. CASE disk'.tree[q] = disk.tree[q]
  BY <1>1, <1>2
<1>3. CASE n > 0 /\ Settles(Manifest!Entry(c), q)
  BY <1>1, <1>3, EntryOf DEF Agrees
<1>4. CASE n > 0 /\ disk'.tree[q] = After(Manifest!Entry(c), q, disk.tree[q])
  <2>1. /\ es \in Seq(UndoEntries) /\ n \in 1 .. Len(es) /\ Manifest!Entry(c) = es[n]
        /\ disk.tree[q] \in Manifest!Nodes /\ disk.origin[q] \in Manifest!Nodes
    BY <1>1, <1>4, EntryOf DEF ManifestTrees
  <2> HIDE DEF n
  <2> QED BY <1>1, <1>4, <2>1, AgreesStill
<1> QED BY <1>2, <1>3, <1>4, StepTouches

LEMMA BlockedKept ==
    ASSUME RetryInv, NEW c \in Calls, Manifest!Step(c)
    PROVE  NonePassesBlocked'
<1> SUFFICES ASSUME NEW q \in Paths, NEW j \in 1 .. Len(disk.entries), Blocked(q, j)
             PROVE  disk'.tree[q] = NoFile /\ \A d \in Calls : j <= mem'[d]
  BY StepTouches DEF NonePassesBlocked, Blocked
<1> DEFINE es == disk.entries
           n == mem[c]
           e == Manifest!Entry(c)
<1>1. ManifestInv /\ disk.tree[q] = NoFile /\ \A d \in Calls : j <= mem[d]
  BY DEF RetryInv, NonePassesBlocked
<1>2. n > 0 => n \in 1 .. Len(es) /\ e = es[n]
  BY <1>1, EntryOf
<1>3. Untouched(es, q) /\ Modes(es[j], q) /\ \A i \in j + 1 .. Len(es) : ~ Makes(es[i], q)
  BY DEF Blocked
<1>4. n > 0 => ~ Settles(e, q)
  BY <1>2, <1>3 DEF Untouched
<1>5. n > 0 => ~ Makes(e, q)
  <2>1. n > 0 => n = j \/ n \in j + 1 .. Len(es)
    BY <1>1, <1>2
  <2>2. ~ Makes(es[j], q)
    BY <1>3 DEF Makes, Modes
  <2> QED BY <1>2, <1>3, <2>1, <2>2
<1>6. disk'.tree[q] = NoFile
  <2>1. n > 0 => After(e, q, NoFile) = NoFile
    BY <1>4, <1>5 DEF After
  <2> QED BY <1>1, <1>4, <2>1, StepTouches
<1>7. ASSUME NEW d \in Calls PROVE j <= mem'[d]
  <2>1. CASE mem' = mem
    BY <1>1, <2>1
  <2>2. CASE /\ n > 0 /\ mem' = [mem EXCEPT ![c] = n - 1]
             /\ e.action # "chmod" \/ disk.tree[e.path] # NoFile
    <3>1. mem \in [Calls -> 0 .. Len(disk.entries)]
      BY <1>1 DEF ManifestInv, Manifest!TypeOK
    <3>2. n # j
      BY <1>1, <1>2, <1>3, <2>2 DEF Modes
    <3>3. j <= n - 1
      BY <1>1, <1>2, <2>2, <3>2
    <3> HIDE DEF n
    <3> QED BY <1>1, <2>2, <3>1, <3>3
  <2> QED BY <2>1, <2>2, StepTouches
<1> QED BY <1>6, <1>7

-----------------------------------------------------------------------------
\* An entry taken back on both sides.
LEMMA TakenBack ==
    ASSUME RetryInv, NEW c \in Calls, mem[c] > 0, NEW q \in Paths,
           Agrees(disk.entries, mem[c], q, disk.tree[q], Ideal(mem[c])[q])
    PROVE  /\ Ideal(mem[c] - 1)[q] = After(Manifest!Entry(c), q, Ideal(mem[c])[q])
           /\ Agrees(disk.entries, mem[c] - 1, q,
                     After(Manifest!Entry(c), q, disk.tree[q]), Ideal(mem[c] - 1)[q])
<1> DEFINE es == disk.entries
           n == mem[c]
<1>1. /\ es \in Seq(UndoEntries) /\ n \in 1 .. Len(es) /\ Manifest!Entry(c) = es[n]
      /\ es[n] \in UndoEntries /\ n \in 0 .. Len(es)
      /\ disk.tree \in ManifestTrees /\ disk.origin \in ManifestTrees
  BY EntryOf DEF RetryInv
<1>2. Agrees(es, n, q, disk.tree[q], Ideal(n)[q])
  OBVIOUS
<1>3. Ideal(n) \in ManifestTrees /\ Ideal(n - 1) = Manifest!Undone(Ideal(n), es[n])
  BY <1>1, LeavingIs DEF Ideal
<1>4. Ideal(n - 1)[q] = After(es[n], q, Ideal(n)[q])
  BY <1>1, <1>3, UndoneAt
<1>5. Untouched(es, q) /\ Modes(es[n], q) /\ Ideal(n)[q] = NoFile => disk.tree[q] = NoFile
  <2> SUFFICES ASSUME Untouched(es, q), Modes(es[n], q), Ideal(n)[q] = NoFile
               PROVE  disk.tree[q] = NoFile
    OBVIOUS
  <2>1. disk.origin[q] = NoFile /\ \A i \in n + 1 .. Len(es) : ~ Makes(es[i], q)
    BY <1>1, LeavingMissing DEF Ideal
  <2>2. Blocked(q, n)
    BY <2>1 DEF Blocked
  <2> QED BY <1>1, <2>2 DEF RetryInv, NonePassesBlocked
<1>6. disk.tree[q] \in Manifest!Nodes /\ Ideal(n)[q] \in Manifest!Nodes
  BY <1>1, <1>3 DEF ManifestTrees
<1>7. Agrees(es, n - 1, q, After(es[n], q, disk.tree[q]), After(es[n], q, Ideal(n)[q]))
  <2> HIDE DEF n, es
  <2> QED BY <1>1, <1>2, <1>5, <1>6, AgreesOn
<1> QED BY <1>1, <1>4, <1>7

\* An entry that removes or gives a mode is taken back in one step.
LEMMA EntryInOneStep ==
    ASSUME RetryInv, NEW c \in Calls, Manifest!RemovePath(c) \/ Manifest!Chmod(c)
    PROVE  /\ mem[c] > 0 /\ mem' = [mem EXCEPT ![c] = mem[c] - 1]
           /\ disk'.entries = disk.entries /\ disk'.origin = disk.origin
           /\ \A q \in Paths :
                 disk'.tree[q] = After(Manifest!Entry(c), q, disk.tree[q])
<1> DEFINE e == Manifest!Entry(c)
<1>1. /\ mem[c] > 0 /\ mem' = [mem EXCEPT ![c] = mem[c] - 1]
      /\ Manifest!SetTree(c, Manifest!Undone(disk.tree, e))
  BY DEF Manifest!RemovePath, Manifest!Chmod, Manifest!Facing, Manifest!Undone
<1>2. e \in UndoEntries /\ disk.tree \in ManifestTrees /\ ManifestInv
  BY <1>1, EntryOf DEF RetryInv
<1>3. \A q \in Paths : Manifest!Undone(disk.tree, e)[q] = After(e, q, disk.tree[q])
  BY <1>2, UndoneAt
<1> HIDE DEF e
<1>4. /\ disk'.tree = Manifest!Undone(disk.tree, e)
      /\ disk'.entries = disk.entries /\ disk'.origin = disk.origin
  BY <1>1, <1>2, ManifestSetsTree
<1> QED BY <1>1, <1>3, <1>4 DEF e

\* A file that is restored is settled step by step.
LEMMA FileInSteps ==
    ASSUME RetryInv, NEW c \in Calls
    PROVE  LET e == Manifest!Entry(c)
           IN  /\ Manifest!OpenFile(c) =>
                     /\ mem[c] > 0 /\ disk'.tree[e.path] # NoFile
                     /\ \A q \in Paths \ {e.path} :
                           disk'.tree[q] = After(e, q, disk.tree[q])
               /\ Manifest!FillFile(c) =>
                     /\ disk'.tree[e.path] # NoFile /\ disk'.tree[e.path].data = "then"
                     /\ \A q \in Paths \ {e.path} : disk'.tree[q] = disk.tree[q]
               /\ Manifest!ChmodFile(c) =>
                     /\ disk.tree[e.path] # NoFile
                     /\ disk'.tree[e.path] = Then(disk.tree[e.path])
                     /\ \A q \in Paths \ {e.path} : disk'.tree[q] = disk.tree[q]
<1> DEFINE e == Manifest!Entry(c)
           p == e.path
<1>1. /\ ManifestInv /\ disk.tree \in [Paths -> Manifest!Nodes]
      /\ Place(c) \in {"copy", "mode"} => mem[c] > 0
      /\ mem[c] > 0 => p \in Paths
  BY EntryOf DEF RetryInv, ManifestInv, ManifestTrees
<1>2. ASSUME Manifest!OpenFile(c)
      PROVE  /\ mem[c] > 0 /\ disk'.tree[p] # NoFile
             /\ \A q \in Paths \ {p} : disk'.tree[q] = After(e, q, disk.tree[q])
  <2>1. mem[c] > 0 /\ e.action = "restore_file"
    BY <1>2 DEF Manifest!OpenFile, Manifest!Facing
  <2>2. Manifest!SetTree(c, Manifest!Opened(disk.tree, p))
    BY <1>2 DEF Manifest!OpenFile
  <2>3. disk'.tree = Manifest!Opened(disk.tree, p)
    BY <1>1, <2>2, ManifestSetsTree
  <2>4. \A q \in Paths \ {p} : Manifest!Opened(disk.tree, p)[q] = After(e, q, disk.tree[q])
    BY <2>1 DEF Manifest!Opened, After, Settles, Makes, Modes
  <2>5. Manifest!Opened(disk.tree, p)[p] # NoFile
    <3>1. /\ [Manifest!Created EXCEPT !.data = Torn] \in ManifestFiles
          /\ \A f \in ManifestFiles : [f EXCEPT !.data = Torn] \in ManifestFiles
      BY DEF ManifestFiles, Manifest!Created
    <3>2. Manifest!Opened(disk.tree, p)[p] =
              IF disk.tree[p] = NoFile THEN [Manifest!Created EXCEPT !.data = Torn]
              ELSE [disk.tree[p] EXCEPT !.data = Torn]
      BY <1>1, <2>1 DEF Manifest!Opened
    <3>3. disk.tree[p] = NoFile \/ disk.tree[p] \in ManifestFiles
      BY <1>1, <2>1, NodesAre
    <3> QED BY <3>1, <3>2, <3>3, NodesAre
  <2> QED BY <2>1, <2>3, <2>4, <2>5
<1>3. ASSUME Manifest!FillFile(c)
      PROVE  /\ disk'.tree[p] # NoFile /\ disk'.tree[p].data = "then"
             /\ \A q \in Paths \ {p} : disk'.tree[q] = disk.tree[q]
  <2>1. /\ Place(c) = "copy" /\ disk.tree[p] # NoFile
        /\ Manifest!SetTree(c, [disk.tree EXCEPT ![p] = [@ EXCEPT !.data = "then"]])
    BY <1>1, <1>3, ManifestPlaces DEF Manifest!FillFile, ManifestInv
  <2>2. disk'.tree = [disk.tree EXCEPT ![p] = [@ EXCEPT !.data = "then"]]
    BY <1>1, <2>1, ManifestSetsTree
  <2>3. disk.tree[p] \in ManifestFiles
    BY <1>1, <2>1, NodesAre
  <2>4. \A f \in ManifestFiles : /\ [f EXCEPT !.data = "then"] \in ManifestFiles
                                 /\ [f EXCEPT !.data = "then"].data = "then"
    BY DEF ManifestFiles
  <2>5. disk'.tree[p] = [disk.tree[p] EXCEPT !.data = "then"]
    BY <1>1, <2>1, <2>2
  <2> QED BY <1>1, <2>2, <2>3, <2>4, <2>5, NodesAre
<1>4. ASSUME Manifest!ChmodFile(c)
      PROVE  /\ disk.tree[p] # NoFile /\ disk'.tree[p] = Then(disk.tree[p])
             /\ \A q \in Paths \ {p} : disk'.tree[q] = disk.tree[q]
  <2>1. /\ Place(c) = "mode" /\ disk.tree[p] # NoFile
        /\ Manifest!SetTree(c, Manifest!Moded(disk.tree, p))
    BY <1>1, <1>4, ManifestPlaces DEF Manifest!ChmodFile, ManifestInv
  <2>2. disk'.tree = Manifest!Moded(disk.tree, p)
    BY <1>1, <2>1, ManifestSetsTree
  <2> QED BY <1>1, <2>1, <2>2 DEF Manifest!Moded, Then
<1> QED BY <1>2, <1>3, <1>4

LEMMA ExecutionKeeps ==
    ASSUME RetryInv, NEW c \in Calls, Manifest!Step(c), ManifestInv', Manifest!Alone(c)'
    PROVE  ExecutionFits(c)'
<1> DEFINE e == Manifest!Entry(c)
           p == e.path
           n == mem[c]
<1>0. /\ ManifestInv /\ pc \in [Calls -> Manifest!Places(Manifest!Labels)]
      /\ mem \in [Calls -> 0 .. Len(disk.entries)]
      /\ report \in [Calls -> Manifest!Reports]
      /\ disk'.entries = disk.entries /\ disk'.origin = disk.origin
  BY StepTouches DEF RetryInv, ManifestInv, Manifest!TypeOK
<1>1. Place(c) # "start" => ExecutionFits(c) /\ Manifest!Alone(c)
  <2>1. mixed \subseteq mixed'
    BY DEF Manifest!Step, Manifest!Refuse, Manifest!Begin, Manifest!RemovePath,
           Manifest!Chmod, Manifest!OpenFile, Manifest!FillFile, Manifest!FillUnlinked,
           Manifest!ChmodFile, Manifest!FailEntry, Manifest!Executed, Manifest!Crash,
           Manifest!Quiet, Manifest!SetTree, Manifest!Mix
  <2>2. Place(c) # "start" => Manifest!Alone(c)
    BY <1>0, <2>1, ManifestPlaces DEF Manifest!Alone, Manifest!Begun, ManifestInv
  <2> QED BY <2>2 DEF RetryInv
<1>2. Place(c) # "done" => report[c] = "none"
  BY DEF RetryInv
<1>3. \A m : Ideal(m)' = Ideal(m)
  BY <1>0 DEF Ideal
<1>4. n > 0 => /\ n \in 1 .. Len(disk.entries) /\ e = disk.entries[n] /\ p \in Paths
               /\ disk.tree \in [Paths -> Manifest!Nodes]
  BY <1>0, EntryOf DEF ManifestTrees
<1>5. CASE Manifest!Begin(c)
  <2>1. /\ Place(c) = "start" /\ Place(c)' = "entry" /\ report' = report
        /\ mem' = mem /\ disk' = disk
    BY <1>0, <1>5, ManifestPlaces DEF Manifest!Begin, Manifest!Quiet, ManifestInv
  <2>2. n = Len(disk.entries) /\ Ideal(n) = disk.origin
    <3>1. n = Len(disk.entries)
      BY <2>1 DEF RetryInv
    <3> QED BY <1>0, <3>1, EntryOf, LeavingIs DEF Ideal
  <2>3. AgreesUpTo(n, Paths)
    <3> HIDE DEF n
    <3> QED BY <2>2 DEF RetryInv, AllAgrees, AgreesUpTo
  <2>4. AgreesUpTo(mem[c], Paths)'
    BY <1>3, <2>1, <2>3 DEF AgreesUpTo
  <2> QED BY <1>2, <2>1, <2>4 DEF ExecutionFits
<1>6. CASE Manifest!RemovePath(c) \/ Manifest!Chmod(c)
  <2>1. /\ Place(c) = "entry" /\ Place(c)' = "entry" /\ report' = report
    BY <1>0, <1>6, ManifestPlaces
    DEF Manifest!RemovePath, Manifest!Chmod, Manifest!Facing, ManifestInv, Place
  <2>2. /\ n > 0 /\ mem'[c] = n - 1
        /\ \A q \in Paths : disk'.tree[q] = After(e, q, disk.tree[q])
    BY <1>0, <1>6, EntryInOneStep
  <2>3. \A q \in Paths : Agrees(disk.entries, n, q, disk.tree[q], Ideal(n)[q])
    BY <1>1, <2>1 DEF ExecutionFits, AgreesUpTo
  <2>4. \A q \in Paths : Agrees(disk.entries, n - 1, q, disk'.tree[q], Ideal(n - 1)[q])
    BY <2>2, <2>3, TakenBack
  <2>5. AgreesUpTo(mem[c], Paths)'
    <3> HIDE DEF n
    <3> QED BY <1>0, <1>3, <2>2, <2>4 DEF AgreesUpTo
  <2> QED BY <1>2, <2>1, <2>5 DEF ExecutionFits
<1>7. CASE Manifest!OpenFile(c)
  <2>1. /\ Place(c) = "entry" /\ Place(c)' = "copy" /\ report' = report /\ mem' = mem
    BY <1>0, <1>7, ManifestPlaces DEF Manifest!OpenFile, Manifest!Facing, ManifestInv
  <2>2. /\ n > 0 /\ disk'.tree[p] # NoFile
        /\ \A q \in Paths \ {p} : disk'.tree[q] = After(e, q, disk.tree[q])
    BY <1>7, FileInSteps
  <2>3. \A q \in Paths : Agrees(disk.entries, n, q, disk.tree[q], Ideal(n)[q])
    BY <1>1, <2>1 DEF ExecutionFits, AgreesUpTo
  <2>4. \A q \in Paths \ {p} :
           Agrees(disk.entries, n - 1, q, disk'.tree[q], Ideal(n - 1)[q])
    BY <2>2, <2>3, TakenBack
  <2>5. e' = e
    BY <1>0, <2>1 DEF Manifest!Entry
  <2>6. AgreesUpTo(mem[c] - 1, Paths \ {e.path})'
    <3> HIDE DEF e, n
    <3> QED BY <1>0, <1>3, <2>1, <2>4, <2>5 DEF AgreesUpTo, n
  <2> QED BY <1>2, <2>1, <2>2, <2>5, <2>6 DEF ExecutionFits
<1>8. CASE Manifest!FillFile(c)
  <2>1. /\ Place(c) = "copy" /\ Place(c)' = "mode" /\ report' = report /\ mem' = mem
    BY <1>0, <1>8, ManifestPlaces DEF Manifest!FillFile, ManifestInv
  <2>2. /\ disk'.tree[p] # NoFile /\ disk'.tree[p].data = "then"
        /\ \A q \in Paths \ {p} : disk'.tree[q] = disk.tree[q]
    BY <1>8, FileInSteps
  <2>3. \A q \in Paths \ {p} :
           Agrees(disk.entries, n - 1, q, disk'.tree[q], Ideal(n - 1)[q])
    BY <1>1, <2>1, <2>2 DEF ExecutionFits, AgreesUpTo
  <2>4. e' = e
    BY <1>0, <2>1 DEF Manifest!Entry
  <2>5. AgreesUpTo(mem[c] - 1, Paths \ {e.path})'
    <3> HIDE DEF e, n
    <3> QED BY <1>0, <1>3, <2>1, <2>3, <2>4 DEF AgreesUpTo, n
  <2> QED BY <1>2, <2>1, <2>2, <2>4, <2>5 DEF ExecutionFits
<1>9. CASE Manifest!FillUnlinked(c)
  BY <1>0, <1>1, <1>9, ManifestPlaces DEF Manifest!FillUnlinked, ExecutionFits, ManifestInv
<1>10. CASE Manifest!ChmodFile(c)
  <2>1. /\ Place(c) = "mode" /\ Place(c)' = "entry" /\ report' = report
        /\ mem'[c] = n - 1
    BY <1>0, <1>10, ManifestPlaces DEF Manifest!ChmodFile, ManifestInv
  <2>2. /\ disk.tree[p] # NoFile /\ disk'.tree[p] = Then(disk.tree[p])
        /\ \A q \in Paths \ {p} : disk'.tree[q] = disk.tree[q]
    BY <1>10, FileInSteps
  <2>3. /\ n > 0 /\ e.action = "restore_file" /\ disk.tree[p].data = "then"
        /\ \A q \in Paths \ {p} :
              Agrees(disk.entries, n - 1, q, disk.tree[q], Ideal(n - 1)[q])
    BY <1>1, <2>1 DEF ExecutionFits, AgreesUpTo, RetryInv, ManifestInv
  <2>4. disk'.tree[p] = AsBefore
    BY <1>4, <2>2, <2>3, NodesAre
  <2>5. Ideal(n - 1)[p] = AsBefore
    <3>1. /\ disk.entries \in Seq(UndoEntries) /\ disk.origin \in ManifestTrees
          /\ n \in 0 .. Len(disk.entries) /\ e \in UndoEntries
      BY <1>0, <2>3, EntryOf
    <3>2. Ideal(n) \in ManifestTrees /\ Ideal(n - 1) = Manifest!Undone(Ideal(n), e)
      BY <1>4, <2>3, <3>1, LeavingIs DEF Ideal
    <3>3. Ideal(n - 1)[p] = After(e, p, Ideal(n)[p])
      BY <1>4, <2>3, <3>1, <3>2, UndoneAt
    <3> QED BY <2>3, <3>3 DEF After, Settles
  <2>6. \A q \in Paths : Agrees(disk.entries, n - 1, q, disk'.tree[q], Ideal(n - 1)[q])
    BY <2>2, <2>3, <2>4, <2>5 DEF Agrees
  <2>7. AgreesUpTo(mem[c], Paths)'
    <3> HIDE DEF n
    <3> QED BY <1>0, <1>3, <2>1, <2>6 DEF AgreesUpTo
  <2> QED BY <1>2, <2>1, <2>7 DEF ExecutionFits
<1>11. CASE Manifest!Executed(c)
  <2>1. Place(c) = "entry" /\ n = 0 /\ Place(c)' = "done" /\ disk' = disk
    BY <1>0, <1>11, ManifestPlaces
    DEF Manifest!Executed, Manifest!Return, Manifest!Quiet, ManifestInv
  <2>2. \A q \in Paths : Agrees(disk.entries, 0, q, disk.tree[q], Ideal(0)[q])
    BY <1>1, <2>1 DEF ExecutionFits, AgreesUpTo
  <2>3. \A q \in Paths : disk.tree[q] = Ideal(0)[q]
    BY <2>2 DEF Agrees
  <2>4. disk.tree \in ManifestTrees /\ Ideal(0) \in ManifestTrees
    <3>1. 0 \in 0 .. Len(disk.entries)
      BY <1>0, EntryOf
    <3> QED BY <1>0, <3>1, EntryOf, LeavingIs DEF Ideal
  <2>5. disk.tree = Ideal(0)
    BY <2>3, <2>4 DEF ManifestTrees
  <2>6. disk'.tree = Manifest!Uninterrupted'
    BY <2>1, <2>5 DEF Ideal, Manifest!Uninterrupted
  <2> QED BY <2>1, <2>6 DEF ExecutionFits
<1>12. CASE Manifest!Refuse(c) \/ Manifest!FailEntry(c) \/ Manifest!Crash(c)
  <2>1. Place(c)' = "done" /\ report'[c] # "executed"
    BY <1>0, <1>12, ManifestPlaces
    DEF Manifest!Refuse, Manifest!FailEntry, Manifest!Crash, Manifest!Return, ManifestInv
  <2> QED BY <2>1 DEF ExecutionFits
<1> QED
  BY <1>5, <1>6, <1>7, <1>8, <1>9, <1>10, <1>11, <1>12 DEF Manifest!Step

LEMMA OtherExecutionsKeep ==
    ASSUME RetryInv, NEW c \in Calls, Manifest!Step(c), ManifestInv',
           NEW d \in Calls, d # c
    PROVE  /\ Place(d)' = Place(d) /\ mem'[d] = mem[d] /\ report'[d] = report[d]
           /\ Manifest!Alone(d)' => ExecutionFits(d)'
<1>1. /\ ManifestInv /\ mem \in [Calls -> 0 .. Len(disk.entries)]
      /\ report \in [Calls -> Manifest!Reports]
      /\ disk'.entries = disk.entries
  BY StepTouches DEF RetryInv, ManifestInv, Manifest!TypeOK
<1>2. Place(d)' = Place(d)
  BY <1>1, ManifestGoes, ManifestPlaces DEF ManifestInv, Place
<1>3. mem'[d] = mem[d]
  BY <1>1, StepTouches
<1>4. report'[d] = report[d]
  BY <1>1
  DEF Manifest!Step, Manifest!Refuse, Manifest!Begin, Manifest!RemovePath, Manifest!Chmod,
      Manifest!OpenFile, Manifest!FillFile, Manifest!FillUnlinked, Manifest!ChmodFile,
      Manifest!FailEntry, Manifest!Executed, Manifest!Crash, Manifest!Return
<1>5. ASSUME Manifest!Alone(d)' PROVE ExecutionFits(d)'
  <2>1. Place(d)' # "start" /\ d \notin mixed'
    <3>1. (Manifest!At(d, "start") <=> Place(d) = "start")'
      BY ManifestPlaces DEF ManifestInv, Manifest!TypeOK, Manifest!Places, Place, Manifest!At
    <3> QED BY <1>5, <3>1 DEF Manifest!Alone, Manifest!Begun
  <2>2. disk' = disk /\ mixed' = mixed
    BY <1>2, <2>1, StepTouches
  <2>3. ExecutionFits(d)
    <3>1. Manifest!Alone(d)
      BY <1>1, <1>2, <2>1, <2>2, ManifestPlaces
      DEF Manifest!Alone, Manifest!Begun, ManifestInv
    <3> QED BY <3>1 DEF RetryInv
  <2> QED
    BY <1>2, <1>3, <1>4, <2>2, <2>3
    DEF ExecutionFits, AgreesUpTo, Ideal, Manifest!Entry, Manifest!Uninterrupted
<1> QED BY <1>2, <1>3, <1>4, <1>5

LEMMA RetryStep ==
    ASSUME RetryInv, NEW c \in Calls, Manifest!Step(c)
    PROVE  RetryInv'
<1>1. ManifestInv /\ ManifestInv' /\ disk'.entries = disk.entries
  BY ManifestStep, StepTouches DEF RetryInv
<1>2. AllAgrees' /\ NonePassesBlocked'
  BY AllAgreesKept, BlockedKept
<1>3. ASSUME NEW d \in Calls
      PROVE  /\ Place(d)' \in {"copy", "mode"} => Manifest!Entry(d).action' = "restore_file"
             /\ Place(d)' = "start" => mem'[d] = Len(disk'.entries)
             /\ Place(d)' # "done" => report'[d] = "none"
             /\ Manifest!Alone(d)' => ExecutionFits(d)'
  <2>1. CASE d # c
    BY <1>1, <2>1, OtherExecutionsKeep DEF RetryInv, Manifest!Entry
  <2>2. CASE d = c
    <3>1. /\ Place(c) \in {"copy", "mode"} => Manifest!Entry(c).action = "restore_file"
          /\ Place(c) # "done" => report[c] = "none"
      BY DEF RetryInv
    <3>2. Manifest!Alone(c)' => ExecutionFits(c)'
      BY <1>1, ExecutionKeeps
    <3>3. CASE Manifest!OpenFile(c) \/ Manifest!FillFile(c) \/ Manifest!FillUnlinked(c)
      <4>1. /\ Manifest!Entry(c).action = "restore_file" /\ Place(c) # "done"
            /\ mem' = mem /\ report' = report /\ Place(c)' \in {"copy", "mode"}
        BY <1>1, <3>1, <3>3, ManifestPlaces
        DEF Manifest!OpenFile, Manifest!FillFile, Manifest!FillUnlinked, Manifest!Facing,
            ManifestInv
      <4> QED BY <1>1, <2>2, <3>1, <3>2, <4>1 DEF Manifest!Entry
    <3>4. CASE \/ Manifest!Begin(c) \/ Manifest!RemovePath(c) \/ Manifest!Chmod(c)
               \/ Manifest!ChmodFile(c)
      <4>1. Place(c) # "done" /\ report' = report /\ Place(c)' = "entry"
        BY <1>1, <3>4, ManifestPlaces
        DEF Manifest!Begin, Manifest!RemovePath, Manifest!Chmod, Manifest!ChmodFile,
            Manifest!Facing, ManifestInv, Place
      <4> QED BY <2>2, <3>1, <3>2, <4>1
    <3>5. CASE \/ Manifest!Refuse(c) \/ Manifest!FailEntry(c) \/ Manifest!Executed(c)
               \/ Manifest!Crash(c)
      <4>1. Place(c)' = "done"
        BY <1>1, <3>5, ManifestPlaces
        DEF Manifest!Refuse, Manifest!FailEntry, Manifest!Executed, Manifest!Crash,
            Manifest!Return, ManifestInv
      <4> QED BY <2>2, <3>2, <4>1
    <3> QED BY <3>3, <3>4, <3>5 DEF Manifest!Step
  <2> QED BY <2>1, <2>2
<1> QED BY <1>1, <1>2, <1>3 DEF RetryInv

LEMMA RetryInit == ASSUME Manifest!Init, Works("rollback") PROVE RetryInv
<1>1. PICK tree \in [Paths -> {NoFile} \cup [data : {"now"}, mode : {"now"}]],
           entries \in Manifests :
          /\ disk = [tree |-> tree, origin |-> tree, entries |-> entries]
          /\ mem = [c \in Calls |-> Len(entries)]
  BY DEF Manifest!Init
<1>2. /\ pc = [c \in Calls |-> <<"rollback", "start">>]
      /\ report = [c \in Calls |-> "none"] /\ mixed = {}
  BY DEF Manifest!Init, Manifest!CallsInit
<1>3. ManifestInv
  BY ManifestInit
<1>4. AllAgrees
  BY <1>1 DEF AllAgrees, Agrees
<1>5. NonePassesBlocked
  BY <1>1 DEF NonePassesBlocked, Blocked
<1>6. ASSUME NEW c \in Calls
      PROVE  Place(c) = "start" /\ ~ Manifest!Alone(c) /\ report[c] = "none"
  BY <1>2 DEF Place, Manifest!Alone, Manifest!Begun, Manifest!At
<1>7. \A c \in Calls : mem[c] = Len(disk.entries)
  BY <1>1
<1> QED BY <1>3, <1>4, <1>5, <1>6, <1>7 DEF RetryInv

LEMMA RetryHolds == Spec => [](Works("rollback") => RetryInv)
<1>1. Init => (Works("rollback") => RetryInv)
  BY InitWorks, WorksAlone, RetryInit
<1>2. ASSUME OneWorks, Works("rollback") => RetryInv, [Next]_vars, Works("rollback")'
      PROVE  RetryInv'
  <2>1. Works("rollback")
    BY <1>2, WorksOn DEF OneWorks
  <2>2. CASE Next
    BY <1>2, <2>1, <2>2, OneExecutor, RetryStep DEF Manifest!Next
  <2>3. CASE UNCHANGED vars
    BY <1>2, <2>1, <2>3
    DEF RetryInv, ManifestInv, Manifest!TypeOK, AllAgrees, NonePassesBlocked, Blocked,
        ExecutionFits, AgreesUpTo, Ideal, Manifest!Entry, Manifest!Uninterrupted,
        Manifest!Alone, Manifest!Begun, Manifest!At, Place, vars
  <2> QED BY <1>2, <2>2, <2>3
<1> QED BY <1>1, <1>2, OneExecutorWorks, PTL DEF Spec

\* rollbackmanifest.Execute: whatever earlier executions left when they failed or died,
\* and in whatever order they came beside one another, an execution that is not disturbed
\* and ends without an error leaves every path as one uninterrupted execution would have
\* left it; for every manifest.
THEOREM RetryEndsAsOne == Spec => []RetryEndsAsOneExecution
<1>1. OneWorks /\ (Works("rollback") => RetryInv) => RetryEndsAsOneExecution
  <2>1. ASSUME RetryInv, NEW c \in Calls, Manifest!Alone(c), report[c] = "executed"
        PROVE  disk.tree = Manifest!Uninterrupted
    BY <2>1 DEF RetryInv, ExecutionFits
  <2>2. ASSUME RetryInv PROVE Manifest!RetryEndsAsOneExecution
    BY <2>1, <2>2 DEF Manifest!RetryEndsAsOneExecution
  <2> QED BY <2>2, RunsWorks DEF RetryEndsAsOneExecution
<1> QED BY <1>1, OneExecutorWorks, RetryHolds, PTL
=============================================================================
