-------------------------- MODULE MCLocalExecutors --------------------------
(***************************************************************************)
(* Two calls of each executor that begin in the same second, so that they  *)
(* share backups and manifests.  Two packages whose names have the same    *)
(* fragment; three variables, one of them secret and one without a default *)
(* that may be written; a directory with two entries in it, for the        *)
(* targets of the readiness resolver with a third; and a policy that skips *)
(* the directory between two others.                                       *)
(***************************************************************************)
EXTENDS LocalExecutors, TLC

CONSTANTS c1, c2, p1, p2, plain, secret, bare, root, dir, one, two, sub, top, middle, leaf

MCCalls == {c1, c2}
MCStampOf == [c \in MCCalls |-> 1]
MCPackageOf == c1 :> p1 @@ c2 :> p2
MCFragmentOf == [p \in {p1, p2} |-> "fragment"]
MCRequired == c1 :> {plain, bare} @@ c2 :> {plain, secret}
MCParent == dir :> root @@ one :> dir @@ two :> dir
MCPathOf == c1 :> one @@ c2 :> two
MCTargetParent == MCParent @@ sub :> dir
MCTargets == <<sub, one, two>>
MCDirectoryOf == top :> root @@ middle :> top @@ leaf :> middle
MCPolicy == <<top, leaf>>
MCManifests ==
    { << [action |-> "chmod", path |-> dir],
         [action |-> "restore_file", path |-> two],
         [action |-> "remove_created_path", path |-> one] >>,
      << [action |-> "restore_file", path |-> two],
         [action |-> "remove_created_path", path |-> dir] >> }

\* Once every call is disturbed the properties say nothing more of what follows: but
\* for TypeOK and RestartIsVerified, which look at each call by itself, they are about
\* calls that are alone.
SomeCallIsAlone == mixed # Calls
=============================================================================
