-------------------------------- MODULE Trees --------------------------------
(***************************************************************************)
(* Directory trees: paths below an app root, each with the directory it is *)
(* in.                                                                     *)
(***************************************************************************)

\* A set of paths that has, with each path, the directory of it.
Rises(paths, parent, set) == \A p \in set : parent[p] \in paths => parent[p] \in set

\* The directories above each path, up to the app root: the smallest such set that has
\* the directory of the path.
Above(paths, parent) ==
    [p \in paths |->
        {q \in paths :
            \A set \in SUBSET paths :
                Rises(paths, parent, set) /\ (parent[p] \in paths => parent[p] \in set)
                => q \in set}]
=============================================================================
