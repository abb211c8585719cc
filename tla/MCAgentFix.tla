----------------------------- MODULE MCAgentFix -----------------------------
(***************************************************************************)
(* Two runs on a tree of two files, started in the same second, so that    *)
(* they share a backup directory.  The second excludes one of the files;   *)
(* the validations of the first may write one of them in its staging copy. *)
(***************************************************************************)
EXTENDS AgentFix

CONSTANTS r1, r2

MCRuns == {r1, r2}
MCStampOf == [r \in MCRuns |-> 1]
MCRewritesOf == [r \in MCRuns |-> IF r = r1 THEN {1} ELSE {}]
MCScopeOf == [r \in MCRuns |-> IF r = r1 THEN {1, 2} ELSE {1}]
=============================================================================
