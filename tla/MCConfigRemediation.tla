------------------------ MODULE MCConfigRemediation -------------------------
(***************************************************************************)
(* Three runs on one config file.  The first and the third are two calls   *)
(* for the same incident, so they have one plan; the first and the second  *)
(* are made in the same second for two different keys.  The first runs     *)
(* with a hook, the second without a workflow service.                     *)
(***************************************************************************)
EXTENDS ConfigRemediation

CONSTANTS r1, r2, r3, k1, k2, p1, p2

MCRuns == {r1, r2, r3}
MCKeys == {k1, k2}
MCKeyOf == [r \in MCRuns |-> IF r = r2 THEN k2 ELSE k1]
MCStampOf == [r \in MCRuns |-> IF r = r3 THEN 2 ELSE 1]
MCPlanOf == [r \in MCRuns |-> IF r = r2 THEN p2 ELSE p1]
MCTracked == {r1, r3}
MCHooked == {r1}

\* Two runs for two keys, in different seconds, for the runs that show one thing.
MCTwoRuns == {r1, r2}
MCTwoKeyOf == [r \in MCTwoRuns |-> IF r = r2 THEN k2 ELSE k1]
MCTwoStampOf == [r \in MCTwoRuns |-> IF r = r2 THEN 2 ELSE 1]
MCTwoPlanOf == [r \in MCTwoRuns |-> IF r = r2 THEN p2 ELSE p1]
=============================================================================
