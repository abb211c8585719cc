-------------------------- MODULE MCWorkflowLease ---------------------------
(***************************************************************************)
(* Three sessions with owner ids of their own: one clock is ahead of the   *)
(* database's, one agrees with it and one is behind it.                    *)
(***************************************************************************)
EXTENDS WorkflowLease

CONSTANTS ahead, exact, behind

MCSessions == {ahead, exact, behind}
MCOwner == [s \in MCSessions |-> s]
MCSkew == [s \in MCSessions |-> IF s = ahead THEN 1 ELSE IF s = behind THEN -1 ELSE 0]

\* All clocks agree.
MCNoSkew == [s \in MCSessions |-> 0]
=============================================================================
