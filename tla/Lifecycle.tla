----------------------------- MODULE Lifecycle ------------------------------
(***************************************************************************)
(* What the workflow layer promises to whoever reads its tables, with the  *)
(* transactions, the row locks and the failures left out: every resource   *)
(* is created once, then moves along its status graph; each move adds one  *)
(* entry to the resource's audit trail, and a move is announced to other   *)
(* systems at most once.  WorkflowService implements this specification.   *)
(***************************************************************************)
EXTENDS Integers, Sequences

CONSTANTS
    Resources,       \* the rows that have a status
    Statuses(_),     \* the statuses a resource may have
    CanMove(_, _, _) \* CanMove(r, from, to): the edge is in the resource's graph

VARIABLES
    status,     \* the status of each resource, "absent" before it exists
    trail,      \* the moves each resource made, oldest first
    announced   \* the moves <<r, from, to>> other systems are told about

vars == <<status, trail, announced>>

Init ==
    /\ status = [r \in Resources |-> "absent"]
    /\ trail = [r \in Resources |-> <<>>]
    /\ announced = {}

Create(r, s) ==
    /\ status[r] = "absent"
    /\ s \in Statuses(r)
    /\ status' = [status EXCEPT ![r] = s]
    /\ UNCHANGED <<trail, announced>>

\* The move of r to a status it may take, with its entry in the trail and, when
\* it is announced, a first and only announcement.
Move(r, to, announce) ==
    LET move == <<r, status[r], to>>
    IN  /\ status[r] # "absent"
        /\ CanMove(r, status[r], to)
        /\ announce => move \notin announced
        /\ status' = [status EXCEPT ![r] = to]
        /\ trail' = [trail EXCEPT
                       ![r] = Append(@, [before |-> status[r], after |-> to,
                                         announced |-> announce])]
        /\ announced' = IF announce THEN announced \cup {move} ELSE announced

Next ==
    \E r \in Resources :
        \/ \E s \in Statuses(r) : Create(r, s)
        \/ \E to \in Statuses(r), announce \in BOOLEAN : Move(r, to, announce)

Spec == Init /\ [][Next]_vars
=============================================================================
