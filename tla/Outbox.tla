-------------------------------- MODULE Outbox --------------------------------
(***************************************************************************)
(* The outbox table of internal/store/postgres under concurrent            *)
(* dispatchers: each claims the events that are due in a transaction,      *)
(* publishes them, and marks each one as published or as failed, to be     *)
(* tried again.  The store is in src/, the dispatcher that the interface   *)
(* was made for is not: it is taken to mark every event it holds, not to   *)
(* ask for a retry in the past, and to repeat a mark it got no answer to.  *)
(* attempt_count, which nobody reads, is left out.                         *)
(***************************************************************************)
EXTENDS Integers, Sequences, FiniteSets, Functions

CONSTANTS
    NEvents,      \* the events are 1 .. NEvents, in the order of created_at
    Dispatchers,  \* the processes that dispatch
    Limit,        \* the LIMIT of a claim
    Nobody        \* claimed_by of an event that nobody has claimed

ASSUME OutboxAssumption ==
    NEvents \in Nat /\ Limit \in Nat \ {0} /\ Nobody \notin Dispatchers

Events == 1 .. NEvents

VARIABLES
    status,    \* the status of each event, "none" before it is appended
    owner,     \* claimed_by
    due,       \* the events that wait and whose next_attempt_at has come, by that time
    tx,        \* the rows that the claim of each dispatcher has locked
    hand,      \* what each dispatcher knows it has claimed and has not marked yet
    doubtful   \* the events with a mark that took effect and was not answered

vars == <<status, owner, due, tx, hand, doubtful>>

Waiting(e) == status[e] \in {"pending", "failed"}

\* A queue without these events, in order: those that are no longer pending or failed, or no
\* longer due.  Written out because SelectSeq has no definition that proofs can use.
Without(queue, events) ==
    LET kept[n \in 0 .. Len(queue)] ==
            IF n = 0 THEN <<>>
            ELSE IF queue[n] \in events THEN kept[n - 1]
            ELSE Append(kept[n - 1], queue[n])
    IN  kept[Len(queue)]

Locked == UNION {tx[d] : d \in Dispatchers}

Init ==
    /\ status = [e \in Events |-> "none"]
    /\ owner = [e \in Events |-> Nobody]
    /\ due = <<>>
    /\ tx = [d \in Dispatchers |-> {}]
    /\ hand = [d \in Dispatchers |-> {}]
    /\ doubtful = {}

\* An event waits from now on, due at once or later.
Wait(e, as) ==
    /\ status' = [status EXCEPT ![e] = as]
    /\ due' \in {Append(due, e), due}

\* The service appends the next event, in the transaction of what it is about.
AppendEvent(e) ==
    /\ status[e] = "none"
    /\ \A f \in 1 .. e - 1 : status[f] # "none"
    /\ Wait(e, "pending")
    /\ UNCHANGED <<owner, tx, hand, doubtful>>

\* The next_attempt_at of a waiting event comes.
Wake(e) ==
    /\ Waiting(e) /\ e \notin Range(due)
    /\ due' = Append(due, e)
    /\ UNCHANGED <<status, owner, tx, hand, doubtful>>

-----------------------------------------------------------------------------
(* ClaimDue                                                                *)

\* The rows a claim may take: WHERE status IN ('pending', 'failed') AND next_attempt_at <=
\* now ... FOR UPDATE SKIP LOCKED.
Free == {e \in Events : Waiting(e) /\ e \in Range(due) /\ e \notin Locked}

\* ORDER BY next_attempt_at.
Before(e, f) == \E i, j \in DOMAIN due : i < j /\ due[i] = e /\ due[j] = f

FirstOf(events) == {e \in events : Cardinality({f \in events : Before(f, e)}) < Limit}

\* A slip: rows that another claim has locked are not passed over.
SelectedWithLocked == FirstOf(Free \cup {e \in Locked : Waiting(e)})

\* A slip: ORDER BY created_at.
SelectedByAge == {e \in Free : Cardinality({f \in Free : f < e}) < Limit}

Selected == FirstOf(Free)

Claim(d) ==
    /\ tx[d] = {} /\ hand[d] = {}
    /\ Selected # {}
    /\ tx' = [tx EXCEPT ![d] = Selected]
    /\ UNCHANGED <<status, owner, due, hand, doubtful>>

ClaimEnds(d) ==
    /\ status' = [e \in Events |-> IF e \in tx[d] THEN "claimed" ELSE status[e]]
    /\ owner' = [e \in Events |-> IF e \in tx[d] THEN d ELSE owner[e]]
    /\ due' = Without(due, tx[d])
    /\ tx' = [tx EXCEPT ![d] = {}]
    /\ UNCHANGED doubtful

CommitClaim(d) ==
    /\ tx[d] # {}
    /\ ClaimEnds(d)
    /\ hand' = [hand EXCEPT ![d] = tx[d]]

\* The commit takes effect, its answer is lost or the dispatcher dies: nobody knows of
\* the claim, and no event that is claimed is ever due again.
CommitUnanswered(d) ==
    /\ tx[d] # {}
    /\ ClaimEnds(d)
    /\ UNCHANGED hand

AbortClaim(d) ==
    /\ tx[d] # {}
    /\ tx' = [tx EXCEPT ![d] = {}]
    /\ UNCHANGED <<status, owner, due, hand, doubtful>>

-----------------------------------------------------------------------------
(* MarkPublished and MarkFailed look at neither status nor claimed_by      *)

\* The rows that an open claim has locked make the mark wait.
Markable(d, e) == e \in hand[d] /\ e \notin Locked

Published(e) ==
    /\ status' = [status EXCEPT ![e] = "published"]
    /\ due' = Without(due, {e})

\* A slip: an event that is due is put in the queue a second time.
FailedAgain(e) ==
    /\ status' = [status EXCEPT ![e] = "failed"]
    /\ due' \in {Append(due, e), due}

Failed(e) ==
    /\ status' = [status EXCEPT ![e] = "failed"]
    /\ LET others == Without(due, {e})
       IN  due' \in {Append(others, e), others}

MarkPublished(d, e) ==
    /\ Markable(d, e)
    /\ Published(e)
    /\ hand' = [hand EXCEPT ![d] = @ \ {e}]
    /\ UNCHANGED <<owner, tx, doubtful>>

MarkFailed(d, e) ==
    /\ Markable(d, e)
    /\ Failed(e)
    /\ hand' = [hand EXCEPT ![d] = @ \ {e}]
    /\ UNCHANGED <<owner, tx, doubtful>>

\* The mark takes effect and is not answered: the dispatcher will repeat it.
MarkUnanswered(d, e) ==
    /\ Markable(d, e)
    /\ Published(e) \/ Failed(e)
    /\ doubtful' = doubtful \cup {e}
    /\ UNCHANGED <<owner, tx, hand>>

\* The process of a dispatcher dies; another takes its place.
Crash(d) ==
    /\ tx[d] # {} \/ hand[d] # {}
    /\ tx' = [tx EXCEPT ![d] = {}]
    /\ hand' = [hand EXCEPT ![d] = {}]
    /\ UNCHANGED <<status, owner, due, doubtful>>

Next ==
    \/ \E e \in Events : AppendEvent(e) \/ Wake(e)
    \/ \E d \in Dispatchers :
          \/ Claim(d) \/ CommitClaim(d) \/ CommitUnanswered(d) \/ AbortClaim(d)
          \/ \E e \in Events : MarkPublished(d, e) \/ MarkFailed(d, e) \/ MarkUnanswered(d, e)
          \/ Crash(d)

\* Time goes on; a dispatcher keeps claiming and marks what it holds; and a claim of an
\* event that is made again and again is not aborted every time.
Fairness ==
    /\ \A e \in Events : WF_vars(Wake(e))
    /\ \A d \in Dispatchers :
          /\ WF_vars(Claim(d))
          /\ \A e \in Events :
                /\ SF_vars(e \in tx[d] /\ CommitClaim(d))
                /\ SF_vars(MarkPublished(d, e) \/ MarkFailed(d, e))

Spec == Init /\ [][Next]_vars /\ Fairness

-----------------------------------------------------------------------------
(* Properties                                                              *)

Statuses == {"none", "pending", "claimed", "published", "failed"}

\* The variables keep their types, and what is due waits.
TypeOK ==
    /\ status \in [Events -> Statuses]
    /\ owner \in [Events -> Dispatchers \cup {Nobody}]
    /\ Range(due) \subseteq {e \in Events : Waiting(e)} /\ IsInjective(due)
    /\ tx \in [Dispatchers -> SUBSET Events]
    /\ hand \in [Dispatchers -> SUBSET Events]
    /\ doubtful \subseteq Events

\* Two dispatchers never hold one event, though the marks check nothing: what a
\* dispatcher holds is claimed in its name, and so is neither published nor due, unless
\* a mark of the event was repeated because its answer was lost.
HandsAreExclusive ==
    \A d \in Dispatchers : \A e \in hand[d] \ doubtful :
        /\ status[e] = "claimed" /\ owner[e] = d
        /\ \A other \in Dispatchers \ {d} : e \notin hand[other] \cup tx[other]

\* An event that waits is claimed at last, however often the others fail and come back,
\* however small the limit, and through crashes and aborted claims.
WaitingIsClaimed == \A e \in Events : Waiting(e) ~> ~Waiting(e)
=============================================================================
