-------------------------- MODULE WorkflowService ---------------------------
(***************************************************************************)
(* internal/workflow/service.go over internal/store/postgres: callers move *)
(* the status of workflow records, each move in a database transaction     *)
(* that updates the row if it still has the status the caller expects,     *)
(* appends an audit event and, unless the caller suppressed it, appends an *)
(* outbox event whose idempotency key is unique.                           *)
(*                                                                         *)
(* Callers run concurrently under READ COMMITTED: an UPDATE waits for the  *)
(* transaction that wrote the row last and then looks at its committed     *)
(* status; nobody sees the writes of an open transaction.  Everything an   *)
(* open transaction has written follows from its call and its pc, so the   *)
(* tables below hold committed rows only.                                  *)
(***************************************************************************)
EXTENDS Integers, Sequences, Functions, Domain

CONSTANTS
    Investigations,  \* rows of investigation_clusters and investigation_branches
    Remediations,    \* rows of remediation_plans and remediation_attempts
    Approvals,       \* rows of approval_requests
    Callers,         \* goroutines or processes that call the service
    BirthStatuses,   \* the statuses rows are inserted with
    Requests,        \* the moves callers ask for: [res, from, to]
    MaxMoves         \* bound: no call is made after MaxMoves moves in all

Resources == Investigations \cup Remediations \cup Approvals

StatusesOf(r) ==
    IF r \in Investigations THEN InvestigationStatuses
    ELSE IF r \in Remediations THEN RemediationStatuses
    ELSE ApprovalStatuses

ASSUME KindsAssumption ==
    /\ Investigations \cap Remediations = {}
    /\ Approvals \cap (Investigations \cup Remediations) = {}

\* Callers use the typed status constants of the kind of record they move.
ASSUME RequestsAssumption ==
    \A q \in Requests :
        /\ q.res \in Resources
        /\ q.from \in StatusesOf(q.res)
        /\ q.to \in StatusesOf(q.res)

VARIABLES
    status,       \* status column of each row, "absent" before the INSERT
    lockVersion,  \* lock_version column
    audit,        \* audit_events of each row, in commit order
    outbox,       \* idempotency keys <<resource, from, to>> in outbox_events
    pc,           \* where each caller is in its call
    call,         \* the call each caller is making, NoCall when it makes none
    acked         \* the moves <<resource, lock_version, from, to>> whose call
                  \* returned nil

tables == <<status, lockVersion, audit, outbox>>
vars == <<status, lockVersion, audit, outbox, pc, call, acked>>

-----------------------------------------------------------------------------
(* Calls, keys and locks                                                   *)

NoCall == [res |-> "none"]

\* A request and whether an outbox event goes with it (the negation of
\* Metadata.SuppressOutbox).
CallOf(q, announce) ==
    [res |-> q.res, from |-> q.from, to |-> q.to, announce |-> announce]

\* ValidateXxxTransition, called by the service and again by UpdateStatus.
CanMove(r, from, to) ==
    IF r \in Investigations THEN CanMoveInvestigation(from, to)
    ELSE IF r \in Remediations THEN CanMoveRemediation(from, to)
    ELSE CanMoveApproval(from, to)

\* The idempotency key of an outbox event: it does not say how often the
\* resource has made the move before.
IdempotencyKey(k) == <<k.res, k.from, k.to>>

\* From its UPDATE to its end a transaction holds the lock of the row.
Writing == {"audit", "outbox", "commit"}
Locked(r) == \E c \in Callers : pc[c] \in Writing /\ call[c].res = r

\* The moves made so far, for the bound.
Moves == FoldFunction(LAMBDA x, y : x + y, 0, lockVersion)

\* The caller's part of the state when its call returns.
Return(c) ==
    /\ pc' = [pc EXCEPT ![c] = "idle"]
    /\ call' = [call EXCEPT ![c] = NoCall]

Goto(c, label) ==
    /\ pc' = [pc EXCEPT ![c] = label]
    /\ UNCHANGED call

-----------------------------------------------------------------------------
(* The repositories' Create and the steps of Move* and DecideApproval      *)

\* A slip: the status check of the migration forgets which table it is on.
CreateAnyStatus(r, s) ==
    /\ status[r] = "absent"
    /\ s \in BirthStatuses
    /\ status' = [status EXCEPT ![r] = s]
    /\ UNCHANGED <<lockVersion, audit, outbox, pc, call, acked>>

\* Create: one INSERT, with the status the record or its payload carries.  No
\* audit event is appended.
Create(r, s) ==
    /\ status[r] = "absent"
    /\ s \in BirthStatuses \cap StatusesOf(r)
    /\ status' = [status EXCEPT ![r] = s]
    /\ UNCHANGED <<lockVersion, audit, outbox, pc, call, acked>>

\* A caller asks for a move.  The From it gives is the status it read or
\* believes the row to have; a move the graph does not have is refused before
\* a transaction is opened and changes nothing.
Call(c, q, announce) ==
    /\ pc[c] = "idle"
    /\ Moves < MaxMoves
    /\ CanMove(q.res, q.from, q.to)
    /\ pc' = [pc EXCEPT ![c] = "update"]
    /\ call' = [call EXCEPT ![c] = CallOf(q, announce)]
    /\ UNCHANGED <<tables, acked>>

\* A slip: the UPDATE has no "status = $3" in its WHERE.
UpdateUnchecked(c) ==
    /\ pc[c] = "update"
    /\ ~ Locked(call[c].res)
    /\ status[call[c].res] # "absent"
    /\ Goto(c, "audit")
    /\ UNCHANGED <<tables, acked>>

\* A slip: the UPDATE runs on the pool, outside the transaction.
UpdateOutsideTx(c) ==
    /\ pc[c] = "update"
    /\ ~ Locked(call[c].res)
    /\ status[call[c].res] = call[c].from
    /\ status' = [status EXCEPT ![call[c].res] = call[c].to]
    /\ Goto(c, "audit")
    /\ UNCHANGED <<lockVersion, audit, outbox, acked>>

\* UPDATE ... WHERE status = from finds the row.
Update(c) ==
    /\ pc[c] = "update"
    /\ ~ Locked(call[c].res)
    /\ status[call[c].res] = call[c].from
    /\ Goto(c, "audit")
    /\ UNCHANGED <<tables, acked>>

\* UPDATE ... WHERE status = from affects no row, because the row has another
\* status or does not exist: ErrConflict.
Conflict(c) ==
    /\ pc[c] = "update"
    /\ ~ Locked(call[c].res)
    /\ status[call[c].res] # call[c].from
    /\ Return(c)
    /\ UNCHANGED <<tables, acked>>

\* INSERT INTO audit_events; a suppressed move is then complete.
AppendAudit(c) ==
    /\ pc[c] = "audit"
    /\ Goto(c, IF call[c].announce THEN "outbox" ELSE "commit")
    /\ UNCHANGED <<tables, acked>>

\* A slip: outbox_events has no UNIQUE constraint.
AppendOutboxAnyKey(c) ==
    /\ pc[c] = "outbox"
    /\ Goto(c, "commit")
    /\ UNCHANGED <<tables, acked>>

\* INSERT INTO outbox_events.
AppendOutbox(c) ==
    /\ pc[c] = "outbox"
    /\ IdempotencyKey(call[c]) \notin outbox
    /\ Goto(c, "commit")
    /\ UNCHANGED <<tables, acked>>

\* A slip: the error of the INSERT returns without the deferred Rollback.
DuplicateKeyKeepsTx(c) ==
    /\ pc[c] = "outbox"
    /\ IdempotencyKey(call[c]) \in outbox
    /\ UNCHANGED vars

\* The INSERT violates UNIQUE (tenant_id, idempotency_key): the transaction,
\* status and audit event included, is rolled back.
DuplicateKey(c) ==
    /\ pc[c] = "outbox"
    /\ IdempotencyKey(call[c]) \in outbox
    /\ Return(c)
    /\ UNCHANGED <<tables, acked>>

\* What the COMMIT of a transaction makes visible.
Apply(k) ==
    /\ status' = [status EXCEPT ![k.res] = k.to]
    /\ lockVersion' = [lockVersion EXCEPT ![k.res] = @ + 1]
    /\ audit' = [audit EXCEPT
                   ![k.res] = Append(@, [before |-> k.from, after |-> k.to,
                                         announced |-> k.announce])]
    /\ outbox' = IF k.announce THEN outbox \cup {IdempotencyKey(k)} ELSE outbox

Commit(c) ==
    /\ pc[c] = "commit"
    /\ Apply(call[c])
    /\ acked' = acked \cup
         {<<call[c].res, lockVersion[call[c].res] + 1, call[c].from, call[c].to>>}
    /\ Return(c)

\* The COMMIT takes effect, its answer is lost: the caller gets an error.
CommitUnanswered(c) ==
    /\ pc[c] = "commit"
    /\ Apply(call[c])
    /\ Return(c)
    /\ UNCHANGED acked

\* A slip: the error of the COMMIT is dropped and the call returns nil.
AbortUnnoticed(c) ==
    /\ pc[c] # "idle"
    /\ Return(c)
    /\ acked' = IF pc[c] # "commit" THEN acked
                ELSE acked \cup {<<call[c].res, lockVersion[call[c].res] + 1,
                                  call[c].from, call[c].to>>}
    /\ UNCHANGED tables

\* A statement, newID or the COMMIT fails, the context is cancelled, or the
\* caller's process or connection dies: the deferred Rollback, or the server,
\* undoes the transaction and frees its lock.
Abort(c) ==
    /\ pc[c] # "idle"
    /\ Return(c)
    /\ UNCHANGED <<tables, acked>>

-----------------------------------------------------------------------------
Init ==
    /\ status = [r \in Resources |-> "absent"]
    /\ lockVersion = [r \in Resources |-> 0]
    /\ audit = [r \in Resources |-> <<>>]
    /\ outbox = {}
    /\ pc = [c \in Callers |-> "idle"]
    /\ call = [c \in Callers |-> NoCall]
    /\ acked = {}

\* The steps a transaction takes on its own way to an end.
Advance(c) ==
    \/ Update(c)
    \/ Conflict(c)
    \/ AppendAudit(c)
    \/ AppendOutbox(c)
    \/ DuplicateKey(c)
    \/ Commit(c)
    \/ CommitUnanswered(c)

Next ==
    \/ \E r \in Resources, s \in BirthStatuses : Create(r, s)
    \/ \E c \in Callers :
         \/ \E q \in Requests, announce \in BOOLEAN : Call(c, q, announce)
         \/ Advance(c)
         \/ Abort(c)

Spec == Init /\ [][Next]_vars

\* A caller's goroutine runs, and the database executes its statements.  The
\* UPDATE is granted strongly fairly: the server queues the transactions that
\* wait for a row and serves them in turn.
Fairness == \A c \in Callers : WF_vars(Advance(c)) /\ SF_vars(Update(c) \/ Conflict(c))

FairSpec == Spec /\ Fairness

-----------------------------------------------------------------------------
(* Properties                                                              *)

Calls == {CallOf(q, announce) : q \in Requests, announce \in BOOLEAN}

AuditEvents(r) ==
    [before : StatusesOf(r), after : StatusesOf(r), announced : BOOLEAN]

\* The tables hold values of their columns' types; a caller inside the service
\* has a call.
TypeOK ==
    /\ status \in [Resources -> {"absent"} \cup UNION {StatusesOf(r) : r \in Resources}]
    /\ \A r \in Resources : status[r] \in StatusesOf(r) \cup {"absent"}
    /\ lockVersion \in [Resources -> Nat]
    /\ DOMAIN audit = Resources
    /\ \A r \in Resources : audit[r] \in Seq(AuditEvents(r))
    /\ outbox \subseteq {IdempotencyKey(k) : k \in Calls}
    /\ pc \in [Callers -> Writing \cup {"idle", "update"}]
    /\ call \in [Callers -> Calls \cup {NoCall}]
    /\ \A c \in Callers : pc[c] # "idle" => call[c] \in Calls

\* The audit trail of a record explains its status: the moves in it are edges of
\* the graph, each starts where the one before ended, the last one ended in the
\* present status, and lock_version counts them.  It fails if a stale caller can
\* overwrite a newer status, or a status can change without its audit event.
AuditTrail ==
    \A r \in Resources :
        /\ lockVersion[r] = Len(audit[r])
        /\ audit[r] # <<>> => audit[r][Len(audit[r])].after = status[r]
        /\ \A i \in 1 .. Len(audit[r]) :
             /\ CanMove(r, audit[r][i].before, audit[r][i].after)
             /\ i > 1 => audit[r][i - 1].after = audit[r][i].before

\* The outbox holds an event for exactly the moves that were not suppressed, and
\* no event stands for two of them: what other systems are told is what happened.
OutboxMatchesAudit ==
    /\ outbox = UNION {{<<r, audit[r][i].before, audit[r][i].after>> :
                          i \in {j \in DOMAIN audit[r] : audit[r][j].announced}} :
                       r \in Resources}
    /\ \A r \in Resources : \A i, j \in DOMAIN audit[r] :
         /\ audit[r][i].announced /\ audit[r][j].announced
         /\ audit[r][i].before = audit[r][j].before
         /\ audit[r][i].after = audit[r][j].after
         => i = j

\* A move whose call returned nil stays in the record's history for good,
\* whatever failed or crashed since.
AckedIsDurable ==
    \A a \in acked :
        /\ a[2] \in DOMAIN audit[a[1]]
        /\ audit[a[1]][a[2]].before = a[3]
        /\ audit[a[1]][a[2]].after = a[4]

Terminal(r) ==
    IF r \in Investigations THEN {"completed", "failed", "rejected"}
    ELSE IF r \in Remediations THEN {"denied", "succeeded", "rolled_back", "escalated"}
    ELSE {"approved", "denied", "expired"}

\* A record that has reached an end of its workflow never leaves it.
TerminalIsFinal ==
    [][\A r \in Resources : status[r] \in Terminal(r) => status'[r] = status[r]]_vars

\* Every call returns: no caller waits for ever for a row another one locked.
CallsReturn == \A c \in Callers : (pc[c] # "idle") ~> (pc[c] = "idle")

\* Seen through its committed tables the service does what Lifecycle promises.
Promise == INSTANCE Lifecycle WITH
             Statuses <- StatusesOf, trail <- audit, announced <- outbox

ImplementsLifecycle == Promise!Spec
=============================================================================
