----------------------- MODULE WorkflowServiceProofs ------------------------
(***************************************************************************)
(* Theorems about WorkflowService for every set of rows, callers and       *)
(* requests, and for every bound MaxMoves.                                 *)
(***************************************************************************)
EXTENDS WorkflowService, TLAPS

-----------------------------------------------------------------------------
(* The inductive invariant                                                 *)

\* An open transaction that has done its UPDATE found the status it expects, and
\* the lock it holds keeps that status until the transaction ends.
WriterSeesFrom ==
    \A c \in Callers : pc[c] \in Writing => status[call[c].res] = call[c].from

\* A row is locked by one transaction at most.
OneWriter ==
    \A c, d \in Callers :
        pc[c] \in Writing /\ pc[d] \in Writing /\ call[c].res = call[d].res => c = d

\* A call in flight asks for an edge of the graph.
CallsAreMoves ==
    \A c \in Callers : pc[c] # "idle" => CanMove(call[c].res, call[c].from, call[c].to)

\* Before its COMMIT a transaction has found that its outbox key is new, and no
\* other transaction can add it: it would need the lock of the same row.
KeyIsNew ==
    \A c \in Callers :
        pc[c] = "commit" /\ call[c].announce => IdempotencyKey(call[c]) \notin outbox

Locking == WriterSeesFrom /\ OneWriter /\ CallsAreMoves /\ KeyIsNew

-----------------------------------------------------------------------------
(* Facts about calls and statuses                                          *)

\* What the fields of a call are.
LEMMA CallFields ==
    ASSUME NEW k \in Calls
    PROVE  /\ k.res \in Resources
           /\ k.from \in StatusesOf(k.res)
           /\ k.to \in StatusesOf(k.res)
           /\ k.announce \in BOOLEAN
  BY RequestsAssumption, SMT DEF Calls, CallOf

\* A record without a row has none of the statuses of its graph.
LEMMA AbsentIsNoStatus ==
    ASSUME NEW r \in Resources
    PROVE  "absent" \notin StatusesOf(r)
  BY DEF StatusesOf, InvestigationStatuses, RemediationStatuses, ApprovalStatuses,
         InvestigationSuccessors, RemediationSuccessors, ApprovalSuccessors

\* The audit event of a move is of its column types, and so is the trail after it.
LEMMA TrailGrows ==
    ASSUME NEW k \in Calls, NEW s \in Seq(AuditEvents(k.res))
    PROVE  Append(s, [before |-> k.from, after |-> k.to, announced |-> k.announce])
             \in Seq(AuditEvents(k.res))
  BY CallFields DEF AuditEvents

-----------------------------------------------------------------------------
(* Type correctness                                                        *)

\* Changing the row of one resource keeps the tables well typed.
LEMMA StatusTyped ==
    ASSUME NEW r \in Resources, NEW s \in StatusesOf(r), TypeOK,
           status' = [status EXCEPT ![r] = s]
    PROVE  /\ status' \in [Resources -> {"absent"} \cup UNION {StatusesOf(q) : q \in Resources}]
           /\ \A q \in Resources : status'[q] \in StatusesOf(q) \cup {"absent"}
<1>1. s \in {"absent"} \cup UNION {StatusesOf(q) : q \in Resources}
  OBVIOUS
<1>. QED
  BY <1>1 DEF TypeOK

\* The end of a transaction writes well-typed rows.
LEMMA ApplyTyped ==
    ASSUME NEW k \in Calls, TypeOK, Apply(k)
    PROVE  /\ status' \in [Resources -> {"absent"} \cup UNION {StatusesOf(q) : q \in Resources}]
           /\ \A q \in Resources : status'[q] \in StatusesOf(q) \cup {"absent"}
           /\ lockVersion' \in [Resources -> Nat]
           /\ DOMAIN audit' = Resources
           /\ \A q \in Resources : audit'[q] \in Seq(AuditEvents(q))
           /\ outbox' \subseteq {IdempotencyKey(j) : j \in Calls}
<1>. DEFINE event == [before |-> k.from, after |-> k.to, announced |-> k.announce]
<1>1. k.res \in Resources /\ k.to \in StatusesOf(k.res)
  BY CallFields
<1>2. /\ status' = [status EXCEPT ![k.res] = k.to]
      /\ lockVersion' = [lockVersion EXCEPT ![k.res] = @ + 1]
      /\ audit' = [audit EXCEPT ![k.res] = Append(@, event)]
      /\ outbox' = IF k.announce THEN outbox \cup {IdempotencyKey(k)} ELSE outbox
  BY DEF Apply
<1>3. lockVersion' \in [Resources -> Nat]
  BY <1>1, <1>2 DEF TypeOK
<1>4. outbox' \subseteq {IdempotencyKey(j) : j \in Calls}
  BY <1>2 DEF TypeOK
<1>5. /\ DOMAIN audit' = Resources
      /\ \A q \in Resources : audit'[q] \in Seq(AuditEvents(q))
  <2>1. audit[k.res] \in Seq(AuditEvents(k.res))
    BY <1>1 DEF TypeOK
  <2>2. Append(audit[k.res], event) \in Seq(AuditEvents(k.res))
    BY <2>1, TrailGrows
  <2>3. DOMAIN audit = Resources /\ \A q \in Resources : audit[q] \in Seq(AuditEvents(q))
    BY DEF TypeOK
  <2>. HIDE DEF event
  <2>. QED
    BY <1>1, <1>2, <2>2, <2>3
<1>. QED
  BY <1>1, <1>2, <1>3, <1>4, <1>5, StatusTyped

\* What the callers' variables have to be.
CallersOK ==
    /\ pc \in [Callers -> Writing \cup {"idle", "update"}]
    /\ call \in [Callers -> Calls \cup {NoCall}]
    /\ \A c \in Callers : pc[c] # "idle" => call[c] \in Calls

LEMMA ReturnTyped ==
    ASSUME NEW c \in Callers, CallersOK, Return(c)
    PROVE  CallersOK'
  BY DEF CallersOK, Return, Calls, CallOf

LEMMA GotoTyped ==
    ASSUME NEW c \in Callers, NEW label \in Writing, CallersOK, pc[c] # "idle",
           Goto(c, label)
    PROVE  CallersOK'
  BY DEF CallersOK, Goto, Calls, CallOf

\* What the tables have to be.
TablesOK ==
    /\ status \in [Resources -> {"absent"} \cup UNION {StatusesOf(r) : r \in Resources}]
    /\ \A r \in Resources : status[r] \in StatusesOf(r) \cup {"absent"}
    /\ lockVersion \in [Resources -> Nat]
    /\ DOMAIN audit = Resources
    /\ \A r \in Resources : audit[r] \in Seq(AuditEvents(r))
    /\ outbox \subseteq {IdempotencyKey(k) : k \in Calls}

LEMMA TypeParts == TypeOK <=> TablesOK /\ CallersOK
  BY DEF TypeOK, TablesOK, CallersOK

LEMMA TypeInit == Init => TypeOK
<1>. SUFFICES ASSUME Init PROVE TypeOK
  OBVIOUS
<1>1. TablesOK
  BY DEF Init, TablesOK
<1>2. CallersOK
  BY DEF Init, CallersOK
<1>. QED
  BY <1>1, <1>2, TypeParts

LEMMA TypeStep == TypeOK /\ [Next]_vars => TypeOK'
<1>. SUFFICES ASSUME TypeOK, [Next]_vars PROVE TypeOK'
  OBVIOUS
<1>. TablesOK /\ CallersOK
  BY TypeParts
<1>p. TablesOK' /\ CallersOK' => TypeOK'
  BY DEF TypeOK, TablesOK, CallersOK
<1>0. ASSUME UNCHANGED tables PROVE TablesOK'
  BY <1>0 DEF tables, TablesOK
<1>1. ASSUME NEW r \in Resources, NEW s \in BirthStatuses, Create(r, s) PROVE TypeOK'
  <2>1. CallersOK'
    BY <1>1 DEF Create, CallersOK
  <2>2. TablesOK'
    BY <1>1, StatusTyped DEF Create, TablesOK
  <2>. QED
    BY <2>1, <2>2, <1>p
<1>2. ASSUME NEW c \in Callers, NEW q \in Requests, NEW announce \in BOOLEAN,
             Call(c, q, announce)
      PROVE  TypeOK'
  <2>1. CallOf(q, announce) \in Calls
    BY DEF Calls
  <2>2. CallersOK'
    BY <1>2, <2>1 DEF Call, CallersOK
  <2>. QED
    BY <1>0, <1>2, <2>2, <1>p DEF Call
<1>3. ASSUME NEW c \in Callers, Update(c) \/ AppendAudit(c) \/ AppendOutbox(c)
      PROVE  TypeOK'
  <2>1. PICK label \in Writing : pc[c] # "idle" /\ Goto(c, label) /\ UNCHANGED tables
    BY <1>3 DEF Update, AppendAudit, AppendOutbox, Writing
  <2>2. CallersOK'
    BY <2>1, GotoTyped
  <2>. QED
    BY <1>0, <2>1, <2>2, <1>p
<1>4. ASSUME NEW c \in Callers, Conflict(c) \/ DuplicateKey(c) \/ Abort(c)
      PROVE  TypeOK'
  <2>1. Return(c) /\ UNCHANGED tables
    BY <1>4 DEF Conflict, DuplicateKey, Abort
  <2>2. CallersOK'
    BY <2>1, ReturnTyped
  <2>. QED
    BY <1>0, <2>1, <2>2, <1>p
<1>5. ASSUME NEW c \in Callers, Commit(c) \/ CommitUnanswered(c) PROVE TypeOK'
  <2>1. Apply(call[c]) /\ Return(c) /\ call[c] \in Calls
    BY <1>5 DEF Commit, CommitUnanswered, TypeOK
  <2>2. CallersOK'
    BY <2>1, ReturnTyped
  <2>3. TablesOK'
    BY <2>1, ApplyTyped DEF TablesOK
  <2>. QED
    BY <2>2, <2>3, <1>p
<1>6. CASE UNCHANGED vars
  BY <1>6 DEF vars, tables, TypeOK
<1>. QED
  BY <1>1, <1>2, <1>3, <1>4, <1>5, <1>6 DEF Next, Advance

\* The tables hold values of their columns' types, and a caller inside the
\* service has a call.
THEOREM TypeCorrect == Spec => []TypeOK
  BY TypeInit, TypeStep, PTL DEF Spec

-----------------------------------------------------------------------------
(* The invariant of the row locks                                          *)

LEMMA LockingInit == Init => Locking
  BY DEF Init, Locking, WriterSeesFrom, OneWriter, CallsAreMoves, KeyIsNew, Writing

\* What COMMIT writes concerns no other transaction.
LEMMA ApplyIsAlone ==
    ASSUME TypeOK, Locking,
           NEW c \in Callers, pc[c] = "commit", Apply(call[c]),
           NEW d \in Callers, d # c, pc[d] \in Writing
    PROVE  /\ call[d].res # call[c].res
           /\ status'[call[d].res] = status[call[d].res]
           /\ IdempotencyKey(call[d]) \in outbox' => IdempotencyKey(call[d]) \in outbox
<1>1. call[c] \in Calls /\ call[d] \in Calls
  BY DEF TypeOK, Writing
<1>2. call[d].res # call[c].res
  BY DEF Locking, OneWriter, Writing
<1>3. call[d].res \in Resources /\ call[c].res \in Resources
  BY <1>1, CallFields
<1>4. status'[call[d].res] = status[call[d].res]
  BY <1>2, <1>3 DEF Apply, TypeOK
<1>5. IdempotencyKey(call[d]) \in outbox' => IdempotencyKey(call[d]) \in outbox
  BY <1>2 DEF Apply, IdempotencyKey
<1>. QED
  BY <1>2, <1>4, <1>5

LEMMA LockingStep == TypeOK /\ Locking /\ [Next]_vars => Locking'
<1>. SUFFICES ASSUME TypeOK, Locking, [Next]_vars PROVE Locking'
  OBVIOUS
<1>. USE DEF Locking
<1>t. \A c \in Callers : pc[c] # "idle" => call[c] \in Calls
  BY DEF TypeOK
<1>1. ASSUME NEW r \in Resources, NEW s \in BirthStatuses, Create(r, s) PROVE Locking'
  <2>1. ASSUME NEW c \in Callers, pc[c] \in Writing PROVE status'[call[c].res] = call[c].from
    <3>1. call[c].from \in StatusesOf(call[c].res) /\ call[c].res \in Resources
      BY <1>t, <2>1, CallFields DEF Writing
    <3>2. status[call[c].res] = call[c].from /\ call[c].from # "absent"
      BY <2>1, <3>1, AbsentIsNoStatus DEF WriterSeesFrom
    <3>. QED
      BY <1>1, <3>1, <3>2 DEF Create, TypeOK
  <2>. QED
    BY <1>1, <2>1 DEF Create, WriterSeesFrom, OneWriter, CallsAreMoves, KeyIsNew
<1>2. ASSUME NEW c \in Callers, NEW q \in Requests, NEW announce \in BOOLEAN,
             Call(c, q, announce)
      PROVE  Locking'
  <2>. USE <1>2 DEF Call, tables, Writing, TypeOK
  <2>1. WriterSeesFrom'
    BY DEF WriterSeesFrom
  <2>2. OneWriter'
    BY DEF OneWriter
  <2>3. CallsAreMoves'
    BY DEF CallsAreMoves, CallOf
  <2>4. KeyIsNew'
    BY DEF KeyIsNew
  <2>. QED
    BY <2>1, <2>2, <2>3, <2>4
<1>3. ASSUME NEW c \in Callers, Update(c) PROVE Locking'
  <2>. USE <1>3 DEF Update, Goto, tables, Writing, TypeOK
  <2>1. WriterSeesFrom'
    BY DEF WriterSeesFrom
  <2>2. OneWriter'
    BY DEF OneWriter, Locked
  <2>3. CallsAreMoves'
    BY DEF CallsAreMoves
  <2>4. KeyIsNew'
    BY DEF KeyIsNew
  <2>. QED
    BY <2>1, <2>2, <2>3, <2>4
<1>4. ASSUME NEW c \in Callers, AppendAudit(c) PROVE Locking'
  <2>. USE <1>4 DEF AppendAudit, Goto, tables, Writing, TypeOK
  <2>1. WriterSeesFrom'
    BY DEF WriterSeesFrom
  <2>2. OneWriter'
    BY DEF OneWriter
  <2>3. CallsAreMoves'
    BY DEF CallsAreMoves
  <2>4. KeyIsNew'
    BY DEF KeyIsNew
  <2>. QED
    BY <2>1, <2>2, <2>3, <2>4
<1>5. ASSUME NEW c \in Callers, AppendOutbox(c) PROVE Locking'
  <2>. USE <1>5 DEF AppendOutbox, Goto, tables, Writing, TypeOK
  <2>1. WriterSeesFrom'
    BY DEF WriterSeesFrom
  <2>2. OneWriter'
    BY DEF OneWriter
  <2>3. CallsAreMoves'
    BY DEF CallsAreMoves
  <2>4. KeyIsNew'
    BY DEF KeyIsNew
  <2>. QED
    BY <2>1, <2>2, <2>3, <2>4
<1>6. ASSUME NEW c \in Callers, Conflict(c) \/ DuplicateKey(c) \/ Abort(c)
      PROVE  Locking'
  <2>1. Return(c) /\ UNCHANGED tables
    BY <1>6 DEF Conflict, DuplicateKey, Abort
  <2>. QED
    BY <2>1 DEF Return, tables, Writing, TypeOK, WriterSeesFrom, OneWriter, CallsAreMoves,
                KeyIsNew
<1>7. ASSUME NEW c \in Callers, Commit(c) \/ CommitUnanswered(c) PROVE Locking'
  <2>1. pc[c] = "commit" /\ Apply(call[c]) /\ Return(c)
    BY <1>7 DEF Commit, CommitUnanswered
  <2>2. \A d \in Callers : pc'[d] # "idle" => d # c /\ pc'[d] = pc[d] /\ call'[d] = call[d]
    BY <2>1 DEF Return, TypeOK
  <2>3. WriterSeesFrom'
    BY <2>1, <2>2, ApplyIsAlone DEF WriterSeesFrom, Writing
  <2>4. OneWriter' /\ CallsAreMoves'
    BY <2>2 DEF OneWriter, CallsAreMoves, Writing
  <2>5. KeyIsNew'
    BY <2>1, <2>2, ApplyIsAlone DEF KeyIsNew, Writing
  <2>. QED
    BY <2>3, <2>4, <2>5
<1>8. CASE UNCHANGED vars
  BY <1>8 DEF vars, tables, WriterSeesFrom, OneWriter, CallsAreMoves, KeyIsNew
<1>. QED
  BY <1>1, <1>2, <1>3, <1>4, <1>5, <1>6, <1>7, <1>8 DEF Next, Advance

-----------------------------------------------------------------------------
(* The three things a step can do to the tables                            *)

RowCreated(r, s) ==
    /\ status[r] = "absent"
    /\ s \in StatusesOf(r)
    /\ status' = [status EXCEPT ![r] = s]
    /\ UNCHANGED <<lockVersion, audit, outbox>>

RowMoved(k) ==
    /\ status[k.res] = k.from
    /\ CanMove(k.res, k.from, k.to)
    /\ k.announce => IdempotencyKey(k) \notin outbox
    /\ Apply(k)

LEMMA CommitMovesRow ==
    ASSUME TypeOK, Locking, NEW c \in Callers, Commit(c) \/ CommitUnanswered(c)
    PROVE  call[c] \in Calls /\ RowMoved(call[c])
<1>1. pc[c] = "commit" /\ Apply(call[c])
  BY DEF Commit, CommitUnanswered
<1>2. call[c] \in Calls
  BY <1>1 DEF TypeOK
<1>. QED
  BY <1>1, <1>2 DEF RowMoved, Locking, WriterSeesFrom, CallsAreMoves, KeyIsNew, Writing

LEMMA StepKinds ==
    ASSUME TypeOK, Locking, [Next]_vars
    PROVE  \/ UNCHANGED tables
           \/ \E r \in Resources : \E s \in StatusesOf(r) : RowCreated(r, s)
           \/ \E k \in Calls : RowMoved(k)
<1>1. ASSUME NEW r \in Resources, NEW s \in BirthStatuses, Create(r, s)
      PROVE  s \in StatusesOf(r) /\ RowCreated(r, s)
  BY <1>1 DEF Create, RowCreated
<1>2. ASSUME NEW c \in Callers, NEW q \in Requests, NEW announce \in BOOLEAN,
             Call(c, q, announce)
      PROVE  UNCHANGED tables
  BY <1>2 DEF Call
<1>3. ASSUME NEW c \in Callers, Advance(c), ~ Commit(c), ~ CommitUnanswered(c)
      PROVE  UNCHANGED tables
  BY <1>3 DEF Advance, Update, Conflict, AppendAudit, AppendOutbox, DuplicateKey
<1>4. ASSUME NEW c \in Callers, Abort(c) PROVE UNCHANGED tables
  BY <1>4 DEF Abort
<1>5. ASSUME UNCHANGED vars PROVE UNCHANGED tables
  BY <1>5 DEF vars, tables
<1>. QED
  BY <1>1, <1>2, <1>3, <1>4, <1>5, CommitMovesRow DEF Next

-----------------------------------------------------------------------------
(* The audit trail                                                         *)

\* The audit trail of one record.
TrailOf(r) ==
    /\ lockVersion[r] = Len(audit[r])
    /\ audit[r] # <<>> => audit[r][Len(audit[r])].after = status[r]
    /\ \A i \in 1 .. Len(audit[r]) :
         /\ CanMove(r, audit[r][i].before, audit[r][i].after)
         /\ i > 1 => audit[r][i - 1].after = audit[r][i].before

LEMMA TrailInit == Init => AuditTrail
  BY DEF Init, AuditTrail

LEMMA TrailStep ==
    ASSUME TypeOK, Locking, AuditTrail, [Next]_vars
    PROVE  AuditTrail'
<1>. USE DEF TrailOf
<1>1. AuditTrail <=> \A r \in Resources : TrailOf(r)
  BY DEF AuditTrail
<1>2. (\A r \in Resources : TrailOf(r)') => AuditTrail'
  BY DEF AuditTrail
<1>3. CASE UNCHANGED tables
  BY <1>3 DEF tables, AuditTrail
<1>4. ASSUME NEW r \in Resources, NEW s \in StatusesOf(r), RowCreated(r, s)
      PROVE  AuditTrail'
  <2>1. audit[r] = <<>>
    <3>1. SUFFICES ASSUME audit[r] # <<>> PROVE FALSE
      OBVIOUS
    <3>2. audit[r] \in Seq(AuditEvents(r)) /\ Len(audit[r]) \in 1 .. Len(audit[r])
      BY <3>1 DEF TypeOK
    <3>3. audit[r][Len(audit[r])] \in AuditEvents(r)
      BY <3>2
    <3>4. audit[r][Len(audit[r])].after \in StatusesOf(r)
      BY <3>3 DEF AuditEvents
    <3>. QED
      BY <1>1, <1>4, <3>1, <3>4, AbsentIsNoStatus DEF RowCreated
  <2>. QED
    BY <1>1, <1>2, <1>4, <2>1 DEF RowCreated, TypeOK
<1>5. ASSUME NEW k \in Calls, RowMoved(k) PROVE AuditTrail'
  <2>. DEFINE event == [before |-> k.from, after |-> k.to, announced |-> k.announce]
              r == k.res
  <2>1. r \in Resources /\ audit[r] \in Seq(AuditEvents(r)) /\ event \in AuditEvents(r)
    BY CallFields DEF TypeOK, AuditEvents
  <2>2. /\ audit'[r] = Append(audit[r], event)
        /\ lockVersion'[r] = lockVersion[r] + 1
        /\ status'[r] = event.after
        /\ \A q \in Resources \ {r} :
             /\ audit'[q] = audit[q]
             /\ lockVersion'[q] = lockVersion[q]
             /\ status'[q] = status[q]
    BY <1>5, <2>1 DEF RowMoved, Apply, TypeOK
  <2>3. \A q \in Resources \ {r} : TrailOf(q)'
    BY <1>1, <2>2
  <2>4. CanMove(r, event.before, event.after) /\ status[r] = event.before
    BY <1>5 DEF RowMoved
  <2>5. TrailOf(r)
    BY <1>1, <2>1
  <2>. HIDE DEF event, r
  <2>6. /\ Len(audit'[r]) = Len(audit[r]) + 1
        /\ audit'[r][Len(audit[r]) + 1] = event
        /\ \A i \in 1 .. Len(audit[r]) : audit'[r][i] = audit[r][i]
    BY <2>1, <2>2
  <2>7. ASSUME NEW i \in 1 .. Len(audit'[r])
        PROVE  /\ CanMove(r, audit'[r][i].before, audit'[r][i].after)
               /\ i > 1 => audit'[r][i - 1].after = audit'[r][i].before
    <3>1. CASE i = Len(audit[r]) + 1
      BY <2>1, <2>4, <2>5, <2>6, <3>1
    <3>2. CASE i # Len(audit[r]) + 1
      BY <2>1, <2>5, <2>6, <3>2
    <3>. QED
      BY <3>1, <3>2
  <2>8. TrailOf(r)'
    BY <2>1, <2>2, <2>5, <2>6, <2>7
  <2>. QED
    BY <1>2, <2>3, <2>8
<1>. QED
  BY <1>3, <1>4, <1>5, StepKinds

\* The audit trail of a record explains its status: the moves in it are edges of
\* the graph, each starts where the one before ended, and the last one ended in
\* the present status.
THEOREM AuditTrailHolds == Spec => []AuditTrail
<1>1. Init => TypeOK /\ Locking /\ AuditTrail
  BY TypeInit, LockingInit, TrailInit
<1>2. TypeOK /\ Locking /\ AuditTrail /\ [Next]_vars => (TypeOK /\ Locking /\ AuditTrail)'
  BY TypeStep, LockingStep, TrailStep
<1>. QED
  BY <1>1, <1>2, PTL DEF Spec

-----------------------------------------------------------------------------
(* Terminal statuses and the abstract specification                        *)

LEMMA TerminalHasNoMove ==
    ASSUME NEW r \in Resources, NEW from \in Terminal(r), NEW to, CanMove(r, from, to)
    PROVE  to = from
<1>1. CASE r \in Investigations
  BY <1>1 DEF Terminal, CanMove, CanMoveInvestigation, InvestigationSuccessors
<1>2. CASE r \notin Investigations /\ r \in Remediations
  BY <1>2 DEF Terminal, CanMove, CanMoveRemediation, RemediationSuccessors
<1>3. CASE r \notin Investigations /\ r \notin Remediations
  BY <1>3 DEF Terminal, CanMove, CanMoveApproval, ApprovalSuccessors
<1>. QED
  BY <1>1, <1>2, <1>3

\* A record that has reached an end of its workflow never leaves it.
THEOREM TerminalHolds == Spec => TerminalIsFinal
<1>. DEFINE Final == \A r \in Resources : status[r] \in Terminal(r) => status'[r] = status[r]
<1>1. TypeOK /\ Locking /\ [Next]_vars => [Final]_vars
  <2>. SUFFICES ASSUME TypeOK, Locking, [Next]_vars,
                       NEW r \in Resources, status[r] \in Terminal(r)
                PROVE  status'[r] = status[r]
    OBVIOUS
  <2>1. CASE UNCHANGED tables
    BY <2>1 DEF tables
  <2>2. ASSUME NEW q \in Resources, NEW s \in StatusesOf(q), RowCreated(q, s)
        PROVE  status'[r] = status[r]
    BY <2>2 DEF RowCreated, TypeOK, Terminal
  <2>3. ASSUME NEW k \in Calls, RowMoved(k) PROVE status'[r] = status[r]
    BY <2>3, TerminalHasNoMove DEF RowMoved, Apply, TypeOK
  <2>. QED
    BY <2>1, <2>2, <2>3, StepKinds
<1>2. Init => TypeOK /\ Locking
  BY TypeInit, LockingInit
<1>3. TypeOK /\ Locking /\ [Next]_vars => (TypeOK /\ Locking)'
  BY TypeStep, LockingStep
<1>. QED
  BY <1>1, <1>2, <1>3, PTL DEF Spec, TerminalIsFinal

\* Seen through its committed tables the service implements Lifecycle.
THEOREM Implements == Spec => ImplementsLifecycle
<1>1. Init => Promise!Init
  BY DEF Init, Promise!Init
<1>2. TypeOK /\ Locking /\ [Next]_vars => [Promise!Next]_Promise!vars
  <2>. SUFFICES ASSUME TypeOK, Locking, [Next]_vars
                PROVE  [Promise!Next]_Promise!vars
    OBVIOUS
  <2>1. CASE UNCHANGED tables
    BY <2>1 DEF tables, Promise!vars
  <2>2. ASSUME NEW r \in Resources, NEW s \in StatusesOf(r), RowCreated(r, s)
        PROVE  Promise!Create(r, s)
    BY <2>2 DEF RowCreated, Promise!Create
  <2>3. ASSUME NEW k \in Calls, RowMoved(k)
        PROVE  Promise!Move(k.res, k.to, k.announce)
    <3>1. k.res \in Resources /\ status[k.res] # "absent"
      BY <2>3, CallFields, AbsentIsNoStatus DEF RowMoved
    <3>. QED
      BY <2>3, <3>1 DEF RowMoved, Apply, IdempotencyKey, Promise!Move
  <2>. QED
    BY <2>1, <2>2, <2>3, StepKinds, CallFields DEF Promise!Next
<1>3. Init => TypeOK /\ Locking
  BY TypeInit, LockingInit
<1>4. TypeOK /\ Locking /\ [Next]_vars => (TypeOK /\ Locking)'
  BY TypeStep, LockingStep
<1>. QED
  BY <1>1, <1>2, <1>3, <1>4, PTL DEF Spec, ImplementsLifecycle, Promise!Spec

-----------------------------------------------------------------------------
(* The outbox and the trail                                                *)

\* The audit event at place i of the trail of r announces the move o.
Announces(r, i, o) ==
    audit[r][i].announced /\ o = <<r, audit[r][i].before, audit[r][i].after>>

SameMove(r, i, j) ==
    /\ audit[r][i].announced /\ audit[r][j].announced
    /\ audit[r][i].before = audit[r][j].before
    /\ audit[r][i].after = audit[r][j].after

\* OutboxMatchesAudit, said of the keys one by one.
OutboxExact ==
    /\ \A o : o \in outbox <=> \E r \in Resources : \E i \in DOMAIN audit[r] : Announces(r, i, o)
    /\ \A r \in Resources : \A i, j \in DOMAIN audit[r] : SameMove(r, i, j) => i = j

LEMMA OutboxSaid == OutboxMatchesAudit <=> OutboxExact
<1>. DEFINE Key(r, i) == <<r, audit[r][i].before, audit[r][i].after>>
            Keys(r) == {Key(r, i) : i \in {j \in DOMAIN audit[r] : audit[r][j].announced}}
<1>1. (outbox = UNION {Keys(r) : r \in Resources})
        <=> \A o : o \in outbox <=> \E r \in Resources : \E i \in DOMAIN audit[r] : Announces(r, i, o)
  BY DEF Announces
<1>. QED
  BY <1>1 DEF OutboxMatchesAudit, OutboxExact, SameMove

LEMMA OutboxInit == Init => OutboxExact
  BY DEF Init, OutboxExact

\* The trails after a move: the moved record's has one more event, the others are
\* what they were.
LEMMA TrailsAfterMove ==
    ASSUME TypeOK, NEW k \in Calls, RowMoved(k)
    PROVE  /\ k.res \in Resources
           /\ DOMAIN audit'[k.res] = DOMAIN audit[k.res] \cup {Len(audit[k.res]) + 1}
           /\ Len(audit[k.res]) + 1 \notin DOMAIN audit[k.res]
           /\ Len(audit'[k.res]) = Len(audit[k.res]) + 1
           /\ audit'[k.res][Len(audit[k.res]) + 1]
                = [before |-> k.from, after |-> k.to, announced |-> k.announce]
           /\ \A i \in DOMAIN audit[k.res] : audit'[k.res][i] = audit[k.res][i]
           /\ \A q \in Resources \ {k.res} : audit'[q] = audit[q]
<1>. DEFINE event == [before |-> k.from, after |-> k.to, announced |-> k.announce]
<1>1. k.res \in Resources /\ audit[k.res] \in Seq(AuditEvents(k.res)) /\ event \in AuditEvents(k.res)
  BY CallFields DEF TypeOK, AuditEvents
<1>2. /\ audit'[k.res] = Append(audit[k.res], event)
      /\ \A q \in Resources \ {k.res} : audit'[q] = audit[q]
  BY <1>1 DEF RowMoved, Apply, TypeOK
<1>. HIDE DEF event
<1>3. /\ Len(audit'[k.res]) = Len(audit[k.res]) + 1
      /\ audit'[k.res][Len(audit[k.res]) + 1] = event
      /\ DOMAIN audit[k.res] = 1 .. Len(audit[k.res])
      /\ DOMAIN audit'[k.res] = 1 .. Len(audit'[k.res])
      /\ Len(audit[k.res]) \in Nat
      /\ \A i \in 1 .. Len(audit[k.res]) : audit'[k.res][i] = audit[k.res][i]
  BY <1>1, <1>2
<1>. QED
  BY <1>1, <1>2, <1>3 DEF event

LEMMA OutboxStep ==
    ASSUME TypeOK, Locking, OutboxExact, [Next]_vars
    PROVE  OutboxExact'
<1>1. CASE UNCHANGED tables
  BY <1>1 DEF tables, OutboxExact, Announces, SameMove
<1>2. ASSUME NEW r \in Resources, NEW s \in StatusesOf(r), RowCreated(r, s)
      PROVE  OutboxExact'
  BY <1>2 DEF RowCreated, OutboxExact, Announces, SameMove
<1>3. ASSUME NEW k \in Calls, RowMoved(k) PROVE OutboxExact'
  <2>r. PICK r : r = k.res
    OBVIOUS
  <2>n. PICK n : n = Len(audit[r]) + 1
    OBVIOUS
  <2>1. /\ r \in Resources /\ DOMAIN audit'[r] = DOMAIN audit[r] \cup {n}
        /\ n \notin DOMAIN audit[r]
        /\ audit'[r][n] = [before |-> k.from, after |-> k.to, announced |-> k.announce]
        /\ \A i \in DOMAIN audit[r] : audit'[r][i] = audit[r][i]
        /\ \A q \in Resources \ {r} : audit'[q] = audit[q]
    BY <1>3, <2>r, <2>n, TrailsAfterMove
  <2>2. /\ outbox' = IF k.announce THEN outbox \cup {<<r, k.from, k.to>>} ELSE outbox
        /\ k.announce => <<r, k.from, k.to>> \notin outbox
        /\ k.announce \in BOOLEAN
    BY <1>3, <2>r, CallFields DEF RowMoved, Apply, IdempotencyKey
  <2>3. /\ audit'[r][n].announced = k.announce
        /\ audit'[r][n].before = k.from
        /\ audit'[r][n].after = k.to
    BY <2>1
  <2>4. ASSUME NEW q \in Resources, NEW i \in DOMAIN audit[q], NEW o
        PROVE  Announces(q, i, o)' <=> Announces(q, i, o)
    BY <2>1 DEF Announces
  <2>5. ASSUME NEW o PROVE Announces(r, n, o)' <=> k.announce /\ o = <<r, k.from, k.to>>
    BY <2>3 DEF Announces
  <2>6. ASSUME NEW o PROVE o \in outbox' <=> o \in outbox \/ Announces(r, n, o)'
    BY <2>2, <2>5
  <2>7. ASSUME NEW o
        PROVE  o \in outbox' <=>
                 \E q \in Resources : \E i \in DOMAIN audit'[q] : Announces(q, i, o)'
    <3>1. (\E q \in Resources : \E i \in DOMAIN audit'[q] : Announces(q, i, o)')
            <=> \/ \E q \in Resources : \E i \in DOMAIN audit[q] : Announces(q, i, o)
                \/ Announces(r, n, o)'
      BY <2>1, <2>4
    <3>. QED
      BY <2>6, <3>1 DEF OutboxExact
  <2>8. ASSUME NEW q \in Resources, NEW i \in DOMAIN audit'[q], NEW j \in DOMAIN audit'[q],
               SameMove(q, i, j)'
        PROVE  i = j
    <3>1. ASSUME NEW m \in DOMAIN audit[r], SameMove(r, m, n)' PROVE FALSE
      <4>1. k.announce /\ Announces(r, m, <<r, k.from, k.to>>)
        BY <2>1, <2>3, <3>1 DEF SameMove, Announces
      <4>. QED
        BY <2>1, <2>2, <4>1 DEF OutboxExact
    <3>2. CASE i \in DOMAIN audit[q] /\ j \in DOMAIN audit[q]
      BY <2>1, <2>8, <3>2 DEF OutboxExact, SameMove
    <3>3. CASE q = r /\ i = n /\ j \in DOMAIN audit[r]
      BY <2>8, <3>1, <3>3 DEF SameMove
    <3>4. CASE q = r /\ j = n /\ i \in DOMAIN audit[r]
      BY <2>8, <3>1, <3>4 DEF SameMove
    <3>. QED
      BY <2>1, <3>2, <3>3, <3>4
  <2>. QED
    BY <2>7, <2>8 DEF OutboxExact
<1>. QED
  BY <1>1, <1>2, <1>3, StepKinds

\* The outbox holds an event for exactly the moves that were not suppressed, and
\* no event stands for two of them.
THEOREM OutboxHolds == Spec => []OutboxMatchesAudit
<1>1. Init => TypeOK /\ Locking /\ OutboxExact
  BY TypeInit, LockingInit, OutboxInit
<1>2. TypeOK /\ Locking /\ OutboxExact /\ [Next]_vars => (TypeOK /\ Locking /\ OutboxExact)'
  BY TypeStep, LockingStep, OutboxStep
<1>. QED
  BY <1>1, <1>2, OutboxSaid, PTL DEF Spec

-----------------------------------------------------------------------------
(* Acknowledged moves                                                      *)

\* The move a is at its place in the trail of a record.
InTrail(a) ==
    /\ a[1] \in Resources
    /\ a[2] \in DOMAIN audit[a[1]]
    /\ audit[a[1]][a[2]].before = a[3]
    /\ audit[a[1]][a[2]].after = a[4]

AckedInTrail == \A a \in acked : InTrail(a)

\* The trails only grow.
LEMMA TrailKept ==
    ASSUME TypeOK, Locking, [Next]_vars, NEW a, InTrail(a)
    PROVE  InTrail(a)'
<1>1. CASE UNCHANGED tables
  BY <1>1 DEF tables, InTrail
<1>2. ASSUME NEW r \in Resources, NEW s \in StatusesOf(r), RowCreated(r, s)
      PROVE  InTrail(a)'
  BY <1>2 DEF RowCreated, InTrail
<1>3. ASSUME NEW k \in Calls, RowMoved(k) PROVE InTrail(a)'
  <2>1. CASE a[1] = k.res
    BY <1>3, <2>1, TrailsAfterMove DEF InTrail
  <2>2. CASE a[1] # k.res
    BY <1>3, <2>2, TrailsAfterMove DEF InTrail
  <2>. QED
    BY <2>1, <2>2
<1>. QED
  BY <1>1, <1>2, <1>3, StepKinds

LEMMA AckedStep ==
    ASSUME TypeOK, Locking, AuditTrail, AckedInTrail, [Next]_vars
    PROVE  AckedInTrail'
<1>1. CASE acked' = acked
  BY <1>1, TrailKept DEF AckedInTrail
<1>2. ASSUME NEW c \in Callers, Commit(c) PROVE AckedInTrail'
  <2>k. PICK k \in Calls : k = call[c] /\ RowMoved(k)
    BY <1>2, CommitMovesRow
  <2>1. PICK a : a = <<k.res, lockVersion[k.res] + 1, k.from, k.to>>
    OBVIOUS
  <2>2. acked' = acked \cup {a}
    BY <1>2, <2>k, <2>1 DEF Commit
  <2>3. k.res \in Resources /\ lockVersion[k.res] = Len(audit[k.res])
    BY CallFields DEF AuditTrail
  <2>4. /\ Len(audit[k.res]) + 1 \in DOMAIN audit'[k.res]
        /\ audit'[k.res][Len(audit[k.res]) + 1].before = k.from
        /\ audit'[k.res][Len(audit[k.res]) + 1].after = k.to
    <3>1. /\ DOMAIN audit'[k.res] = DOMAIN audit[k.res] \cup {Len(audit[k.res]) + 1}
          /\ audit'[k.res][Len(audit[k.res]) + 1]
               = [before |-> k.from, after |-> k.to, announced |-> k.announce]
      BY <2>k, TrailsAfterMove
    <3>. QED
      BY <3>1
  <2>5. InTrail(a)'
    BY <2>1, <2>3, <2>4 DEF InTrail
  <2>. QED
    BY <2>2, <2>5, TrailKept DEF AckedInTrail
<1>3. acked' = acked \/ \E c \in Callers : Commit(c)
  BY DEF Next, Advance, Create, Call, Update, Conflict, AppendAudit, AppendOutbox,
         DuplicateKey, CommitUnanswered, Abort, vars
<1>. QED
  BY <1>1, <1>2, <1>3

\* A move whose call returned nil stays in the record's history for good.
THEOREM AckedHolds == Spec => []AckedIsDurable
<1>. DEFINE Inv == TypeOK /\ Locking /\ AuditTrail /\ AckedInTrail
<1>1. Init => Inv
  BY TypeInit, LockingInit, TrailInit DEF Init, AckedInTrail
<1>2. Inv /\ [Next]_vars => Inv'
  BY TypeStep, LockingStep, TrailStep, AckedStep
<1>3. Inv => AckedIsDurable
  BY DEF AckedInTrail, InTrail, AckedIsDurable
<1>. QED
  BY <1>1, <1>2, <1>3, PTL DEF Spec
=============================================================================
