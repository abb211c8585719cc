--------------------------- MODULE WorkflowLease ----------------------------
(***************************************************************************)
(* The lease of one resource in workflow_leases (workflowLeaseRepo of      *)
(* internal/store/postgres): Acquire, Renew and Release, each one SQL      *)
(* statement, called by sessions that hold the lease they were returned    *)
(* until they lose it, release it or crash.  Rows of different resources   *)
(* do not interact.                                                        *)
(*                                                                         *)
(* Two kinds of clock meet in the table: Acquire compares expires_at with  *)
(* the now() of the database, while the expires_at it stores and the now   *)
(* that Renew compares are computed by the caller from its own clock.      *)
(***************************************************************************)
EXTENDS Integers

CONSTANTS
    Sessions,   \* the holders of a WorkflowLease value: one goroutine each
    Owner,      \* Owner[s]: the owner_id session s gives
    Skew,       \* Skew[s]: how far the clock of s is ahead of the database's
    TTL,        \* how long a lease is asked for
    NoLease,    \* no row in the table, or nothing held
    MaxTime,    \* bound: the database's clock stops there
    MaxToken    \* bound: no lease is granted after this token

ASSUME LeaseAssumption ==
    /\ TTL \in Nat \ {0}
    /\ Skew \in [Sessions -> Int]
    /\ MaxTime \in Nat
    /\ MaxToken \in Nat
    /\ NoLease \notin [owner : {Owner[s] : s \in Sessions}, token : Nat, expires : Int]

VARIABLES
    now,    \* the database's clock
    row,    \* the row of workflow_leases, or NoLease
    held    \* the lease each session was last given, or NoLease

vars == <<now, row, held>>

-----------------------------------------------------------------------------
Leases == [owner : {Owner[s] : s \in Sessions}, token : Nat, expires : Int]

Clock(s) == now + Skew[s]

\* owner_id and fencing_token of the row are those of the lease s holds: the
\* WHERE clause of Renew and of Release.
Mine(s) ==
    /\ held[s] # NoLease
    /\ row # NoLease
    /\ row.owner = held[s].owner
    /\ row.token = held[s].token

\* The lease a session asks for, with the expires_at it computed.
NewLease(s, token) == [owner |-> Owner[s], token |-> token, expires |-> Clock(s) + TTL]

Grant(s, token) ==
    /\ row' = NewLease(s, token)
    /\ held' = [held EXCEPT ![s] = NewLease(s, token)]
    /\ UNCHANGED now

\* A slip: the DO UPDATE of the upsert has no WHERE clause.
AcquireHeld(s) ==
    /\ row # NoLease
    /\ row.token < MaxToken
    /\ Grant(s, row.token + 1)

\* A slip: the INSERT leaves fencing_token to a column default of 0.
AcquireFreeZero(s) ==
    /\ row = NoLease
    /\ Grant(s, 0)

-----------------------------------------------------------------------------
\* Acquire inserts the row when there is none.
AcquireFree(s) ==
    /\ row = NoLease
    /\ Grant(s, 1)

\* Acquire takes over a row that has expired by the database's clock, or that
\* the same owner holds.  In every other case it returns ErrLeaseHeld and
\* changes nothing.
AcquireOver(s) ==
    /\ row # NoLease
    /\ row.expires <= now \/ row.owner = Owner[s]
    /\ row.token < MaxToken
    /\ Grant(s, row.token + 1)

\* A slip: each renewal adds the TTL to what is left of the lease.
RenewAdds(s) ==
    /\ Mine(s)
    /\ row.expires > Clock(s)
    /\ row' = [row EXCEPT !.expires = @ + TTL]
    /\ held' = [held EXCEPT ![s] = row']
    /\ UNCHANGED now

\* Renew extends the session's lease while the caller's clock says it lasts.
Renew(s) ==
    /\ Mine(s)
    /\ row.expires > Clock(s)
    /\ row' = [row EXCEPT !.expires = Clock(s) + TTL]
    /\ held' = [held EXCEPT ![s] = row']
    /\ UNCHANGED now

\* Renew of a lease that was taken over, released or outlived: ErrLeaseHeld.
RenewRefused(s) ==
    /\ held[s] # NoLease
    /\ ~ (Mine(s) /\ row.expires > Clock(s))
    /\ held' = [held EXCEPT ![s] = NoLease]
    /\ UNCHANGED <<now, row>>

\* Release deletes the row: the next Acquire starts again from token 1.
Release(s) ==
    /\ Mine(s)
    /\ row' = NoLease
    /\ held' = [held EXCEPT ![s] = NoLease]
    /\ UNCHANGED now

\* Release of a lease that is no longer the session's: ErrConflict.
ReleaseRefused(s) ==
    /\ held[s] # NoLease
    /\ ~ Mine(s)
    /\ held' = [held EXCEPT ![s] = NoLease]
    /\ UNCHANGED <<now, row>>

\* Acquire or Renew takes effect and its answer does not arrive: the session
\* goes on with the lease it knew of.
AcquireUnanswered(s) ==
    /\ \/ row = NoLease
       \/ row # NoLease /\ row.token < MaxToken
                        /\ (row.expires <= now \/ row.owner = Owner[s])
    /\ row' = NewLease(s, IF row = NoLease THEN 1 ELSE row.token + 1)
    /\ UNCHANGED <<now, held>>

RenewUnanswered(s) ==
    /\ Mine(s)
    /\ row.expires > Clock(s)
    /\ row' = [row EXCEPT !.expires = Clock(s) + TTL]
    /\ UNCHANGED <<now, held>>

\* The session's process dies and comes back without its leases.
Crash(s) ==
    /\ held[s] # NoLease
    /\ held' = [held EXCEPT ![s] = NoLease]
    /\ UNCHANGED <<now, row>>

Tick ==
    /\ now < MaxTime
    /\ now' = now + 1
    /\ UNCHANGED <<row, held>>

-----------------------------------------------------------------------------
Init ==
    /\ now = 0
    /\ row = NoLease
    /\ held = [s \in Sessions |-> NoLease]

Next ==
    \/ Tick
    \/ \E s \in Sessions :
         \/ AcquireFree(s)
         \/ AcquireOver(s)
         \/ AcquireUnanswered(s)
         \/ Renew(s)
         \/ RenewUnanswered(s)
         \/ RenewRefused(s)
         \/ Release(s)
         \/ ReleaseRefused(s)
         \/ Crash(s)

Spec == Init /\ [][Next]_vars

-----------------------------------------------------------------------------
(* Properties                                                              *)

\* The row and what sessions hold are leases; the row's token starts from 1.
TypeOK ==
    /\ now \in 0 .. MaxTime
    /\ row \in Leases \cup {NoLease}
    /\ row # NoLease => row.token >= 1
    /\ held \in [Sessions -> Leases \cup {NoLease}]

\* A session works under its lease until its own clock says it is over.
Working(s) == held[s] # NoLease /\ Clock(s) < held[s].expires

\* Two owners work under the lease at the same time only if the clock of one of
\* them is behind the database's: takeovers, renewals whose answer was lost,
\* crashes and releases by sessions that were overtaken do not let a second
\* owner in.  It presumes that no two sessions give the same owner_id.
MutualExclusion ==
    \A s, t \in Sessions :
        Owner[s] # Owner[t] /\ Working(s) /\ Working(t) => Skew[s] < 0 \/ Skew[t] < 0

\* A session that crashed, stalled or never learned that it was given the lease
\* keeps the others out for at most the TTL, give or take its clock's error.
BlockedAtMostTTL ==
    row # NoLease => \E s \in Sessions : row.owner = Owner[s] /\ row.expires <= Clock(s) + TTL

\* What fencing needs: the session whose lease the row is has a larger token than
\* every other session that still holds an older lease, so that a store which
\* remembers the largest token it saw refuses the older session's write.
HolderHasLargestToken ==
    \A s, t \in Sessions :
        s # t /\ Mine(s) /\ held[t] # NoLease /\ ~ Mine(t) => held[t].token < held[s].token
=============================================================================
