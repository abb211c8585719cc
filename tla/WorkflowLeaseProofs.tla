------------------------ MODULE WorkflowLeaseProofs -------------------------
(***************************************************************************)
(* Theorems about WorkflowLease for every set of sessions, every TTL, every *)
(* error of their clocks and all bounds.                                   *)
(***************************************************************************)
EXTENDS WorkflowLease, TLAPS

-----------------------------------------------------------------------------
(* The inductive invariant                                                 *)

\* A session holds leases under its own owner id only, and none that lasts longer
\* than a TTL from now.
HeldIsOwn ==
    \A s \in Sessions :
        held[s] # NoLease =>
            /\ held[s].owner = Owner[s]
            /\ held[s].expires <= Clock(s) + TTL

\* The row backs the lease of a session whose clock is not behind the database's,
\* for as long as the session works under it: it names the session, and it does
\* not expire before the lease does.
RowBacksLease ==
    \A s \in Sessions :
        Skew[s] >= 0 /\ Working(s) =>
            /\ row # NoLease
            /\ row.owner = Owner[s]
            /\ row.expires >= held[s].expires

OwnersDistinct == \A s, t \in Sessions : Owner[s] = Owner[t] => s = t

-----------------------------------------------------------------------------
(* Types                                                                   *)

\* What the fields of a lease are, and what a renewal makes of it.
LEMMA LeaseFields ==
    ASSUME NEW l \in Leases, NEW e \in Int
    PROVE  /\ l.owner \in {Owner[s] : s \in Sessions} /\ l.token \in Nat /\ l.expires \in Int
           /\ l # NoLease
           /\ [l EXCEPT !.expires = e] \in Leases
           /\ [l EXCEPT !.expires = e].owner = l.owner
           /\ [l EXCEPT !.expires = e].token = l.token
           /\ [l EXCEPT !.expires = e].expires = e
  BY LeaseAssumption DEF Leases

LEMMA NewLeaseFields ==
    ASSUME NEW s \in Sessions, NEW token \in Nat, TypeOK
    PROVE  /\ NewLease(s, token) \in Leases
           /\ NewLease(s, token) # NoLease
           /\ NewLease(s, token).owner = Owner[s]
           /\ NewLease(s, token).token = token
           /\ NewLease(s, token).expires = Clock(s) + TTL
           /\ Clock(s) \in Int /\ Clock(s) + TTL \in Int
<1>1. Clock(s) \in Int /\ Clock(s) + TTL \in Int
  BY LeaseAssumption DEF TypeOK, Clock
<1>2. NewLease(s, token) \in Leases
  BY <1>1 DEF NewLease, Leases
<1>. QED
  BY <1>1, <1>2, LeaseAssumption DEF NewLease, Leases

LEMMA TypeInit == Init => TypeOK
  BY LeaseAssumption DEF Init, TypeOK

\* The two ways a row is written.
Granted(s) ==
    \E token \in Nat : token >= 1 /\ row' = NewLease(s, token)

Renewed(s) ==
    /\ Mine(s)
    /\ row' = [row EXCEPT !.expires = Clock(s) + TTL]

\* What a step by a session does: it is granted the lease, renews it, or gives up
\* what it holds, perhaps with the row.
LEMMA SessionStep ==
    ASSUME TypeOK, NEW s \in Sessions,
           \/ AcquireFree(s) \/ AcquireOver(s) \/ AcquireUnanswered(s)
           \/ Renew(s) \/ RenewUnanswered(s) \/ RenewRefused(s)
           \/ Release(s) \/ ReleaseRefused(s) \/ Crash(s)
    PROVE  /\ now' = now
           /\ \/ /\ Granted(s)
                 /\ row = NoLease \/ row.expires <= now \/ row.owner = Owner[s]
                 /\ held' = [held EXCEPT ![s] = row'] \/ held' = held
              \/ Renewed(s) /\ (held' = [held EXCEPT ![s] = row'] \/ held' = held)
              \/ Mine(s) /\ row' = NoLease /\ held' = [held EXCEPT ![s] = NoLease]
              \/ row' = row /\ held' = [held EXCEPT ![s] = NoLease]
<1>1. row # NoLease => row.token + 1 \in Nat /\ row.token + 1 >= 1
  BY DEF TypeOK, Leases
<1>2. CASE AcquireFree(s)
  BY <1>2 DEF AcquireFree, Grant, Granted
<1>3. CASE AcquireOver(s)
  BY <1>1, <1>3 DEF AcquireOver, Grant, Granted
<1>4. CASE AcquireUnanswered(s)
  <2>1. CASE row = NoLease
    BY <1>4, <2>1 DEF AcquireUnanswered, Granted
  <2>2. CASE row # NoLease
    BY <1>1, <1>4, <2>2 DEF AcquireUnanswered, Granted
  <2>. QED
    BY <2>1, <2>2
<1>5. CASE Renew(s) \/ RenewUnanswered(s)
  BY <1>5 DEF Renew, RenewUnanswered, Renewed
<1>6. CASE RenewRefused(s) \/ Release(s) \/ ReleaseRefused(s) \/ Crash(s)
  BY <1>6 DEF RenewRefused, Release, ReleaseRefused, Crash
<1>. QED
  BY <1>2, <1>3, <1>4, <1>5, <1>6

\* A step of the specification is one of a session, or of the clock, or none.
LEMMA NextSplits ==
    ASSUME [Next]_vars
    PROVE  \/ Tick
           \/ UNCHANGED vars
           \/ \E s \in Sessions :
                \/ AcquireFree(s) \/ AcquireOver(s) \/ AcquireUnanswered(s)
                \/ Renew(s) \/ RenewUnanswered(s) \/ RenewRefused(s)
                \/ Release(s) \/ ReleaseRefused(s) \/ Crash(s)
  BY DEF Next

\* A row that was granted or renewed is the session's, for a TTL by its clock.
LEMMA WrittenRow ==
    ASSUME TypeOK, HeldIsOwn, NEW s \in Sessions, Granted(s) \/ Renewed(s)
    PROVE  /\ row' \in Leases /\ row' # NoLease /\ row'.token >= 1
           /\ row'.owner = Owner[s]
           /\ row'.expires = Clock(s) + TTL
           /\ Clock(s) \in Int /\ Clock(s) + TTL \in Int
<1>1. Clock(s) \in Int /\ Clock(s) + TTL \in Int
  BY LeaseAssumption DEF TypeOK, Clock
<1>2. CASE Granted(s)
  <2>1. PICK token \in Nat : token >= 1 /\ row' = NewLease(s, token)
    BY <1>2 DEF Granted
  <2>. QED
    BY <1>1, <2>1, NewLeaseFields
<1>3. CASE Renewed(s)
  <2>1. row \in Leases /\ row.token >= 1 /\ row.owner = Owner[s]
    BY <1>3 DEF Renewed, Mine, TypeOK, HeldIsOwn
  <2>2. row' = [row EXCEPT !.expires = Clock(s) + TTL]
    BY <1>3 DEF Renewed
  <2>. QED
    BY <1>1, <2>1, <2>2, LeaseFields
<1>. QED
  BY <1>2, <1>3

LEMMA TypeStep == TypeOK /\ HeldIsOwn /\ [Next]_vars => TypeOK'
<1>. SUFFICES ASSUME TypeOK, HeldIsOwn, [Next]_vars PROVE TypeOK'
  OBVIOUS
<1>1. CASE Tick
  BY <1>1, LeaseAssumption DEF Tick, TypeOK
<1>2. CASE UNCHANGED vars
  BY <1>2 DEF vars, TypeOK
<1>3. ASSUME NEW s \in Sessions,
             \/ AcquireFree(s) \/ AcquireOver(s) \/ AcquireUnanswered(s)
             \/ Renew(s) \/ RenewUnanswered(s) \/ RenewRefused(s)
             \/ Release(s) \/ ReleaseRefused(s) \/ Crash(s)
      PROVE  TypeOK'
  <2>1. CASE Granted(s) \/ Renewed(s)
    <3>1. row' \in Leases /\ row'.token >= 1
      BY <2>1, WrittenRow
    <3>2. now' = now /\ (held' = [held EXCEPT ![s] = row'] \/ held' = held
                          \/ held' = [held EXCEPT ![s] = NoLease])
      BY <1>3, SessionStep
    <3>. QED
      BY <3>1, <3>2 DEF TypeOK
  <2>2. CASE ~ (Granted(s) \/ Renewed(s))
    <3>1. /\ now' = now
          /\ row' = row \/ row' = NoLease
          /\ held' = [held EXCEPT ![s] = NoLease]
      BY <1>3, <2>2, SessionStep
    <3>. QED
      BY <3>1 DEF TypeOK
  <2>. QED
    BY <2>1, <2>2
<1>. QED
  BY <1>1, <1>2, <1>3, NextSplits

-----------------------------------------------------------------------------
(* The invariant                                                           *)

LEMMA OwnInit == Init => HeldIsOwn /\ RowBacksLease /\ BlockedAtMostTTL
  BY DEF Init, HeldIsOwn, RowBacksLease, Working, BlockedAtMostTTL

LEMMA OwnStep == TypeOK /\ HeldIsOwn /\ [Next]_vars => HeldIsOwn'
<1>. SUFFICES ASSUME TypeOK, HeldIsOwn, [Next]_vars PROVE HeldIsOwn'
  OBVIOUS
<1>1. CASE Tick
  <2>1. ASSUME NEW s \in Sessions, held[s] # NoLease
        PROVE  held[s].expires <= now + 1 + Skew[s] + TTL
    <3>1. held[s] \in Leases /\ held[s].expires <= now + Skew[s] + TTL
      BY <2>1 DEF TypeOK, HeldIsOwn, Clock
    <3>2. held[s].expires \in Int /\ now \in Int /\ Skew[s] \in Int /\ TTL \in Int
      BY <3>1, LeaseAssumption DEF Leases, TypeOK
    <3>. QED
      BY <3>1, <3>2
  <2>. QED
    BY <1>1, <2>1 DEF Tick, HeldIsOwn, Clock
<1>2. CASE UNCHANGED vars
  BY <1>2 DEF vars, HeldIsOwn, Clock
<1>3. ASSUME NEW s \in Sessions,
             \/ AcquireFree(s) \/ AcquireOver(s) \/ AcquireUnanswered(s)
             \/ Renew(s) \/ RenewUnanswered(s) \/ RenewRefused(s)
             \/ Release(s) \/ ReleaseRefused(s) \/ Crash(s)
      PROVE  HeldIsOwn'
  <2>1. now' = now
    BY <1>3, SessionStep
  <2>2. CASE held' = held \/ held' = [held EXCEPT ![s] = NoLease]
    BY <2>1, <2>2 DEF HeldIsOwn, TypeOK, Clock
  <2>3. CASE (Granted(s) \/ Renewed(s)) /\ held' = [held EXCEPT ![s] = row']
    <3>1. row'.owner = Owner[s] /\ row'.expires <= Clock(s) + TTL
      BY <2>3, WrittenRow
    <3>. QED
      BY <2>1, <2>3, <3>1 DEF HeldIsOwn, TypeOK, Clock
  <2>. QED
    BY <1>3, <2>2, <2>3, SessionStep
<1>. QED
  BY <1>1, <1>2, <1>3, NextSplits

LEMMA BlockedStep == TypeOK /\ HeldIsOwn /\ BlockedAtMostTTL /\ [Next]_vars => BlockedAtMostTTL'
<1>. SUFFICES ASSUME TypeOK, HeldIsOwn, BlockedAtMostTTL, [Next]_vars, row' # NoLease
              PROVE  \E s \in Sessions : row'.owner = Owner[s] /\ row'.expires <= Clock(s)' + TTL
  BY DEF BlockedAtMostTTL
<1>1. CASE row' = row /\ (now' = now \/ now' = now + 1)
  <2>1. PICK s \in Sessions : row.owner = Owner[s] /\ row.expires <= Clock(s) + TTL
    BY <1>1 DEF BlockedAtMostTTL
  <2>2. row.expires \in Int /\ now \in Int /\ Skew[s] \in Int /\ TTL \in Int
    BY <1>1, LeaseAssumption DEF Leases, TypeOK
  <2>3. row.expires <= Clock(s)' + TTL
    BY <1>1, <2>1, <2>2 DEF Clock
  <2>. QED
    BY <1>1, <2>1, <2>3
<1>2. ASSUME NEW s \in Sessions, now' = now, Granted(s) \/ Renewed(s)
      PROVE  row'.owner = Owner[s] /\ row'.expires <= Clock(s)' + TTL
  BY <1>2, WrittenRow DEF Clock
<1>3. Tick \/ UNCHANGED vars => row' = row /\ (now' = now \/ now' = now + 1)
  BY DEF Tick, vars
<1>. QED
  BY <1>1, <1>2, <1>3, SessionStep, NextSplits

\* With the clock of t not behind, the row of its working lease has not expired.
LEMMA BackedIsLive ==
    ASSUME TypeOK, RowBacksLease, NEW t \in Sessions, Skew[t] >= 0, Working(t)
    PROVE  /\ row # NoLease /\ row.owner = Owner[t]
           /\ row.expires >= held[t].expires
           /\ ~ (row.expires <= now)
<1>1. row # NoLease /\ row.owner = Owner[t] /\ row.expires >= held[t].expires
  BY DEF RowBacksLease
<1>2. row.expires \in Int /\ held[t].expires \in Int /\ now \in Int /\ Skew[t] \in Int
  BY <1>1, LeaseAssumption DEF TypeOK, Leases, Working
<1>3. now + Skew[t] < held[t].expires
  BY DEF Working, Clock
<1>. QED
  BY <1>1, <1>2, <1>3

LEMMA RowBacksStep ==
    ASSUME OwnersDistinct, TypeOK, HeldIsOwn, RowBacksLease, [Next]_vars
    PROVE  RowBacksLease'
<1>. SUFFICES ASSUME NEW t \in Sessions, Skew[t] >= 0, Working(t)'
              PROVE  row' # NoLease /\ row'.owner = Owner[t] /\ row'.expires >= held'[t].expires
  BY DEF RowBacksLease
<1>1. CASE Tick \/ UNCHANGED vars
  <2>1. held' = held /\ row' = row /\ (now' = now \/ now' = now + 1)
    BY <1>1 DEF Tick, vars
  <2>2. now \in Int /\ Skew[t] \in Int
    BY LeaseAssumption DEF TypeOK
  <2>3. held[t] # NoLease /\ held[t].expires \in Int
    BY <2>1 DEF Working, TypeOK, Leases
  <2>4. Working(t)
    BY <2>1, <2>2, <2>3 DEF Working, Clock
  <2>. QED
    BY <2>1, <2>4, BackedIsLive
<1>2. ASSUME NEW s \in Sessions,
             \/ AcquireFree(s) \/ AcquireOver(s) \/ AcquireUnanswered(s)
             \/ Renew(s) \/ RenewUnanswered(s) \/ RenewRefused(s)
             \/ Release(s) \/ ReleaseRefused(s) \/ Crash(s)
      PROVE  row' # NoLease /\ row'.owner = Owner[t] /\ row'.expires >= held'[t].expires
  <2>1. now' = now
    BY <1>2, SessionStep
  <2>2. CASE t = s /\ (Granted(s) \/ Renewed(s)) /\ held' = [held EXCEPT ![s] = row']
    <3>1. held'[t] = row'
      BY <2>2 DEF TypeOK
    <3>. QED
      BY <2>2, <3>1, WrittenRow
  <2>3. CASE held'[t] = held[t]
    <3>1. Working(t)
      BY <2>1, <2>3 DEF Working, Clock
    <3>2. /\ row # NoLease /\ row.owner = Owner[t] /\ row.expires >= held[t].expires
          /\ ~ (row.expires <= now)
      BY <3>1, BackedIsLive
    <3>3. Mine(s) => s = t
      BY <3>2 DEF Mine, HeldIsOwn, OwnersDistinct
    <3>4. CASE row' = row
      BY <2>3, <3>2, <3>4
    <3>5. CASE \/ Granted(s) /\ (row = NoLease \/ row.expires <= now \/ row.owner = Owner[s])
               \/ Renewed(s)
      <4>1. s = t
        BY <3>2, <3>3, <3>5 DEF Renewed, OwnersDistinct
      <4>2. row' # NoLease /\ row'.owner = Owner[t] /\ row'.expires = Clock(t) + TTL
        BY <3>5, <4>1, WrittenRow
      <4>3. held[t].expires <= Clock(t) + TTL
        BY <3>1 DEF Working, HeldIsOwn
      <4>. QED
        BY <2>3, <3>5, <4>1, <4>2, <4>3, WrittenRow, LeaseFields DEF Working, TypeOK, Leases
    <3>6. CASE Mine(s) /\ row' = NoLease /\ held' = [held EXCEPT ![s] = NoLease]
      BY <3>3, <3>6 DEF Working, TypeOK
    <3>. QED
      BY <1>2, <3>4, <3>5, <3>6, SessionStep
  <2>4. CASE held' = [held EXCEPT ![s] = NoLease]
    <3>1. t # s
      BY <2>4 DEF Working, TypeOK
    <3>. QED
      BY <2>3, <2>4, <3>1 DEF TypeOK
  <2>5. CASE t # s /\ held' = [held EXCEPT ![s] = row']
    BY <2>3, <2>5 DEF TypeOK
  <2>. QED
    BY <1>2, <2>2, <2>3, <2>4, <2>5, SessionStep
<1>. QED
  BY <1>1, <1>2, NextSplits

-----------------------------------------------------------------------------
(* The theorems                                                            *)

\* The row and what the sessions hold are leases; the row's token starts from 1.
THEOREM TypeCorrect == Spec => []TypeOK
<1>1. Init => TypeOK /\ HeldIsOwn
  BY TypeInit, OwnInit
<1>2. TypeOK /\ HeldIsOwn /\ [Next]_vars => (TypeOK /\ HeldIsOwn)'
  BY TypeStep, OwnStep
<1>. QED
  BY <1>1, <1>2, PTL DEF Spec

\* A lease that nobody renews blocks the other owners for at most the TTL, give or
\* take the error of the clock of the session it was granted to.
THEOREM BlockedHolds == Spec => []BlockedAtMostTTL
<1>. DEFINE Inv == TypeOK /\ HeldIsOwn /\ BlockedAtMostTTL
<1>1. Init => Inv
  BY TypeInit, OwnInit
<1>2. Inv /\ [Next]_vars => Inv'
  BY TypeStep, OwnStep, BlockedStep
<1>. QED
  BY <1>1, <1>2, PTL DEF Spec

\* If every session has an owner id of its own, two of them work under the lease
\* at the same time only if the clock of one is behind the database's.
THEOREM MutualExclusionHolds ==
    ASSUME OwnersDistinct
    PROVE  Spec => []MutualExclusion
<1>. DEFINE Inv == TypeOK /\ HeldIsOwn /\ RowBacksLease
<1>1. Init => Inv
  BY TypeInit, OwnInit
<1>2. Inv /\ [Next]_vars => Inv'
  BY TypeStep, OwnStep, RowBacksStep
<1>3. Inv => MutualExclusion
  <2>. SUFFICES ASSUME Inv, NEW s \in Sessions, NEW t \in Sessions,
                       Owner[s] # Owner[t], Working(s), Working(t)
                PROVE  Skew[s] < 0 \/ Skew[t] < 0
    BY DEF MutualExclusion
  <2>1. Skew[s] \in Int /\ Skew[t] \in Int
    BY LeaseAssumption
  <2>. QED
    BY <2>1, BackedIsLive
<1>. QED
  BY <1>1, <1>2, <1>3, PTL DEF Spec
=============================================================================
