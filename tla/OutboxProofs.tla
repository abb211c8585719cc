---------------------------- MODULE OutboxProofs -----------------------------
(***************************************************************************)
(* Theorems about Outbox for any number of events and dispatchers and      *)
(* every limit.  The order of the events, which is in due, plays no part   *)
(* in who has them in hand; it is proved by itself that nothing is due     *)
(* twice.                                                                  *)
(***************************************************************************)
EXTENDS Outbox, TLAPS, WellFoundedInduction

-----------------------------------------------------------------------------
(* The queue                                                               *)

LEMMA LeastExists ==
    ASSUME NEW S \in SUBSET Nat, S # {} PROVE \E m \in S : \A i \in S : m <= i
<1> DEFINE R == {pair \in Nat \X Nat : pair[1] < pair[2]}
<1>1. IsWellFoundedOn(R, Nat)
  BY NatLessThanWellFounded DEF OpToRel
<1>2. \A i, j \in Nat : i < j => <<i, j>> \in R
  OBVIOUS
<1> HIDE DEF R
<1>3. PICK m \in S : \A i \in S : <<i, m>> \notin R
  BY <1>1, WFMin
<1>4. ASSUME NEW i \in S PROVE m <= i
  <2>1. i \in Nat /\ m \in Nat /\ ~ (i < m)
    BY <1>2, <1>3
  <2> QED BY <2>1
<1> QED BY <1>4

\* What is kept of the first n entries of a queue.
Longer(queue, events, seq, n) ==
    IF queue[n] \in events THEN seq ELSE Append(seq, queue[n])

Kept(f, queue, events) ==
    f = [n \in 0 .. Len(queue) |->
            IF n = 0 THEN <<>> ELSE Longer(queue, events, f[n - 1], n)]

LEMMA KeptChosen ==
    ASSUME NEW queue, NEW events, NEW f, Kept(f, queue, events)
    PROVE  \E kept : Kept(kept, queue, events) /\ Without(queue, events) = kept[Len(queue)]
  BY DEF Kept, Longer, Without

LEMMA KeptExists ==
    ASSUME NEW S, NEW queue \in Seq(S), NEW events
    PROVE  \E f : Kept(f, queue, events)
<1> DEFINE L == Len(queue)
           Part(f, k) ==
               /\ f \in [0 .. k -> Seq(S)] /\ f[0] = <<>>
               /\ \A n \in 1 .. k : f[n] = Longer(queue, events, f[n - 1], n)
           bad == {k \in 0 .. L : \A f : ~ Part(f, k)}
<1>1. L \in Nat /\ \A n \in 1 .. L : queue[n] \in S
  OBVIOUS
<1> HIDE DEF L
<1>2. bad = {}
  <2> SUFFICES ASSUME bad # {} PROVE FALSE
    OBVIOUS
  <2>1. PICK k \in bad : \A i \in bad : k <= i
    <3>1. bad \in SUBSET Nat
      BY <1>1
    <3> HIDE DEF bad
    <3> QED BY <3>1, LeastExists
  <2>2. k \in 0 .. L /\ \A f : ~ Part(f, k)
    OBVIOUS
  <2> HIDE DEF bad
  <2>3. k # 0
    <3> SUFFICES ASSUME k = 0 PROVE FALSE
      OBVIOUS
    <3> DEFINE f == [n \in 0 .. 0 |-> <<>>]
    <3>1. f \in [0 .. k -> Seq(S)] /\ f[0] = <<>> /\ 1 .. k = {}
      OBVIOUS
    <3>2. Part(f, k)
      BY <3>1
    <3> QED BY <2>2, <3>2
  <2>4. k - 1 \in 0 .. L /\ k - 1 \notin bad
    BY <1>1, <2>1, <2>2, <2>3
  <2>5. PICK f : Part(f, k - 1)
    BY <2>4 DEF bad
  <2> DEFINE last == Longer(queue, events, f[k - 1], k)
             g == [n \in 0 .. k |-> IF n = k THEN last ELSE f[n]]
  <2>6. /\ k \in 1 .. L /\ k - 1 \in 0 .. k - 1 /\ 0 \in 0 .. k
        /\ \A n \in 0 .. k : n = k \/ n \in 0 .. k - 1
    BY <1>1, <2>2, <2>3
  <2>7. /\ f \in [0 .. k - 1 -> Seq(S)] /\ f[0] = <<>>
        /\ \A n \in 1 .. k - 1 : f[n] = Longer(queue, events, f[n - 1], n)
    BY <2>5
  <2> HIDE DEF Part
  <2>8. last \in Seq(S)
    BY <1>1, <2>6, <2>7 DEF Longer
  <2> HIDE DEF last
  <2>9. g \in [0 .. k -> Seq(S)] /\ g[0] = <<>>
    BY <2>3, <2>6, <2>7, <2>8
  <2>10. ASSUME NEW n \in 1 .. k PROVE g[n] = Longer(queue, events, g[n - 1], n)
    <3>1. n - 1 \in 0 .. k - 1 /\ n - 1 \in 0 .. k /\ n - 1 # k /\ n \in 0 .. k
      BY <2>6
    <3>2. g[n - 1] = f[n - 1]
      BY <3>1
    <3>3. CASE n = k
      BY <3>1, <3>2, <3>3 DEF last
    <3>4. CASE n # k
      <4>1. n \in 1 .. k - 1 /\ g[n] = f[n]
        BY <2>6, <3>1, <3>4
      <4> QED BY <2>7, <3>2, <4>1
    <3> QED BY <3>3, <3>4
  <2>11. Part(g, k)
    <3> HIDE DEF g
    <3> QED BY <2>9, <2>10 DEF Part
  <2> QED BY <2>2, <2>11
<1>3. PICK f : Part(f, L)
  <2>1. L \in 0 .. L /\ L \notin bad
    <3> HIDE DEF bad
    <3> QED BY <1>1, <1>2
  <2> HIDE DEF Part
  <2> QED BY <2>1
<1>4. /\ f \in [0 .. L -> Seq(S)]
      /\ \A n \in 0 .. L : f[n] = IF n = 0 THEN <<>> ELSE Longer(queue, events, f[n - 1], n)
  BY <1>1, <1>3
<1>5. f = [n \in 0 .. L |-> IF n = 0 THEN <<>> ELSE Longer(queue, events, f[n - 1], n)]
  BY <1>4
<1> QED BY <1>5 DEF Kept, L

LEMMA AppendIs ==
    ASSUME NEW S, NEW seq \in Seq(S), NEW x \in S
    PROVE  /\ Append(seq, x) \in Seq(S) /\ Range(Append(seq, x)) = Range(seq) \cup {x}
           /\ IsInjective(seq) /\ x \notin Range(seq) => IsInjective(Append(seq, x))
<1> DEFINE n == Len(seq)
           more == Append(seq, x)
<1>1. /\ more \in Seq(S) /\ DOMAIN more = 1 .. n + 1 /\ DOMAIN seq = 1 .. n /\ n \in Nat
      /\ more[n + 1] = x /\ \A i \in 1 .. n : more[i] = seq[i]
  OBVIOUS
<1>2. \A i \in 1 .. n + 1 : i = n + 1 \/ i \in 1 .. n
  BY <1>1
<1>3. n + 1 \in 1 .. n + 1 /\ \A i \in 1 .. n : i \in 1 .. n + 1
  BY <1>1
<1> HIDE DEF n, more
<1>4. Range(more) = Range(seq) \cup {x}
  BY <1>1, <1>2, <1>3 DEF Range
<1>5. IsInjective(seq) /\ x \notin Range(seq) => IsInjective(more)
  BY <1>1, <1>2 DEF Range, IsInjective
<1> QED BY <1>1, <1>4, <1>5 DEF more

\* The queue without some events has the others, each as often as before.
LEMMA WithoutIs ==
    ASSUME NEW S, NEW queue \in Seq(S), NEW events
    PROVE  /\ Without(queue, events) \in Seq(S)
           /\ Range(Without(queue, events)) = Range(queue) \ events
           /\ IsInjective(queue) => IsInjective(Without(queue, events))
<1> DEFINE L == Len(queue)
<1>1. /\ L \in Nat /\ DOMAIN queue = 1 .. L /\ \A n \in 1 .. L : queue[n] \in S
      /\ L \in 0 .. L
  OBVIOUS
<1>2. PICK kept : Kept(kept, queue, events) /\ Without(queue, events) = kept[L]
  BY KeptExists, KeptChosen
<1> HIDE DEF L
<1>3. /\ kept[0] = <<>>
      /\ \A n \in 1 .. L : kept[n] = Longer(queue, events, kept[n - 1], n)
  BY <1>1, <1>2 DEF Kept, L
<1> DEFINE Right(n) ==
               /\ kept[n] \in Seq(S)
               /\ Range(kept[n]) = {queue[i] : i \in 1 .. n} \ events
               /\ IsInjective(queue) => IsInjective(kept[n])
           bad == {n \in 0 .. L : ~ Right(n)}
<1>4. Right(0)
  <2>1. kept[0] \in Seq(S) /\ DOMAIN kept[0] = {} /\ 1 .. 0 = {}
    BY <1>3
  <2> QED BY <2>1 DEF Range, IsInjective
<1>5. ASSUME NEW n \in 1 .. L, Right(n - 1) PROVE Right(n)
  <2>1. /\ n - 1 \in Nat /\ n \in 1 .. n /\ \A i \in 1 .. n : i = n \/ i \in 1 .. n - 1
        /\ \A i \in 1 .. n - 1 : i \in 1 .. n /\ i \in 1 .. L /\ i # n
    BY <1>1
  <2>2. {queue[i] : i \in 1 .. n} = {queue[i] : i \in 1 .. n - 1} \cup {queue[n]}
    BY <2>1
  <2>3. CASE queue[n] \in events
    <3>1. kept[n] = kept[n - 1]
      BY <1>3, <2>3 DEF Longer
    <3> QED BY <1>5, <2>2, <2>3, <3>1
  <2>4. CASE queue[n] \notin events
    <3>1. kept[n] = Append(kept[n - 1], queue[n]) /\ queue[n] \in S
      BY <1>1, <1>3, <2>4 DEF Longer
    <3>2. IsInjective(queue) => queue[n] \notin Range(kept[n - 1])
      BY <1>1, <1>5, <2>1 DEF IsInjective
    <3>3. /\ kept[n] \in Seq(S) /\ Range(kept[n]) = Range(kept[n - 1]) \cup {queue[n]}
          /\ IsInjective(queue) => IsInjective(kept[n])
      BY <1>5, <3>1, <3>2, AppendIs
    <3> QED BY <1>5, <2>2, <2>4, <3>3
  <2> QED BY <2>3, <2>4
<1> HIDE DEF Right
<1>6. bad = {}
  <2> SUFFICES ASSUME bad # {} PROVE FALSE
    OBVIOUS
  <2>1. PICK k \in bad : \A i \in bad : k <= i
    <3>1. bad \in SUBSET Nat
      BY <1>1
    <3> HIDE DEF bad
    <3> QED BY <3>1, LeastExists
  <2>2. k \in 0 .. L /\ ~ Right(k)
    OBVIOUS
  <2>3. k \in 1 .. L /\ k - 1 \in 0 .. L
    BY <1>1, <1>4, <2>2
  <2>4. k - 1 \in bad
    BY <1>5, <2>2, <2>3
  <2> HIDE DEF bad
  <2> QED BY <2>1, <2>2, <2>4
<1>7. Right(L)
  BY <1>1, <1>6
<1> QED BY <1>1, <1>2, <1>7 DEF Right, Range

-----------------------------------------------------------------------------
(* The inductive invariant                                                 *)

\* The types of the variables, but for due.
Types ==
    /\ status \in [Events -> Statuses]
    /\ owner \in [Events -> Dispatchers \cup {Nobody}]
    /\ tx \in [Dispatchers -> SUBSET Events]
    /\ hand \in [Dispatchers -> SUBSET Events]
    /\ doubtful \subseteq Events

\* A row that a claim has locked still waits, and no other claim has locked it; a
\* dispatcher claims with empty hands.
LocksAreExclusive ==
    \A d \in Dispatchers :
        /\ \A e \in tx[d] : Waiting(e)
        /\ \A other \in Dispatchers \ {d} : tx[other] \cap tx[d] = {}
        /\ tx[d] = {} \/ hand[d] = {}

\* What one dispatcher knows of an event in its hand that was not marked without an
\* answer.
Owns(d, e) == status[e] = "claimed" /\ owner[e] = d

HandsAreOwned == \A d \in Dispatchers : \A e \in hand[d] \ doubtful : Owns(d, e)

IInv == Types /\ LocksAreExclusive /\ HandsAreOwned

\* An event that is in a hand is in no other and is locked by no claim, because its
\* status and its owner are what that hand says.
LEMMA Exclusive == IInv => HandsAreExclusive
<1>. SUFFICES ASSUME IInv, NEW d \in Dispatchers, NEW e \in hand[d] \ doubtful,
                     NEW other \in Dispatchers \ {d}
              PROVE  Owns(d, e) /\ e \notin hand[other] \cup tx[other]
  BY DEF HandsAreExclusive, Owns, IInv, HandsAreOwned
<1>1. e \in Events /\ Owns(d, e)
  BY DEF IInv, Types, HandsAreOwned
<1>2. e \notin hand[other]
  BY <1>1 DEF IInv, HandsAreOwned, Owns
<1>3. e \notin tx[other]
  BY <1>1 DEF IInv, LocksAreExclusive, Waiting, Owns
<1>. QED
  BY <1>1, <1>2, <1>3

-----------------------------------------------------------------------------
(* Each step                                                               *)

LEMMA Initially == Init => IInv
  BY DEF Init, IInv, Types, LocksAreExclusive, HandsAreOwned, Statuses

\* A claim takes rows that wait and that no claim has locked.
LEMMA SelectedIsFree == Selected \subseteq {e \in Events : Waiting(e) /\ e \notin Locked}
  BY DEF Selected, FirstOf, Free

\* A step that changes one event which no claim has locked, that is no longer in the
\* hand it was in, and in no other of them without a doubt, keeps the invariant.
LEMMA MarkKeeps ==
    ASSUME IInv, NEW e \in Events, e \notin Locked,
           NEW as \in Statuses, status' = [status EXCEPT ![e] = as],
           hand' \in [Dispatchers -> SUBSET Events],
           doubtful' \subseteq Events, doubtful \subseteq doubtful',
           \A d \in Dispatchers : hand'[d] \subseteq hand[d],
           \A d \in Dispatchers : e \notin hand'[d] \/ e \in doubtful',
           UNCHANGED <<owner, tx>>
    PROVE  IInv'
<1>1. Types'
  BY DEF IInv, Types
<1>2. LocksAreExclusive'
  <2>. SUFFICES ASSUME NEW d \in Dispatchers
                PROVE  /\ \A f \in tx[d] : Waiting(f)'
                       /\ \A other \in Dispatchers \ {d} : tx[other] \cap tx[d] = {}
                       /\ tx[d] = {} \/ hand'[d] = {}
    BY DEF LocksAreExclusive
  <2>1. ASSUME NEW f \in tx[d] PROVE Waiting(f)'
    <3>1. f \in Events /\ f # e
      BY DEF IInv, Types, Locked
    <3>2. status'[f] = status[f]
      BY <3>1 DEF IInv, Types
    <3>3. Waiting(f)
      BY DEF IInv, LocksAreExclusive
    <3>. QED
      BY <3>2, <3>3 DEF Waiting
  <2>. QED
    BY <2>1 DEF IInv, LocksAreExclusive
<1>3. HandsAreOwned'
  <2>. SUFFICES ASSUME NEW d \in Dispatchers, NEW f \in hand'[d] \ doubtful'
                PROVE  status'[f] = "claimed" /\ owner[f] = d
    BY DEF HandsAreOwned, Owns
  <2>1. f \in hand[d] \ doubtful /\ f # e /\ f \in Events
    BY DEF IInv, Types
  <2>. QED
    BY <2>1 DEF IInv, Types, HandsAreOwned, Owns
<1>. QED
  BY <1>1, <1>2, <1>3 DEF IInv

LEMMA AppendEventKeeps ==
    ASSUME IInv, NEW e \in Events, AppendEvent(e) PROVE IInv'
<1>1. /\ status[e] = "none"
      /\ status' = [status EXCEPT ![e] = "pending"]
      /\ UNCHANGED <<owner, tx, hand, doubtful>>
  BY DEF AppendEvent, Wait
<1>2. e \notin Locked
  BY <1>1 DEF IInv, LocksAreExclusive, Locked, Waiting
<1>3. \A d \in Dispatchers : e \notin hand[d] \/ e \in doubtful
  BY <1>1 DEF IInv, HandsAreOwned, Owns
<1>. QED
  BY <1>1, <1>2, <1>3, MarkKeeps DEF IInv, Types, Statuses

LEMMA ClaimKeeps ==
    ASSUME IInv, NEW d \in Dispatchers, Claim(d) PROVE IInv'
<1>1. /\ tx[d] = {} /\ hand[d] = {}
      /\ tx' = [tx EXCEPT ![d] = Selected]
      /\ UNCHANGED <<status, owner, hand, doubtful>>
  BY DEF Claim
<1>2. \A e \in Selected : e \in Events /\ Waiting(e) /\ e \notin Locked
  BY SelectedIsFree
<1>3. Types'
  BY <1>1, <1>2 DEF IInv, Types
<1>4. LocksAreExclusive'
  <2>. SUFFICES ASSUME NEW c \in Dispatchers
                PROVE  /\ \A e \in tx'[c] : Waiting(e)
                       /\ \A other \in Dispatchers \ {c} : tx'[other] \cap tx'[c] = {}
                       /\ tx'[c] = {} \/ hand[c] = {}
    BY <1>1 DEF LocksAreExclusive, Waiting
  <2>1. \A f \in Dispatchers : tx'[f] = IF f = d THEN Selected ELSE tx[f]
    BY <1>1 DEF IInv, Types
  <2>2. \A f \in Dispatchers : tx[f] \cap Selected = {}
    BY <1>2 DEF Locked
  <2>. QED
    BY <1>1, <1>2, <2>1, <2>2 DEF IInv, LocksAreExclusive
<1>5. HandsAreOwned'
  BY <1>1 DEF IInv, HandsAreOwned, Owns
<1>. QED
  BY <1>3, <1>4, <1>5 DEF IInv

\* The end of a claim: its rows are claimed, and nobody has any of them in hand unless
\* in doubt.
LEMMA ClaimEndsKeeps ==
    ASSUME IInv, NEW d \in Dispatchers, ClaimEnds(d), tx[d] # {},
           \/ UNCHANGED hand
           \/ hand' = [hand EXCEPT ![d] = tx[d]]
    PROVE  IInv'
<1>1. /\ status' = [e \in Events |-> IF e \in tx[d] THEN "claimed" ELSE status[e]]
      /\ owner' = [e \in Events |-> IF e \in tx[d] THEN d ELSE owner[e]]
      /\ tx' = [tx EXCEPT ![d] = {}]
      /\ UNCHANGED doubtful
  BY DEF ClaimEnds
<1>2. Types'
  BY <1>1 DEF IInv, Types, Statuses
<1>3. \A c \in Dispatchers : tx'[c] = IF c = d THEN {} ELSE tx[c]
  BY <1>1 DEF IInv, Types
<1>4. \A c \in Dispatchers : hand'[c] = hand[c] \/ (c = d /\ hand'[c] = tx[d])
  BY DEF IInv, Types
<1>5. LocksAreExclusive'
  <2>. SUFFICES ASSUME NEW c \in Dispatchers
                PROVE  /\ \A e \in tx'[c] : Waiting(e)'
                       /\ \A other \in Dispatchers \ {c} : tx'[other] \cap tx'[c] = {}
                       /\ tx'[c] = {} \/ hand'[c] = {}
    BY DEF LocksAreExclusive
  <2>1. ASSUME NEW e \in tx'[c] PROVE Waiting(e)'
    <3>1. c # d /\ e \in tx[c] /\ e \in Events /\ e \notin tx[d]
      BY <1>3, <2>1 DEF IInv, Types, LocksAreExclusive
    <3>. QED
      BY <1>1, <3>1 DEF IInv, LocksAreExclusive, Waiting
  <2>. QED
    BY <1>3, <1>4, <2>1 DEF IInv, LocksAreExclusive
<1>6. HandsAreOwned'
  <2>. SUFFICES ASSUME NEW c \in Dispatchers, NEW e \in hand'[c] \ doubtful
                PROVE  Owns(c, e)'
    BY <1>1 DEF HandsAreOwned
  <2>1. CASE e \in hand[c]
    <3>1. e \in Events /\ Owns(c, e)
      BY <2>1 DEF IInv, Types, HandsAreOwned
    <3>2. e \notin tx[d]
      BY <3>1 DEF IInv, LocksAreExclusive, Waiting, Owns
    <3>. QED
      BY <1>1, <3>1, <3>2 DEF Owns
  <2>2. CASE c = d /\ e \in tx[d]
    BY <1>1, <2>2 DEF IInv, Types, Owns
  <2>. QED
    BY <1>4, <2>1, <2>2
<1>. QED
  BY <1>2, <1>5, <1>6 DEF IInv

\* A step that only takes rows from claims and events from hands.
LEMMA LettingGoKeeps ==
    ASSUME IInv, NEW d \in Dispatchers,
           tx' = [tx EXCEPT ![d] = {}],
           \/ UNCHANGED hand
           \/ hand' = [hand EXCEPT ![d] = {}],
           UNCHANGED <<status, owner, doubtful>>
    PROVE  IInv'
<1>1. \A c \in Dispatchers : /\ tx'[c] = IF c = d THEN {} ELSE tx[c]
                             /\ hand'[c] = hand[c] \/ hand'[c] = {}
  BY DEF IInv, Types
<1>2. Types'
  BY DEF IInv, Types
<1>3. LocksAreExclusive'
  BY <1>1 DEF IInv, LocksAreExclusive, Waiting
<1>4. HandsAreOwned'
  BY <1>1 DEF IInv, HandsAreOwned, Owns
<1>. QED
  BY <1>2, <1>3, <1>4 DEF IInv

\* A mark with an answer: the event leaves the hand it was in, and it was in no other
\* unless in doubt.
LEMMA AnsweredMarkKeeps ==
    ASSUME IInv, NEW d \in Dispatchers, NEW e \in Events,
           MarkPublished(d, e) \/ MarkFailed(d, e)
    PROVE  IInv'
<1>1. /\ e \in hand[d] /\ e \notin Locked
      /\ \/ status' = [status EXCEPT ![e] = "published"]
         \/ status' = [status EXCEPT ![e] = "failed"]
      /\ hand' = [hand EXCEPT ![d] = @ \ {e}]
      /\ UNCHANGED <<owner, tx, doubtful>>
  BY DEF MarkPublished, MarkFailed, Markable, Published, Failed
<1>2. \A c \in Dispatchers : hand'[c] = IF c = d THEN hand[c] \ {e} ELSE hand[c]
  BY <1>1 DEF IInv, Types
<1>3. \A c \in Dispatchers : e \notin hand'[c] \/ e \in doubtful
  BY <1>1, <1>2, Exclusive DEF HandsAreExclusive
<1>. QED
  BY <1>1, <1>2, <1>3, MarkKeeps DEF IInv, Types, Statuses

LEMMA UnansweredMarkKeeps ==
    ASSUME IInv, NEW d \in Dispatchers, NEW e \in Events, MarkUnanswered(d, e) PROVE IInv'
<1>1. /\ e \notin Locked
      /\ \/ status' = [status EXCEPT ![e] = "published"]
         \/ status' = [status EXCEPT ![e] = "failed"]
      /\ doubtful' = doubtful \cup {e}
      /\ UNCHANGED <<owner, tx, hand>>
  BY DEF MarkUnanswered, Markable, Published, Failed
<1>. QED
  BY <1>1, MarkKeeps DEF IInv, Types, Statuses

LEMMA Steps == IInv /\ [Next]_vars => IInv'
<1>. SUFFICES ASSUME IInv, [Next]_vars PROVE IInv'
  OBVIOUS
<1>1. ASSUME NEW e \in Events, AppendEvent(e) PROVE IInv'
  BY <1>1, AppendEventKeeps
<1>2. ASSUME NEW e \in Events, Wake(e) PROVE IInv'
  BY <1>2 DEF Wake, IInv, Types, LocksAreExclusive, HandsAreOwned, Owns, Waiting
<1>3. ASSUME NEW d \in Dispatchers, Claim(d) PROVE IInv'
  BY <1>3, ClaimKeeps
<1>4. ASSUME NEW d \in Dispatchers, CommitClaim(d) \/ CommitUnanswered(d) PROVE IInv'
  BY <1>4, ClaimEndsKeeps DEF CommitClaim, CommitUnanswered
<1>5. ASSUME NEW d \in Dispatchers, AbortClaim(d) \/ Crash(d) PROVE IInv'
  BY <1>5, LettingGoKeeps DEF AbortClaim, Crash
<1>6. ASSUME NEW d \in Dispatchers, NEW e \in Events,
             MarkPublished(d, e) \/ MarkFailed(d, e)
      PROVE  IInv'
  BY <1>6, AnsweredMarkKeeps
<1>7. ASSUME NEW d \in Dispatchers, NEW e \in Events, MarkUnanswered(d, e) PROVE IInv'
  BY <1>7, UnansweredMarkKeeps
<1>8. CASE UNCHANGED vars
  BY <1>8 DEF vars, IInv, Types, LocksAreExclusive, HandsAreOwned, Owns, Waiting
<1>. QED
  BY <1>1, <1>2, <1>3, <1>4, <1>5, <1>6, <1>7, <1>8 DEF Next

-----------------------------------------------------------------------------
(* The order of the events                                                 *)

\* What is due waits, and nothing is due twice.
InOrder(queue, waiting) ==
    queue \in Seq(Events) /\ Range(queue) \subseteq waiting /\ IsInjective(queue)

WaitingEvents == {e \in Events : Waiting(e)}

Queued == InOrder(due, WaitingEvents)

\* An event that waits from now on, or still, and is not due, may come due.
LEMMA MayComeDue ==
    ASSUME NEW queue, NEW waiting, InOrder(queue, waiting), NEW e \in Events,
           e \notin Range(queue), NEW more, waiting \cup {e} \subseteq more
    PROVE  InOrder(queue, more) /\ InOrder(Append(queue, e), more)
  BY AppendIs DEF InOrder

LEMMA MayLeave ==
    ASSUME NEW queue, NEW waiting, InOrder(queue, waiting), NEW events, NEW rest,
           waiting \ events \subseteq rest
    PROVE  InOrder(Without(queue, events), rest)
  BY WithoutIs DEF InOrder

\* A mark of an event takes it out of the queue, and a failure may put it back.
LEMMA MarkQueues ==
    ASSUME IInv, Queued, NEW e \in Events, Published(e) \/ Failed(e)
    PROVE  Queued'
<1> DEFINE others == Without(due, {e})
<1>1. InOrder(others, WaitingEvents \ {e}) /\ e \notin Range(others)
  <2>1. InOrder(others, WaitingEvents \ {e})
    BY MayLeave DEF Queued
  <2> QED BY <2>1 DEF InOrder
<1>2. \A f \in Events \ {e} : Waiting(f)' <=> Waiting(f)
  BY DEF IInv, Types, Waiting, Published, Failed
<1>3. CASE Published(e)
  <2>1. due' = others /\ WaitingEvents \ {e} \subseteq WaitingEvents'
    BY <1>2, <1>3 DEF Published, WaitingEvents
  <2> HIDE DEF others
  <2> QED BY <1>1, <2>1 DEF Queued, InOrder
<1>4. CASE Failed(e)
  <2>1. due' \in {Append(others, e), others}
    BY <1>4 DEF Failed
  <2>2. (WaitingEvents \ {e}) \cup {e} \subseteq WaitingEvents'
    BY <1>2, <1>4 DEF IInv, Types, Failed, Waiting, WaitingEvents
  <2> HIDE DEF others
  <2>3. InOrder(others, WaitingEvents') /\ InOrder(Append(others, e), WaitingEvents')
    BY <1>1, <2>2, MayComeDue
  <2> QED BY <2>1, <2>3 DEF Queued
<1> QED BY <1>3, <1>4

LEMMA QueueSteps == IInv /\ Queued /\ [Next]_vars => Queued'
<1> SUFFICES ASSUME IInv, Queued, [Next]_vars PROVE Queued'
  OBVIOUS
<1>1. ASSUME NEW e \in Events, AppendEvent(e) PROVE Queued'
  <2>1. /\ ~ Waiting(e) /\ due' \in {Append(due, e), due}
        /\ WaitingEvents \cup {e} \subseteq WaitingEvents'
    BY <1>1 DEF AppendEvent, Wait, IInv, Types, Waiting, WaitingEvents
  <2>2. e \notin Range(due)
    BY <2>1 DEF Queued, InOrder, WaitingEvents
  <2>3. InOrder(due, WaitingEvents') /\ InOrder(Append(due, e), WaitingEvents')
    <3>1. InOrder(due, WaitingEvents)
      BY DEF Queued
    <3> QED BY <2>1, <2>2, <3>1, MayComeDue
  <2> QED BY <2>1, <2>3 DEF Queued
<1>2. ASSUME NEW e \in Events, Wake(e) PROVE Queued'
  <2>1. /\ due' = Append(due, e) /\ e \notin Range(due)
        /\ WaitingEvents \cup {e} \subseteq WaitingEvents'
    BY <1>2 DEF Wake, Waiting, WaitingEvents
  <2> QED BY <2>1, MayComeDue DEF Queued
<1>3. ASSUME NEW d \in Dispatchers, CommitClaim(d) \/ CommitUnanswered(d) PROVE Queued'
  <2>1. /\ due' = Without(due, tx[d])
        /\ WaitingEvents \ tx[d] \subseteq WaitingEvents'
    BY <1>3 DEF CommitClaim, CommitUnanswered, ClaimEnds, Waiting, WaitingEvents
  <2> QED BY <2>1, MayLeave DEF Queued
<1>4. ASSUME NEW d \in Dispatchers, NEW e \in Events,
             MarkPublished(d, e) \/ MarkFailed(d, e) \/ MarkUnanswered(d, e)
      PROVE  Queued'
  BY <1>4, MarkQueues DEF MarkPublished, MarkFailed, MarkUnanswered
<1>5. ASSUME NEW d \in Dispatchers, Claim(d) \/ AbortClaim(d) \/ Crash(d) PROVE Queued'
  BY <1>5 DEF Claim, AbortClaim, Crash, Queued, WaitingEvents, Waiting
<1>6. CASE UNCHANGED vars
  BY <1>6 DEF vars, Queued, WaitingEvents, Waiting
<1> QED
  BY <1>1, <1>2, <1>3, <1>4, <1>5, <1>6 DEF Next

\* The variables keep their types, and what is due waits and is due once: ClaimDue is never
\* offered an event that is published or claimed, nor one event twice.
THEOREM TypeCorrect == Spec => []TypeOK
<1>1. Init => Queued
  BY DEF Init, Queued, InOrder, Range, IsInjective
<1>2. IInv /\ Queued => TypeOK
  BY DEF IInv, Types, Queued, InOrder, WaitingEvents, TypeOK
<1> QED
  BY <1>1, <1>2, Initially, Steps, QueueSteps, PTL DEF Spec

\* No event is in the hands of two dispatchers, or in the hand of one and locked by the
\* claim of another, but after a mark whose answer was lost: SKIP LOCKED and the statuses
\* are enough, though MarkPublished and MarkFailed check neither status nor claimed_by.
THEOREM HandsHold == Spec => []HandsAreExclusive
<1>1. Spec => []IInv
  BY Initially, Steps, PTL DEF Spec
<1>. QED
  BY <1>1, Exclusive, PTL
=============================================================================
