------------------------------- MODULE Signals -------------------------------
(***************************************************************************)
(* How an incident is read out of a log: internal/engine/signals.go, the   *)
(* Goravel adapter's own copy of it (internal/frameworks/goravel) and the  *)
(* corpus adapter (internal/signals/loghub).  A log is a sequence of lines *)
(* of some kind; an instant is a number, 1 is a nanosecond and 0 the zero  *)
(* time of a line without timestamp.                                       *)
(***************************************************************************)
EXTENDS Integers, Sequences, FiniteSets, Functions

CONSTANTS
    Now,            \* the instant of the run
    ExcerptLimit,   \* how many of the lines a signal quotes (8 in the code)
    DefaultWindow   \* five minutes

SignalsAssumption ==
    /\ DefaultWindow \in Nat \ {0}
    /\ Now \in Nat /\ Now > DefaultWindow
    /\ ExcerptLimit \in Nat \ {0}

ASSUME SignalsAssumption

NoSignal == [kind |-> "none"]

Class(status) == (status \div 100) * 100

OrElse(value, unset, default) == IF value = unset THEN default ELSE value

\* The last n elements of a sequence.
LastOf(s, n) == IF Len(s) <= n THEN s ELSE SubSeq(s, Len(s) - n + 1, Len(s))

\* The elements at some places of a sequence, in their order.  (The places are a set, so
\* that a theorem can speak of them.)
Kept(s, places) ==
    LET Nth(k) == CHOOSE i \in places : Cardinality({j \in places : j <= i}) = k
    IN [k \in 1 .. Cardinality(places) |-> s[Nth(k)]]

\* sort.Slice is not stable: every order with nondecreasing instants.
ByTime(entries) ==
    {o \in {[k \in DOMAIN entries |-> entries[p[k]]] :
                p \in Bijection(DOMAIN entries, DOMAIN entries)} :
        \A i, j \in DOMAIN o : i < j => o[i].at <= o[j].at}

\* The signals sorted by falling count, then by rising start: those that may be first.
Strongest(signals) ==
    {s \in signals : \A t \in signals :
        s.count > t.count \/ (s.count = t.count /\ s.start <= t.start)}

-----------------------------------------------------------------------------
(* engine/signals.go                                                       *)

\* A line of key=value pairs; the timestamp is its first field, if it parses.
PairsEntry(line) ==
    [at |-> line.at, service |-> line.service, method |-> line.method,
     route |-> line.route, status |-> line.status, family |-> line.family]

\* A line of an access log: its timestamp is not read and it names no service.
ParseCommonAccessLog(line) == [PairsEntry(line) EXCEPT !.at = 0, !.service = ""]

ParseKeyValueHTTPLogs(log) ==
    LET Entry(line) == IF line.kind = "pairs" THEN PairsEntry(line)
                                              ELSE ParseCommonAccessLog(line)
        lines == Kept(log, {k \in DOMAIN log : log[k].kind \in {"pairs", "access"}})
    IN [k \in DOMAIN lines |-> Entry(lines[k])]

MatchesThreshold(entry, t) ==
    /\ entry.status >= 400
    /\ t.service = "" \/ entry.service \in {"", t.service}
    /\ t.method = "" \/ entry.method \in {"", t.method}
    /\ t.route \in {"", entry.route}
    /\ IF t.code > 0 THEN entry.status = t.code
                     ELSE t.class > 0 => Class(entry.status) = t.class

HttpFailureKey(entry) == <<entry.method, entry.route, Class(entry.status)>>

\* Mutant: an entry at the end of the window is outside.
CollectOpenWindow(entries, window) ==
    Kept(entries, {k \in DOMAIN entries :
                      entries[1].at = 0 \/ entries[k].at - entries[1].at < window})

\* The entries of a window that opens with the first one; they are in order, so those
\* that are too late are the last ones.  Without a timestamp everything is inside.
CollectHTTPWindow(entries, window) ==
    Kept(entries, {k \in DOMAIN entries :
                      entries[1].at = 0 \/ entries[k].at - entries[1].at <= window})

\* An interval is never empty: it ends a nanosecond after it starts, at least.
SignalWindow(start, end) ==
    LET from == OrElse(start, 0, Now)
    IN [start |-> from, end |-> IF end <= from THEN from + 1 ELSE end]

RawExcerpts(window) == LastOf(window, ExcerptLimit)

\* The first entry from which on enough of them are in the window makes the signal.
SignalOf(entries, t) ==
    LET Window(i) == CollectHTTPWindow(SubSeq(entries, i, Len(entries)), t.window)
        enough == {i \in DOMAIN entries : Len(Window(i)) >= t.minCount}
        window == Window(CHOOSE i \in enough : \A j \in enough : i <= j)
        first == window[1]
        interval == SignalWindow(first.at, window[Len(window)].at)
    IN IF enough = {} THEN NoSignal
       ELSE [kind |-> "http_failure", service |-> OrElse(t.service, "", first.service),
             key |-> HttpFailureKey(first), count |-> Len(window),
             start |-> interval.start, end |-> interval.end,
             excerpts |-> RawExcerpts(window)]

WithDefaults(t) ==
    [t EXCEPT !.minCount = OrElse(@, 0, 3), !.window = OrElse(@, 0, DefaultWindow),
              !.class = IF @ = 0 /\ t.code > 0 THEN Class(t.code) ELSE @]

Group(entries, key) == Kept(entries, {k \in DOMAIN entries : HttpFailureKey(entries[k]) = key})

\* The signals a resolver may take for signals[0]; none if the threshold is not reached.
RepeatedHTTPFailures(entries, threshold) ==
    LET t == WithDefaults(threshold)
        failures == Kept(entries, {k \in DOMAIN entries : MatchesThreshold(entries[k], t)})
        keys == {HttpFailureKey(failures[k]) : k \in DOMAIN failures}
        signals == UNION {{SignalOf(o, t) : o \in ByTime(Group(failures, key))} : key \in keys}
    IN Strongest(signals \ {NoSignal})

-----------------------------------------------------------------------------
(* frameworks/goravel                                                      *)

\* Only lines with a timestamp are entries.
ParseAccessLog(log) ==
    LET lines == Kept(log, {k \in DOMAIN log : log[k].kind = "goravel" /\ log[k].at # 0})
    IN [k \in DOMAIN lines |-> PairsEntry(lines[k])]

\* The group keeps the instants of its first and its last entry as they are.
FailureGroup(entries, t) ==
    LET Window(i) == Kept(entries, {k \in i .. Len(entries) :
                                       entries[k].at - entries[i].at <= t.window})
        enough == {i \in DOMAIN entries : Len(Window(i)) >= t.minCount}
        window == Window(CHOOSE i \in enough : \A j \in enough : i <= j)
    IN IF enough = {} THEN NoSignal
       ELSE [kind |-> "goravel_route_failure", service |-> t.service,
             key |-> HttpFailureKey(window[1]), count |-> Len(window),
             start |-> window[1].at, end |-> window[Len(window)].at,
             excerpts |-> window]

RepeatedFailures(entries, threshold) ==
    LET t == WithDefaults(threshold)
        failures == Kept(entries, {k \in DOMAIN entries : entries[k].status >= 400})
        keys == {HttpFailureKey(failures[k]) : k \in DOMAIN failures}
        groups == UNION {{FailureGroup(o, t) : o \in ByTime(Group(failures, key))} :
                            key \in keys}
    IN Strongest(groups \ {NoSignal})

-----------------------------------------------------------------------------
(* signals/loghub: a signature is a number, its rank among the texts.  The *)
(* lines have no instant here, and the interval of a signal is not theirs. *)

\* Lines of an error-like level that the format of the log recognises.
ParseEvents(log) ==
    Kept(log, {k \in DOMAIN log : log[k].kind = "signature" /\ log[k].level = "error"})

StrongestSignal(events, threshold) ==
    LET t == WithDefaults(threshold)
        Of(s) == {k \in DOMAIN events : events[k].signature = s}
        Count(s) == Cardinality(Of(s))
        signatures == {events[k].signature : k \in DOMAIN events}
        Before(s, r) == Count(s) > Count(r) \/ (Count(s) = Count(r) /\ s <= r)
        enough == {s \in signatures : Count(s) >= t.minCount}
    IN {[kind |-> "loghub_apache", service |-> OrElse(t.service, "", "unknown-loghub-service"),
         key |-> s, count |-> Count(s), start |-> Now - t.window, end |-> Now,
         excerpts |-> RawExcerpts(Kept(events, Of(s)))] :
            s \in {s \in enough : \A r \in enough : Before(s, r)}}
=============================================================================
