------------------------------ MODULE Incidents ------------------------------
(***************************************************************************)
(* One run of a resolver, from what it is started with to what it hands to *)
(* its caller.  The lanes that are started by a log look for a signal in   *)
(* it (Signals); Laravel looks at its log, its page and its source         *)
(* (LaravelTriage); the others are started by a policy.  Then the resolver *)
(* acts and reports (LogReports, LocalReports).                            *)
(***************************************************************************)
EXTENDS LogReports, LocalReports, LaravelTriage

CONSTANTS
    Logs(_),         \* the logs of a lane
    Thresholds(_),   \* the thresholds it is called with
    LaravelTargets   \* records [log, uses, existing, page]

HttpLanes == {"config", "readiness_config", "restart"}
LogLanes == HttpLanes \cup {"goravel", "loghub"}
LocalLanes == {"env", "permissions", "readiness_permissions"}

LogLine == [kind : STRING, at : Nat, service : STRING, method : STRING, route : STRING,
            status : Nat, family : STRING]

\* Its names may be anything.  The code takes a negative count or window as it is; with
\* both it indexes an empty window.
IsThreshold(t) ==
    /\ DOMAIN t = {"service", "method", "route", "code", "class", "minCount", "window"}
    /\ t.code \in Int /\ t.class \in Int /\ t.minCount \in Int /\ t.window \in Int
    /\ t.minCount >= 0 \/ t.window >= 0

\* A class is a number above NoClass.
IncidentsAssumption ==
    /\ \A l \in HttpLanes \cup {"goravel"} :
          /\ \A log \in Logs(l) : log \in Seq(LogLine)
          /\ \A t \in Thresholds(l) : IsThreshold(t)
    /\ \A t \in LaravelTargets : \A use \in t.uses : use.class \in Nat \ {NoClass}

ASSUME IncidentsAssumption

VARIABLES
    lane,
    target,   \* what the run finds: [log, threshold], a target of Laravel, or nothing
    signal,   \* what it has made of that
    result    \* NoResult while it runs

vars == <<lane, target, signal, result>>

NoResult == [documents |-> "running"]

\* The threshold a lane looks with, its defaults filled in.
ThresholdOf(l, t) ==
    WithDefaults(CASE l = "config" -> NormalizeOptions(t)
                   [] l = "readiness_config" -> NormalizeOptions(ReadinessThreshold(t))
                   [] l = "restart" -> RestartOptions(t)
                   [] OTHER -> t)

Init ==
    /\ \/ /\ lane \in LogLanes
          /\ target \in [log : Logs(lane), threshold : Thresholds(lane)]
       \/ lane = "laravel" /\ target \in LaravelTargets
       \/ lane \in LocalLanes /\ target = "policy"
    /\ signal = NoSignal
    /\ result = NoResult

-----------------------------------------------------------------------------

\* The signals that may be the first of those the lane finds.
SignalsOf(l, log, threshold) ==
    CASE l \in HttpLanes -> RepeatedHTTPFailures(ParseKeyValueHTTPLogs(log), threshold)
      [] l = "goravel" -> RepeatedFailures(ParseAccessLog(log), threshold)
      [] l = "loghub" -> StrongestSignal(ParseEvents(log), threshold)

Found == SignalsOf(lane, target.log, ThresholdOf(lane, target.threshold))

Detect ==
    /\ lane \in LogLanes
    /\ signal = NoSignal /\ result = NoResult
    /\ signal' \in Found
    /\ UNCHANGED <<lane, target, result>>

\* failure threshold not reached
FindNothing ==
    /\ lane \in LogLanes
    /\ signal = NoSignal /\ result = NoResult
    /\ Found = {}
    /\ result' = Refused("untouched")
    /\ UNCHANGED <<lane, target, signal>>

Examine ==
    /\ lane = "laravel"
    /\ signal = NoSignal
    /\ signal' = Triage(target)
    /\ UNCHANGED <<lane, target, result>>

\* The run of this lane ends with this answer.
Ends(l, answer) ==
    /\ lane = l
    /\ l \in LocalLanes \/ signal # NoSignal
    /\ result = NoResult
    /\ result' = answer
    /\ UNCHANGED <<lane, target, signal>>

IssueKinds == {issue.kind : issue \in signal.issues}

Next ==
    \/ Detect \/ FindNothing \/ Examine
    \/ \E f \in ConfigFacts : Ends("config", ConfigRun(signal, f))
    \/ \E f \in ConfigFacts : Ends("readiness_config", ResolveConfigDrift(signal, f))
    \/ \E f \in RestartFacts : Ends("restart", RestartRun(signal, f))
    \/ \E f \in GoravelFacts : Ends("goravel", GoravelRun(signal, f))
    \/ \E f \in LoghubFacts : Ends("loghub", LoghubRun(signal, f))
    \/ \E f \in EnvFacts : Ends("env", EnvRun(f))
    \/ \E f \in PermissionFacts : Ends("permissions", PermissionRun(f))
    \/ \E f \in ReadinessFacts : Ends("readiness_permissions", ResolvePermissionDrift(f))
    \/ \E f \in LaravelFacts :
          Ends("laravel", LaravelRun(signal.selected # NoClass, IssueKinds, f))

Spec == Init /\ [][Next]_vars

-----------------------------------------------------------------------------
(* What a signal says of its log                                           *)

\* The entries of the log, as the lane reads it.
Entries == IF lane = "goravel" THEN ParseAccessLog(target.log)
                               ELSE ParseKeyValueHTTPLogs(target.log)

Threshold == ThresholdOf(lane, target.threshold)

Failed(e) == IF lane = "goravel" THEN e.status >= 400 ELSE MatchesThreshold(e, Threshold)

\* Where the failures of one kind are.
Failures(key) == {k \in DOMAIN Entries : Failed(Entries[k]) /\ HttpFailureKey(Entries[k]) = key}

Timed(key) == \A k \in Failures(key) : Entries[k].at # 0

\* The failures of one kind in an interval.
Within(key, from, to) == {k \in Failures(key) : Entries[k].at \in from .. to}

\* Those in the window that opens at an instant.
Since(key, at) == Within(key, at, at + Threshold.window)

\* Enough failures of one kind, in any order of the lines, to make a signal.
Repeated(key) ==
    IF Timed(key)
    THEN \E k \in Failures(key) : Cardinality(Since(key, Entries[k].at)) >= Threshold.minCount
    ELSE Cardinality(Failures(key)) >= Threshold.minCount

\* What the signal says of failures with timestamps: how many there are in its window,
\* when they were, and, in its excerpts, the last of them.
SignalIsOfItsWindow ==
    /\ signal.count = Cardinality(Since(signal.key, signal.start))
    /\ signal.end - signal.start <= Threshold.window
    /\ \A k \in Since(signal.key, signal.start) : Entries[k].at <= signal.end
    /\ \A k \in DOMAIN signal.excerpts :
          LET after == signal.excerpts[k].at + 1
          IN Cardinality(Within(signal.key, after, signal.start + Threshold.window))
                < Len(signal.excerpts)

\* A run is started by a signal exactly if some kind of failure is repeated often enough
\* within the window, whatever the order of the lines and wherever the window opens; the
\* signal counts every failure of its window, quotes only such failures, the last ones, and
\* its interval holds them all and is never empty.  Lines without a timestamp make
\* their whole group count.  (Goravel keeps the interval as it is: see ReportsAreSound.)
SignalIsRepeated ==
    lane \in HttpLanes \cup {"goravel"} =>
        /\ signal = NoSignal /\ result # NoResult =>
              \A k \in DOMAIN Entries : ~Repeated(HttpFailureKey(Entries[k]))
        /\ signal # NoSignal =>
              /\ Repeated(signal.key)
              /\ \A k \in DOMAIN signal.excerpts :
                    \E j \in Failures(signal.key) : signal.excerpts[k] = Entries[j]
              /\ signal.kind = "http_failure" => signal.start < signal.end
              /\ IF Timed(signal.key) THEN SignalIsOfItsWindow
                 ELSE signal.count <= Cardinality(Failures(signal.key))

-----------------------------------------------------------------------------
(* What a report says of what was done                                     *)

Reported == result # NoResult /\ result.documents # NoDocuments

\* The documents that are there; an analysis of Goravel has no attempt, the readiness
\* command no investigation.  Its texts list the changes and are blank if there is none.
DocumentsAreValid(d) ==
    /\ lane # "readiness_permissions" => InvestigationValid(d.investigation)
                                         /\ DiagnosisValid(d.diagnosis)
    /\ d.plan.blank = {} => PlanValid(d.plan)
    /\ d.attempt # NotExecuted => AttemptValid(d.attempt)
    /\ d.receipt # NotExecuted /\ d.plan.blank = {} => ReceiptValid(d.receipt)
    /\ d.plan.blank # {} => lane = "readiness_permissions"

EscalationIsTotal(d) ==
    d.attempt # NotExecuted =>
        /\ d.plan.status = "escalated" <=> d.attempt.status = "escalated"
        /\ d.plan.status = "escalated" <=> d.receipt.outcome = "escalated"
        /\ d.plan.status = "escalated" =>
              /\ NeedsApproval(d.plan.risk) \/ d.plan.approval
              /\ result.state # "untouched" => lane = "laravel"

DryRunIsHarmless(d) ==
    d.attempt # NotExecuted =>
        /\ d.attempt.monitor = "dry_run" <=> d.receipt.outcome = "dry_run"
        /\ d.attempt.monitor = "dry_run" => result.state = "untouched" /\ ~result.error

FailureIsAdmitted(d) ==
    d.attempt # NotExecuted =>
        /\ d.attempt.status \in {"failed", "rolled_back"} <=>
              d.receipt.outcome \in {"failed", "rolled_back", "rollback_failed",
                                     "failed_rolled_back", "failed_rollback_failed"}
        /\ d.attempt.status \in {"failed", "rolled_back"} => result.error
        /\ \/ d.attempt.monitor = "rolled_back"
           \/ d.receipt.outcome \in {"rolled_back", "failed_rolled_back"}
           => result.state = "restored"

\* A healthy end without a change: there was nothing to change.
SuccessIsReal(d) ==
    d.attempt # NotExecuted /\ d.attempt.monitor = "healthy" =>
        /\ ~result.error
        /\ d.receipt.outcome = "succeeded"
        /\ result.state = "changed" \/ (lane \in LocalLanes /\ result.state = "untouched")

\* What a plan says needs an approval is not changed without one.
ChangeIsApproved(d) ==
    d.plan.approval /\ result.state = "changed" /\ lane # "laravel" =>
        d.attempt # NotExecuted /\ d.attempt.approver = "approved_goravel_source_patch"

\* The documents of a run agree with one another and with what has become of the target:
\* they are valid, an escalation is one in the plan, the attempt and the receipt and has
\* touched nothing, a dry run has changed nothing, a failure is reported with an error and
\* claims a rollback only if the target is as it was, a success changed what it says, and
\* nothing was changed that waits for an approval.  What Laravel escalates after an
\* external agent is exempt from the second and the last: its target may hold a patch that
\* could not be undone, while the receipt says that no file was changed.
ReportsAreSound ==
    Reported =>
        /\ DocumentsAreValid(result.documents)
        /\ EscalationIsTotal(result.documents)
        /\ DryRunIsHarmless(result.documents)
        /\ FailureIsAdmitted(result.documents)
        /\ SuccessIsReal(result.documents)
        /\ ChangeIsApproved(result.documents)

\* The test of the readiness command asks of a supported candidate that is resolved that
\* its plan has succeeded (readinessresolve_test.go:1239-1243).  The config lane answers
\* resolved for a run that was blocked and changed nothing.
ResolvedIsSucceeded ==
    result # NoResult /\ result.response = "resolved" =>
        result.documents.plan.status = "succeeded"

-----------------------------------------------------------------------------
(* What the stub stands in for                                             *)

Stubbable(class) ==
    /\ class \notin Foreign \cup Reserved \cup target.existing
    /\ class # NoClass

\* What the code sees of the calls of m makes it an instance method.
SeemsInstanceMethod(class) ==
    LET Seen(call) == \E u \in target.uses :
                          u.class = class /\ u.name # "unknown" /\ u.call = call
    IN Seen("assigned") /\ ~Seen("static")

\* A stub is written for a class of the application that is not reserved and not there; for
\* the class that the log misses last, if it is one, and for some class whenever a file uses
\* one, by its full name, that could be stubbed.  In whatever file it is, and whatever other
\* calls there are, the stub answers every call by a name that the code knows.  It also
\* answers the calls that the code does not see, unless such a call is static and the ones
\* that are seen make the method an instance method: PHP stops that one with an error, for
\* __callStatic does not stand in for a method that is declared.
StubFitsTheFailure ==
    lane = "laravel" /\ signal # NoSignal =>
        LET logged == ParseMissingClassFromLogs(target.log)
            selected == signal.selected
        IN /\ selected # NoClass => Stubbable(selected)
           /\ Stubbable(logged) => selected = logged
           /\ selected = NoClass =>
                 \A use \in target.uses : LooksLikeClassUsage(use) => ~Stubbable(use.class)
           /\ selected # NoClass =>
                 \A use \in target.uses :
                     use.class = selected =>
                         \/ StubAnswers(signal.stub, use)
                         \/ use.name = "unknown" /\ SeemsInstanceMethod(selected)
=============================================================================
