# A verified model of ai-logfixer

ai-logfixer turns log evidence into remediations: it recognises a repeated
failure, plans a fix, applies it to files of the failing application, probes the
service, and rolls back when the probe still fails. A workflow layer over
PostgreSQL keeps the status of every investigation, plan, approval and attempt.
This directory holds TLA+ modules that model the parts of it that are hard to
test, TLC configurations that check them on small instances, and TLAPS proofs of
the results that matter most for every value of the constants.

## Files

| file | what it is |
|------|------------|
| `Domain` | the three status graphs of `internal/domain/workflow.go` |
| `Lifecycle` | abstract specification: what the workflow layer promises to readers of its tables |
| `WorkflowService` | `internal/workflow/service.go` over `internal/store/postgres`: status moves as concurrent transactions |
| `WorkflowLease` | `workflowLeaseRepo`: Acquire, Renew, Release of one lease |
| `ConfigRemediation` | `Run` of `internal/runtime/v2`: patch a JSON config, verify, restore, record |
| `AgentFix` | `internal/agentfix` and its Laravel caller: an external agent's patch staged, validated, applied, rolled back |
| `Outbox` | the outbox table under concurrent dispatchers: ClaimDue, MarkPublished, MarkFailed |
| `LocalCalls` | what the executors of application files share: calls, reports, crashes, torn files |
| `SourceEdit`, `PackageRollback`, `EnvDefaults`, `Resources`, `Permissions`, `ReadinessPermissions`, `RestartAction`, `LaravelStub`, `ManifestRollback` | one executor each |
| `Trees` | the directories above a path |
| `LocalExecutors` | the nine executors side by side, with their properties |
| `Contracts` | the documents of `internal/contracts/v1` and their validation |
| `Signals` | from log lines to a signal: engine, Goravel adapter, loghub |
| `LogReports`, `LocalReports` | the documents each resolver hands out, for each way it can end |
| `LaravelTriage` | what the Laravel adapter makes of its log, page and source before it acts |
| `Incidents` | one run of a resolver from what starts it to its report; composes the five before |
| `WorkflowServiceProofs`, `WorkflowLeaseProofs`, `OutboxProofs`, `ConfigRemediationProofs`, `AgentFixProofs`, `LocalExecutorsProofs`, `LocalTreesProofs`, `IncidentsProofs` | theorems |
| `MC*.tla`, `MC*.cfg` | the instances TLC explores |
| `PROJECT.json` | components, runs, mutants, the map to the source, hazards, findings, theorems |

Run `tlc -config MCX.cfg MCX.tla` for a model and `tlapm XProofs.tla` for proofs. The
proofs of `ConfigRemediation` and `AgentFix` take a minute or two, those of the executors
several, the others seconds.

## Inventory of the system

**Status graphs** (`internal/domain`). Pure functions: may a record move from one
status to another. A move to the same status is always allowed. Correct when a
status that ends a workflow has no way out.

**Workflow service** (`internal/workflow`, `internal/store/postgres`). State: one
row with `status` and `lock_version` per cluster, branch, plan, approval and
attempt; `audit_events`; `outbox_events`. Operations: Create of a row;
`MoveInvestigation`, `MoveRemediation`, `DecideApproval`. A move checks the graph,
opens a transaction, updates the row if it still has the status the caller
expects, appends an audit event, appends an outbox event unless told not to, and
commits. Hard: callers race for one row, statements and the commit fail at any
point, the answer of a commit is lost, an idempotency key is used twice. Correct
when status, audit trail and outbox always tell one story, a terminal status is
final, an acknowledged move is durable, and no caller waits for ever.

**Workflow leases** (same store). State: one row per leased resource with owner,
fencing token and expiry. Operations: Acquire (also takes over an expired lease or
one of the same owner), Renew, Release (deletes the row). Hard: two kinds of
clock, lost answers, holders that crash or come back late. Correct when two owners
never work at once and a dead one blocks the others for a bounded time.

**Outbox dispatch** (same store). State: the events with their status, `claimed_by`
and `next_attempt_at`. Operations: Append (by the workflow service), `ClaimDue`,
`MarkPublished`, `MarkFailed`. The repository has no dispatcher yet. Hard: a claim
locks rows and passes over the locked ones, a dispatcher dies after its claim, a mark
is repeated because its answer was lost and looks at nothing. Correct when no event is
in two hands and none waits for ever while others fail and come back.

**Config remediation** (`internal/runtime/v2`). State: the config file, its backup,
the plan in the workflow store. One operation, `Run`: read evidence, read the
config, move the plan to running, back up, patch, call a hook that carries the file
to the service, probe, restore on failure, move the plan to succeeded or failed.
Interacts with the workflow service by calls and with other runs through the file.
Hard: every step can fail or be the last one of the process; runs overlap. Correct
when a plan is executed once, store and report agree, and the config is never lost.

**External agent fix** (`internal/agentfix`, called by `internal/laravel`; rollback
by `cmd/ai-logfixer-rollback`). State: the live tree, a staging copy, a backup
directory, a rollback manifest. Operations: `Run` (copy, agent, difference,
validation, apply), `Rollback`. Hard: the live tree has no lock, an apply or a
rollback stops half-way, two runs share a backup directory. Correct when only
validated patches reach the live tree, no original file is lost, and a rollback
that ends has restored the tree.

**Local executors**: `internal/remediation/sourcefile.go` (patch, restart, verify,
roll back one source file), `internal/remediation/rollbackmanifest` (execute manifest
entries in reverse), `internal/resolvers/packages` (package version rollback),
`internal/runtime/resources` (create missing files and directories),
`internal/runtime/envvars` (write an env file), `internal/runtime/permissions` (chmod
towards a policy), `internal/runtime/restart` (run an allowlisted command), the
permission lane of `internal/readinessresolve`, and the compatibility stub of
`internal/laravel`. State: the files, their backups or manifests, and what the service
has loaded. Each keeps a backup or manifest, applies, verifies and undoes. Hard: every
step can fail or be the last of the process, a write tears the file, other calls and the
application write the same files, a manifest is executed again after it failed
half-way. Correct when what was found can be recovered at every step, and what is
reported is true of the files.

**Framework adapters** (`internal/frameworks/goravel`, `internal/laravel`): read logs and
source, decide what to do, and drive the executors; a Goravel handler's edit is
`ApplySourceEdit`. Correct when what is stubbed is what failed.

**Readiness resolver** (`internal/readinessresolve`): runs config, permission, package
and restart lanes against a lab application and answers with a status and documents.

**Decisions**: `internal/contracts/v1` (records and validation), `internal/engine` (log
parsing, failure threshold over a window), `internal/signals/loghub`, and the parts of
the resolvers that build documents. No state; hard are the edges of the window, ties and
lines without a timestamp, and that five or six documents of one run, built at a dozen
exits, must agree with one another and with what was done.

**Not modelled**: `internal/evidenceintake`, `internal/truth`, the read-only checks in
`internal/runtime/{databases,tokens,versions}`, the demo.

The hazards of all of these, each at its line, are in `PROJECT.json`.

## How the models correspond to the code

**WorkflowService.** The tables hold committed rows only: all an open transaction
has written follows from its call and its `pc`, and `Apply` makes it visible at the
commit. `Call` is the entry of the three service methods with their first graph
check; `Update`/`Conflict` are the compare-and-swap `UPDATE` and its zero rows;
`AppendAudit`, `AppendOutbox`, `DuplicateKey` the two INSERTs and the unique
constraint; `Commit`, `CommitUnanswered` and `Abort` the ends of `WithinTx`.
`Locked` is the row lock that PostgreSQL holds from the `UPDATE` to the end of the
transaction; under READ COMMITTED the `UPDATE` that waited looks at the committed
status, which is what `Update` and `Conflict` do. Two transactions that insert the
same idempotency key move the same record, so the row lock orders them and the
unique index never has to wait. Request ids, actors, payloads and timestamps are
left out; `lock_version` and the audit events' before, after and suppress flag are
kept. Terminal statuses are spelled out in the property rather than derived from
the graph, so that a graph that opens one is caught.

**Lifecycle** has no transactions: Create and Move are single steps. The refinement
maps `trail` to the audit events and `announced` to the outbox.

**WorkflowLease.** One action per SQL statement and outcome: an upsert, an update
and a delete are atomic. `now()` of the database is the start of a transaction, so
a takeover in a long transaction is decided by an earlier time than the model's,
which only makes it stricter. `Skew` is the constant error of each caller's clock.
A session whose Renew or Release is refused gives its lease up.

**ConfigRemediation.** One action per file operation; a write is two steps, because
`os.WriteFile` truncates first (`Torn`). A document maps keys to the run that wrote
them last, so that a lost or mixed update shows. `Record` is the compare-and-swap of
`MoveRemediation` (the composition with WorkflowService: its commit, its refusal
and its lost answer). `disturbed` is a history variable: the runs for which another
run has written the file or the backup they depend on; what can be promised to a run
is promised to one that was not disturbed. The log evidence and the blocked results
are the outcome `Decline` here; `LogReports` has them and the contracts.

**AgentFix.** The tree is walked file by file, in path order, when it is copied,
compared and patched, and in reverse order when the manifest is executed; each copy
is two steps. The content of a file is the agent that wrote it, or `Rewritten`, what a
validation command has left in it. The agent may do anything to the staging copy. The
validation commands run in that copy after the changes have been computed; they may write
or remove the files of `RewritesOf`, and what they leave of a changed file is applied as
it is: the code neither compares nor validates it again. Both may return anything. What
either writes to the live tree is like what another run writes, a deployment or an
editor: it disturbs the run. What is excluded by
`ExcludePaths` is outside `ScopeOf`. A source file is read when it is opened.
`Rollback` is one procedure with two kinds of callers, the run whose probe failed
and the operator; a manifest can be executed again after it failed half-way.

**Outbox.** `due` is the sequence of the events that wait and whose `next_attempt_at`
has come, in that order; times themselves are left out. A claim is a transaction: it
selects and locks, then commits, commits unanswered or aborts. Marks are single
statements that wait for a claim's lock. `doubtful` is a history variable, the events
with a mark that took effect without an answer. The dispatcher is external and assumed:
it claims when it holds nothing, marks each event it holds as published or failed,
repeats a mark it got no answer to, and does not ask for a retry in the past. An event
whose claim was lost stays `claimed`: the model has that end, and nothing in the
repository says that it comes back.

**LocalCalls and the executors.** The nine modules have the same variables: `disk`, what
the calls share, and per call `pc`, `mem` (its Go locals) and `report`. Each action is a
file operation, command or probe of the code with its error exit; a write first leaves
the file `Torn`. `Crash` ends any call between two steps. `mixed` is a history variable
like `disturbed` above: the calls whose file or backup another one has written since they
read it; a call that has begun and is not in it is `Alone`. The module texts say what
each abstracts: a source text is the set of edits in it, a mode is right or not, a
package file maps its sections to specs. `LocalExecutors` instantiates each with its
name and takes their disjunction: a behaviour is the calls of one executor. `Resources`
has the application as a second writer, `LaravelStub` developers,
`ManifestRollback` is compared with what one undisturbed execution would give.

**Contracts and Incidents.** A document is a record with the enumerated fields that its
`Validate` looks at and `blank`, the set of its required texts that are empty. Each
`Validate` is translated rule by rule, as is each builder. `Signals` translates the three
versions of grouping and windowing, which differ. `Incidents` chooses a lane, a log or
target and the facts of the run (did the write fail, did the probe pass ...) and
computes, in the steps detect, act and report, the signal and the documents.
Regular expressions are not modelled: a line is what they make of it.

## Runs

| run | instance | shows |
|-----|----------|-------|
| `workflow_service` | 2 callers, 1 plan, 1 branch, 1 approval, at most 2 moves; 146,808 states | the audit trail is a path of the graph that ends in the status; the outbox is exactly the announced moves; acknowledged moves stay; terminal statuses are final; every call returns; the tables implement Lifecycle |
| `workflow_lease` | 3 sessions with skews +1, 0, -1, TTL 2, time up to 7, tokens up to 4; 94,355 states | two sessions work at once only if a clock is behind the database's; nobody is blocked for more than the TTL |
| `config_remediation` | 3 runs, 2 of them for one plan, 2 in one second, 2 keys; 349,245 states | a plan is executed once; a plan left running is one whose transition went wrong in the store; report and store agree; the report is true of the file; the config is recoverable at every step |
| `agent_fix` | 2 runs in one second, 2 files, 1 operator rollback; validation commands that rewrite a file for one of them; 4,525,051 states | only patches whose validations passed reach the tree; originals are recoverable at every step; an applied patch changes the files that were detected as changed and no other; a completed rollback restores |
| `outbox` | 2 dispatchers, 2 events, claims of 1; 2,424 states | no event is in two hands or due while held, unless a mark was repeated; every event that waits is claimed at last |
| `local_executors` | 2 calls of each of 9 executors, in one second; 1,175,600 states | the texts, modes, variables and package specs that were found can be recovered; reports are true; manifests list what is changed before it is changed; a rollback of the permission lane that is reported puts every path back; a repeated manifest makes up for one that was cut short |
| `decisions` | logs of at most 3 lines, Laravel logs of 2 and pairs of uses in every form, all lanes and outcomes; 346,891 states | a signal is a repetition within its window, by a definition independent of the algorithm; documents are valid and agree with one another and with what was done; a stub answers the calls by every name that the code knows |
| `lease_fencing` | violation | Release deletes the row, so tokens start again from 1: an overtaken session can hold the holder's token |
| `config_rollback` | violation | after a rollback the service still has the patch that the hook carried to it |
| `config_lost_patch` | violation | a run overwrites another run's verified patch of another key |
| `agent_fix_manifest` | violation | an apply that fails half-way leaves a changed tree and no manifest |
| `readiness_resolved` | violation | the config lane of the readiness resolver answers resolved for a run that was blocked and changed nothing |

Why the bounds suffice. Two callers show every race for a row: a third would wait or
conflict like the second. Two moves are enough for a stale caller, a repeated key (a
self-move) and a way into a terminal status and an attempt to leave it; rows of
different records interact only through the outbox's keys, which name the record. In
the lease model a takeover needs two sessions and a late third one, and time 7 is
three TTLs and a skew. Three runs of the config model give each of the three ways in
which two can meet: one plan, one backup name, one key. Two files show partial
application and the order of an apply and of its rollback, and the run's own rollback
and one of the operator a rollback that is executed again. Two dispatchers and two
events with claims of one show an event that is passed over because it is locked, one
that is passed over because others are due before it, and a second claim of an event
whose first mark was repeated; three events multiply the states of the liveness check by
more than a hundred. Two calls of one executor share what can be shared: the file, the
backup name (one second), the package fragment, a parent directory; manifests have up to
three entries, enough for an inner entry to fail between two others. Three lines are a
repetition and one line more, inside, outside or at the end of the window. Two uses of a
class, in one file or two, show a call that is seen beside one that is not, for every
pair of names and forms. Validation commands that rewrite a file are given to one of two runs, in one of
two files: the one with what was staged, removed or rewritten, the other as it was.

Three targets of the permission lane are a missing directory below a directory that no
target names, and two files that open the same parent one after the other: the shared
parent has two changes, and only the first holds the mode there was.

`MCLocalExecutors.cfg` has `CONSTRAINT SomeCallIsAlone`. The properties other than
`TypeOK` and `RestartIsVerified` speak of calls that are alone, and a call that is
disturbed stays so: behind a state in which all calls are disturbed they cannot fail. The
other two look at each call by itself, and a state with one call alone shows all places of
the other.

Deadlock is not checked: callers may stop calling and time ends at its bound.

Fairness is stated where a property needs it. WorkflowService, for `CallsReturn`: weak
fairness of `Advance(c)`: a goroutine that is runnable runs, and the server executes
its statement or fails it. Strong fairness of `Update(c) \/ Conflict(c)`: other callers
can take the row again and again, and PostgreSQL queues the transactions that wait for a
row. Nothing is assumed of failures; `Abort` may or may not happen. Outbox, for
`WaitingIsClaimed`: weak fairness of `Wake(e)`, as time goes on, and of `Claim(d)`, as a
dispatcher polls; strong fairness, for each event, of the commit of a claim that has it and
of the marks of it: a claim of it that is made again and again is not aborted every
time, and a dispatcher that does not die marks what it holds, though other claims may lock
the row again and again. That a claim can starve an event is what the property is about,
so nothing is assumed of which events are claimed. The other modules have no fairness
and no liveness properties: their probes, hooks and commands run without a timeout of their
own, so that the code does not guarantee an end.

## Proofs

`WorkflowServiceProofs` proves, for all sets of records, callers and requests and any
number of moves, `TypeOK`, `AuditTrail`, `OutboxMatchesAudit`, `AckedIsDurable`,
`TerminalIsFinal` and `ImplementsLifecycle`. It rests on the two assumptions of
the module: the kinds of records are disjoint, and requests are typed. None of
the invariants is inductive alone: that the commit extends the trail by a move
that starts at the present status needs the state of the open transaction. The
strengthening `Locking` says that a transaction that has made its `UPDATE` still sees
the status it moves from (`WriterSeesFrom`), because it is the only writer of its
row (`OneWriter`); that its move is an edge (`CallsAreMoves`); and that the key of an
outbox event that is about to be committed is new (`KeyIsNew`). Each action
preserves each conjunct; the
commit, in one step with its audit event, is then the abstract move, and every other
step leaves the tables alone, which is the refinement. `TerminalIsFinal` needs
the graphs (`TerminalHasNoMove`: the successors of a terminal status are none).

`WorkflowLeaseProofs` proves `TypeOK`, `BlockedAtMostTTL`, and, assuming that
owner ids are distinct (`OwnersDistinct`), `MutualExclusion`, for all sessions,
skews, TTLs and bounds. The assumption is needed: a session with the same owner id
can replace a row by one that ends earlier by another clock. The inductive invariant
adds that a session holds leases of its own owner id, ending at most a TTL ahead of
its clock (`HeldIsOwn`), and that the lease
of a session whose clock is not behind is backed by the row as long as it lasts
(`RowBacksLease`).

`OutboxProofs` proves `HandsAreExclusive` for any number of events and dispatchers
and any limit. The property is not inductive: it says nothing of a claim that is open.
The invariant adds that a row that a claim has locked still waits and is locked by no
other claim, and that a dispatcher claims with empty hands (`LocksAreExclusive`); that an
event in a hand is claimed in that dispatcher's name (`HandsAreOwned`) then makes the
hands exclusive. Which of the free rows a claim takes does not matter for safety. `TypeOK`
is proved beside it, from the invariant `Queued`: what is due waits and is due once. It
needs what `Without` leaves of a queue (`WithoutIs`), of any length.

`ConfigRemediationProofs` proves all six invariants of ConfigRemediation, for any runs,
plans, keys and seconds and every way in which runs share them (assumption
`ConfigAssumption`). For the plans, every step is one of three kinds: it leaves plans and
executions alone (`Quiet`), begins an execution (`Claims`) or ends one (`Ends`); what makes
`OneRunPerPlan` inductive is that a plan that was executed never returns to approved
(`ExecutedLeftApproved`). For the files, `FilesFit` says for each place of a run, if nobody
disturbed it, what is in the file, in its backup and in its memory; a step is the run's
own, and the facts of its next place follow, or another's, which disturbs the run or leaves
its files alone (`OthersFit`).

`AgentFixProofs` proves `TypeOK` and `OnlyValidatedPatches` of AgentFix for any number of
runs and files and any scopes (assumption `AgentAssumption`). `CleanInv` says that the
work of an agent without validated changes is in its own staging copy and nowhere
else: not in the tree, in a backup, in the staging copy of another run that copied the
tree, or in what a copyFile or a rollback has read.

The same module proves `OriginalIsRecoverable`, `AppliedIsDetected` and
`RollbackRestores` under the same assumption. All three speak of a run that nobody has
disturbed, and none is inductive: what a rollback restores depends on what was read,
copied and saved many steps before. The invariant `RecoveryInv` has three parts. `RunsFit`
ties the changes and the files left to visit to the place of a run. `ManifestsFit` says
that a complete manifest, and a rollback that executes one, lists the changes of a run
that is past applying. `Undisturbed` says, place by place, what the live tree, the staging
copy, the backup and the copy in memory hold: while it reads (`ReadingFits`), while it
applies (`ApplyingFits`), once it has (`IsApplied`), when a rollback may need it
(`BackedFits`, `DoneFits`) and while one is under way (`UndoFits`), of which there is at
most one (`SoleUndoer`). A step is the run's own, one of a rollback of it, or somebody
else's, which disturbs the run or leaves its files and backup alone (`OthersKeep`).

`LocalExecutorsProofs` first proves `OneExecutorWorks`: a behaviour of the composition is
one of a single executor, because every action asks that its call is at a place of its own
executor and leaves it at one. What is then to be proved of `LocalExecutors` is proved
executor by executor: `TextIsRecoverable` and `SourceReportIsTrue` of SourceEdit,
`EnvIsRecoverable` of EnvDefaults, `StubIsMarkedOrGone` of LaravelStub, `RestartIsVerified`
of RestartAction, `PackageChangeIsRecorded` of PackageRollback. The invariants have one
form: `XFits(c)` says for each place of a call that was left alone what is in the file,
in the backup or manifest, and in its memory; a step is the call's own, and the facts of
its next place follow, or another's, which marks the call as disturbed or leaves what it
relies on alone.

`LocalTreesProofs` does the same for the executors that work on directory trees, for any
tree: `CreatedIsReversible` of Resources, `ModesAreAccountedFor` and
`FailureRestoresWhatWasSeen` of Permissions, `RepairIsReversed` and `RepairIsOnRecord` of
ReadinessPermissions; and, with the types of ManifestRollback, `TypeOK` of all nine. What
lies above a path is the least set that has its directory and rises (`Trees`), so that the
lemmas about it need no induction. `ResourceFits` and `PermissionFits` say how the tree
differs from the one that was found: only what has been planned or listed has changed,
what is left to do has not, and what has gone from the list of a rollback is as it was.
`CreatedIsReversible` keeps the path of the call and everything that was in the tree at its
inspection; the rollback uses `os.RemoveAll`, so what the application has put below a
created directory since goes with it, and the property does not promise otherwise.
For the readiness lane, `AccountedFor` says that the first change of each path holds what
was found there (`Truthful`), that nothing but the changed paths and directories made above
a target differs (`KeptBut`), and that the targets so far are right (`RepairedSoFar`); the
rollback then keeps `KeptBut` for the changes that are left, and that its list was read
from its end is what makes the first change of a path the last to be undone.

`RetryEndsAsOneExecution` of ManifestRollback is proved there for every manifest. What is
compared with is the execution nobody cut short, as the tree it leaves for each number of
entries left (`Leaving`). `NonePassesBlocked`: no execution gets past an entry that cannot
be executed. `AllAgrees`: whatever earlier executions have done, a path is as it was
found, or differs from that only in what the entries make the same again: one removes it or
restores its content, gives it the mode, or makes the directory. `ExecutionFits`: the tree of an
execution that is not disturbed agrees in that sense, for the entries it has left, with what
the uninterrupted one has at this entry; with none left they are equal. So a second
execution, which finds some entries done, ends where one alone would have.

An induction over the entries of a manifest or of a queue cannot cite the library's
induction theorems. It is done by the least counterexample: `LeastExists` (a set of
naturals that is not empty has a least member, from `WFMin`) is applied to the set of the
numbers for which the statement fails, once to show that the recursive function exists and
is unfolded by its definition, and once for each fact about it.

The assumptions on the constants (`LocalExecutorsAssumption`, `ManifestAssumption`) are
those of the code: a policy names each directory once and before those below it, as the
tables of `permissions.go:302-390` do; nothing lies below a target of kind file; torn or
missing manifests are not lists, and a path that is missing is not a file. The directories
that `MkdirAll` makes above a target are excepted in `RepairIsReversed` and `RepairIsOnRecord` (`MadeAbove`): no change records
them as missing, and a rollback leaves them, also one that is a later target itself,
whose change says that it was there.

`IncidentsProofs` proves `ReportsAreSound`, `StubFitsTheFailure` and `SignalIsRepeated` for any
logs, targets, thresholds and limits. What a run has handed out is the answer of its lane for some signal
and some facts (`Answered`), and each lane's answers are sound, exit by exit: the builders
build valid documents (`PlanBuilt`, `DiagnosisBuilt` ...), and an exit is an escalation, a
success, a dry run or a failure (`EscalatedIsSound`, `SucceededIsSound`, `DryRunIsSound`,
`FailedIsSound`), with which its plan, attempt, receipt, error and state go together. Nothing
is needed of the signal: the interval of a log may be empty, and the documents that have it
are handed out only after their validation. Documents agree with what was done except in one
place, which the property exempts: when the patch of an external agent was applied, its probe
failed and its rollback failed too, the caller answers with an escalation whose receipt says
that no files were changed (`laravel.go:1369`). For the stub, the class that is chosen is the
first in an order (`SelectedIs`), which exists because a class is a number
(`IncidentsAssumption`). Of a call, the target has the name it gives the class and its form.
The patterns know the full name and a use statement of that class alone (`full`, `alias`); a
name relative to the namespace or of a group use is `unknown` to them. The stub answers every
call by a known name in any file; one by an unknown name too, unless it is static and the
known calls make its method an instance method, for which `__callStatic` does not stand in.

`SignalIsRepeated` (`SignalRepeated`) compares what the code takes from a log step by step,
a filter, a partition by kinds of failures, a sort that is not stable, a window that opens at
the first entry with enough others behind it, with counts over the log as it stands. The
argument is a chain of bijections. The filters (`Kept`) and sorts (`ByTime`) of `Signals` are
written over sets of places, so that no induction over sequences is needed: an entry's rank,
the number of those kept or sorted up to it, is one to one (`RanksAreOneToOne`, `KeptIs`,
`SortExists`), so a sorted kind has the failures of that kind each once (`KindsAreSorted`,
`Arranged`), and as many in each interval as the log has (`ArrangedIs`, `CountIs`). The
window that opens first then holds everything in its interval (`FirstIsWhole`): an earlier
entry with the same instant would have opened it; if no window has enough, no interval has
(`NoneIsRepeated`); a line without an instant makes its whole kind one window
(`UntimedIsWhole`). The inductive invariant (`FromTheLog`) says that the run acts on a signal
that was found, and gives up only if there was none (`FoundIs`, with `StrongestExists`: if
there are signals, one comes first). Of the constants it assumes the shape of logs and
thresholds, and that a threshold has not both a negative count and a negative window
(`IsThreshold`): the code takes either as it is, and with both it indexes an empty window
and panics. Of the commands only Goravel's has a flag for each, and it checks neither.

Only model-checked: `CallsReturn` and `WaitingIsClaimed` (liveness under fairness is out
of the prover's reach). Every safety property that a passing run checks is a theorem.

## Not modelled

See the component list in `PROJECT.json` for each reason. In general: regular expressions
and source scanning (log and stack-trace formats, route discovery), redaction of
evidence, the read-only checks, HTTP and docker I/O, flag handling, stable ids. Of the
modelled components: the package and restart lanes of the readiness resolver, which hand
their options to executors that are modelled; contract rows of the store without a
status; file modes and directories in AgentFix. Modes are the nine permission bits, which is
all that the code records: setgid and sticky bits, which a restore drops, are not in the
model. The content of an env file is valid UTF-8: its manifest is JSON (`envvars.go:158`),
which would replace other bytes. A restore entry of a manifest names a mode, as every writer
in the repository makes it; for one without, `rollbackmanifest.go:123` leaves the mode alone.
Assumed: PostgreSQL's READ COMMITTED row
locking and unique index; that a write that fails leaves the file truncated or partly
written, never with another content.

## Plan

Done: the workflow layer with its proofs; config remediation with its proofs; the
external agent with its proofs; the outbox; the executors with their proofs; the
decisions, their signals, documents and the stub with proofs. Next, in this order: the
package and restart lanes of the readiness resolver on top of
`PackageRollback` and `RestartAction`; a recovery of lost claims in the outbox, once the
repository has a dispatcher.
