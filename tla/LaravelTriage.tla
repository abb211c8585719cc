---------------------------- MODULE LaravelTriage ----------------------------
(***************************************************************************)
(* What internal/laravel makes of a target before it touches it: the class *)
(* that the log misses, the classes that the source uses and does not      *)
(* have, the one of them that a stub may stand in for, the methods that    *)
(* stub must have, and the issues that are reported if there is none.  A   *)
(* class is a number, its rank among the names; existing is the set of     *)
(* those whose PSR-4 file exists.  A use is [file, class, name, call]: by  *)
(* which name the class goes in a file and how it is called there.  Each   *)
(* is about one method of the class, called m, or about its constructor.   *)
(***************************************************************************)
EXTENDS Integers, Sequences, FiniteSets, SequencesExt

CONSTANTS
    Reserved,   \* classes of a namespace that is never stubbed: App\Models\, App\Jobs\, ...
    Foreign     \* classes that are not under App\

NoClass == 0

\* The full name; the name that a use statement of the file gives to this class alone; and
\* one that the patterns of the code do not know: relative to the namespace of the file, or
\* from a group use.
Names == {"full", "alias", "unknown"}

\* X::m(), $x = new X(); $x->m(), (new X)->m(), app(X::class)->m(), and no call, as in a type.
UseForms == {"static", "assigned", "unassigned", "container", "type"}

-----------------------------------------------------------------------------
(* The log and the source                                                  *)

\* The class that the last such line of the log names.
ParseMissingClassFromLogs(log) ==
    LET lines == SelectSeq(log, LAMBDA line : line.kind = "missing_class")
    IN IF lines = <<>> THEN NoClass ELSE Last(lines).subject

\* Only classes under App\ have a file that is expected.
ExpectedClassPath(class) == class \notin Foreign

\* The source is searched for full names.
LooksLikeClassUsage(use) == use.name = "full" /\ use.call # "type"

ScanMissingAppClasses(uses, existing) ==
    {use.class : use \in {u \in uses : /\ LooksLikeClassUsage(u)
                                       /\ ExpectedClassPath(u.class)
                                       /\ u.class \notin existing}}

\* The class of the log is one of them, whether its file exists or not.
MergeMissingClasses(logged, scanned) == scanned \cup ({logged} \ {NoClass})

\* It comes first; the others follow by name.
ComesFirst(logged, class, classes) ==
    class = logged \/ (logged \notin classes /\ \A other \in classes : class <= other)

\* What the log or a use names is referenced, so the code asks for nothing more.
IsSafeToStub(class, existing) ==
    /\ ExpectedClassPath(class)
    /\ class \notin existing
    /\ class \notin Reserved

SelectAutoStubbableClass(logged, missing, existing) ==
    LET safe == {class \in missing : IsSafeToStub(class, existing)}
    IN IF safe = {} THEN NoClass ELSE CHOOSE class \in safe : ComesFirst(logged, class, safe)

-----------------------------------------------------------------------------
(* The stub                                                                *)

\* A call is seen by a name that is known, and an instance call on a variable that the class
\* was assigned to, no other one.
InferMethodsFromContent(uses) ==
    LET Seen(calls) == \E u \in uses : u.name # "unknown" /\ u.call \in calls
    IN [static |-> Seen({"static"}),
        instance |-> Seen({"assigned"}),
        constructor |-> Seen({"assigned", "unassigned"})]

UsesIn(file, class, uses) == {u \in uses : u.file = file /\ u.class = class}

\* Mutant: a method is inferred from the first file that mentions the class.
InferFromFirstFile(class, uses) ==
    LET files == {u.file : u \in {v \in uses : v.class = class}}
        first == {file \in files : \A other \in files : file <= other}
    IN InferMethodsFromContent({u \in uses : u.file \in first /\ u.class = class})

\* Static and instance use of one name add up, over all the files.
InferMissingClassUsages(class, uses) ==
    LET In(file) == InferMethodsFromContent(UsesIn(file, class, uses))
        files == {u.file : u \in uses}
    IN [static |-> \E file \in files : In(file).static,
        instance |-> \E file \in files : In(file).instance,
        constructor |-> \E file \in files : In(file).constructor]

\* How the stub declares m; __call and __callStatic answer for what is not declared.
BuildCompatibilityStub(methods) ==
    [constructor |-> methods.constructor,
     m |-> IF methods.static = methods.instance THEN "magic"
           ELSE IF methods.static THEN "static" ELSE "instance"]

\* PHP: an object answers a static method too, a class does not answer an instance method.
StubAnswers(stub, use) == use.call = "static" => stub.m # "instance"

-----------------------------------------------------------------------------
(* The issues.  Their order only chooses what the texts name.              *)

LogIssueKinds ==
    {"missing_class", "undefined_method", "view_not_found", "missing_table",
     "missing_column", "permission_denied", "syntax_error", "undefined_symbol",
     "route_not_defined", "binding_resolution"}

Issue(kind, subject, fixable) == [kind |-> kind, subject |-> subject, fixable |-> fixable]

\* The last line of a kind speaks for the kind.
AppendLaravelLogIssue(log, kind) ==
    LET lines == SelectSeq(log, LAMBDA line : line.kind = kind)
    IN IF lines = <<>> THEN {} ELSE {Issue(kind, Last(lines).subject, FALSE)}

ParseLaravelLogIssues(log) ==
    LET known == UNION {AppendLaravelLogIssue(log, kind) : kind \in LogIssueKinds}
    IN IF known # {} THEN known ELSE AppendLaravelLogIssue(log, "laravel_exception")

\* page: the probe was answered with Laravel's error page
DetectLaravelIssues(log, page) ==
    LET found == ParseLaravelLogIssues(log)
    IN IF found = {} /\ page THEN {Issue("unknown_laravel_error_page", NoClass, FALSE)}
                             ELSE found

\* The code calls these missing_class too, with target_scan for their source.
IssuesFromMissingClasses(missing, existing) ==
    {Issue("missing_class_in_source", class, IsSafeToStub(class, existing)) : class \in missing}

\* What Run knows before it decides: nothing has been written yet.
Triage(target) ==
    LET logged == ParseMissingClassFromLogs(target.log)
        missing == MergeMissingClasses(logged,
                                       ScanMissingAppClasses(target.uses, target.existing))
        selected == SelectAutoStubbableClass(logged, missing, target.existing)
    IN [kind |-> "laravel", selected |-> selected,
        stub |-> BuildCompatibilityStub(InferMissingClassUsages(selected, target.uses)),
        issues |-> DetectLaravelIssues(target.log, target.page)
                      \cup IssuesFromMissingClasses(missing, target.existing)]
=============================================================================
