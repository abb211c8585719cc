----------------------------- MODULE MCDecisions -----------------------------
(***************************************************************************)
(* Logs of up to MaxLines lines, with instants around the window of 10:    *)
(* two that are within it, two that are not, one at its end.  Source with  *)
(* up to two uses of a class.                                              *)
(***************************************************************************)
EXTENDS Incidents, SequencesExt

CONSTANTS MaxLines, MaxLaravelLines

MCReserved == {3}
MCForeign == {4}

Line(kind, at, route, status, family) ==
    [kind |-> kind, at |-> at, service |-> "orders", method |-> "GET", route |-> route,
     status |-> status, family |-> family]

HttpLines ==
    {Line("pairs", 60, "/orders", 503, "none"), Line("pairs", 65, "/orders", 503, "none"),
     Line("pairs", 75, "/orders", 503, "permission_drift"),
     Line("pairs", 0, "/orders", 503, "none"), Line("pairs", 65, "/orders", 404, "none"),
     Line("access", 75, "/orders", 500, "none"), Line("other", 0, "", 0, "none")}

GoravelLines ==
    {Line("goravel", 60, "/orders", 500, "none"), Line("goravel", 65, "/orders", 503, "none"),
     Line("goravel", 75, "/orders", 500, "none"), Line("goravel", 60, "/users", 500, "none"),
     Line("goravel", 65, "/users", 200, "none"), Line("goravel", 0, "/users", 500, "none")}

LoghubLines ==
    [kind : {"signature"}, level : {"error", "notice"}, signature : {1, 2}]
        \cup {[kind |-> "other", level |-> "error", signature |-> 0]}

MCLogs(l) ==
    SeqOf(CASE l = "goravel" -> GoravelLines [] l = "loghub" -> LoghubLines
            [] OTHER -> HttpLines, MaxLines)

MCThreshold(service, route, code, class, minCount) ==
    [service |-> service, method |-> "", route |-> route, code |-> code, class |-> class,
     minCount |-> minCount, window |-> 0]

MCThresholds(l) ==
    {MCThreshold("orders", "", 0, 0, 2), MCThreshold("", "/orders", 0, 500, 2),
     MCThreshold("orders", "/orders", 503, 0, 0)}

LaravelLogs ==
    SeqOf([kind : {"missing_class"}, subject : {1, 2, 3, 4}]
             \cup [kind : {"missing_table", "laravel_exception"}, subject : {0}],
          MaxLaravelLines)

\* The class 1 in two files, called in every form by the full name and in those that tell
\* the names apart by the others.
LaravelUses ==
    [file : {1, 2}, class : {1}, name : {"full"}, call : UseForms]
        \cup [file : {1, 2}, class : {1}, name : Names, call : {"static", "assigned"}]
        \cup [file : {1}, class : {2, 3}, name : {"full"}, call : {"static", "type"}]

MCLaravelTargets ==
    [log : LaravelLogs, page : BOOLEAN, existing : {{}, {1}},
     uses : {{}} \cup {{one, other} : one, other \in LaravelUses}]
=============================================================================
