----------------------------- MODULE LocalCalls ------------------------------
(***************************************************************************)
(* What the local executors have in common: each is a procedure that one   *)
(* process calls once, that works on the files of an application which     *)
(* other calls work on too, and that ends with a report to its caller.     *)
(* Nothing locks the files.  A file is written by truncating it and then   *)
(* filling it: in between, and after a write that failed, it is Torn.      *)
(*                                                                         *)
(* The variables are the same for every executor, so that LocalExecutors   *)
(* can compose them: what disk and mem hold is each executor's own, and a  *)
(* place in the program names the executor it belongs to.                  *)
(***************************************************************************)
CONSTANTS
    Executor, \* the name of the executor
    Calls,   \* the calls of an executor
    StampOf, \* StampOf[c]: options.Now, to the second, which names backups
    Torn,    \* the content of a file whose write has not ended
    NoFile   \* there is no such file

Stamps == {StampOf[c] : c \in Calls}

VARIABLES
    disk,   \* the files, and what the running service has loaded from them
    pc,     \* the step each call is about to take, and of which executor
    mem,    \* the local variables of each call
    report, \* what each call has answered, "none" before that
    mixed   \* the calls that others have disturbed: wrote the file a call had
            \* read, or wrote to its backup

vars == <<disk, pc, mem, report, mixed>>

Places(labels) == {Executor} \X labels

Working == pc \in [Calls -> Places(STRING)]

Among(c, labels) == pc[c] \in Places(labels)

At(c, label) == pc[c] = <<Executor, label>>

Goto(c, label) == pc' = [pc EXCEPT ![c] = <<Executor, label>>]

Return(c, answer) ==
    /\ Goto(c, "done")
    /\ report' = [report EXCEPT ![c] = answer]

Begun(c) == ~At(c, "start")

\* Call c writes what the calls in others rely on.
Mix(c, others) == mixed' = mixed \cup {d \in others \ {c} : Begun(d)}

Sharing(c) == {d \in Calls : StampOf[d] = StampOf[c]}

\* The process of a call dies between two steps.
Crash(c) ==
    /\ Working /\ ~At(c, "start") /\ ~At(c, "done")
    /\ Return(c, "crashed")
    /\ UNCHANGED <<disk, mem, mixed>>

CallsInit ==
    /\ pc = [c \in Calls |-> <<Executor, "start">>]
    /\ report = [c \in Calls |-> "none"]
    /\ mixed = {}

\* A call that is left alone: what it reports can be relied on.
Alone(c) == Begun(c) /\ c \notin mixed
=============================================================================
