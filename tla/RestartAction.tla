--------------------------- MODULE RestartAction ----------------------------
(***************************************************************************)
(* Run of internal/runtime/restart: when the log shows enough failures,    *)
(* run the restart command that the policy allows for the service, then    *)
(* verify with one probe, by URL or by command.  Everything that could     *)
(* make the outcome unknowable is refused before the command runs; what    *)
(* happens after it can only be an error, as a restart is not undone.      *)
(***************************************************************************)
EXTENDS LocalCalls, Naturals, Sequences

CONSTANTS
    Service,  \* the service of the calls
    Action,   \* the name of an action
    Unnamed   \* an action name that the options leave blank

\* What validateCommand tells apart: a path of its own, a shell or a kill, no path.
Commands == {"script", "shell", "blank"}

\* The action that a policy lists, for this service or for another one.
Actions == [name : {Action, "other"}, service : {Service, "other"}, command : Commands]

\* Verification.HTTP and Verification.Command, each perhaps absent.
Probes == [http : {"absent", "blank", "url"}, command : {"absent"} \cup Commands]

\* disk.service is what the service serves, disk.ran[c] whether the command of call c
\* has run.  mem[c] holds the options: the policy, the action asked for, and the probe.
Options == [policy : {<<>>} \cup {<<a>> : a \in Actions}
                       \cup {<<a, b>> : a \in [name : {Action}, service : {"other", Service},
                                               command : {"script", "shell"}],
                                        b \in [name : {Action}, service : {Service},
                                               command : {"script"}]},
            name : {Action, Unnamed}, probe : Probes]

Init ==
    /\ CallsInit
    /\ disk = [service |-> "stale", ran |-> [c \in Calls |-> FALSE]]
    /\ \E options \in Options : mem = [c \in Calls |-> options]

Quiet == UNCHANGED <<disk, mixed>>

\* normalizeOptions: a name left blank is the one of a policy with a single action.
ActionName(o) ==
    IF o.name = Unnamed /\ Len(o.policy) = 1 THEN o.policy[1].name ELSE o.name

\* findAllowedAction: the first action of that name for this service, if there is one.
Allowed(o) ==
    LET fits == {i \in DOMAIN o.policy : /\ o.policy[i].name = ActionName(o)
                                         /\ o.policy[i].service = Service}
    IN {o.policy[i] : i \in {i \in fits : \A j \in fits : i <= j}}

\* validateVerification: exactly one probe, and one that can be run.
Verifiable(probe) ==
    \/ probe.http = "url" /\ probe.command = "absent"
    \/ probe.http = "absent" /\ probe.command = "script"

\* A slip: the verification is looked at when it is needed.
MayRunUnverified(o) == \E action \in Allowed(o) : action.command = "script"

MayRun(o) ==
    /\ \E action \in Allowed(o) : action.command = "script"
    /\ Verifiable(o.probe)

\* No log, or too few failures in it.
NoFailures(c) ==
    /\ At(c, "start")
    /\ Return(c, "no_failures")
    /\ Quiet /\ UNCHANGED mem

Block(c) ==
    /\ At(c, "start")
    /\ ~MayRun(mem[c])
    /\ Return(c, "blocked")
    /\ Quiet /\ UNCHANGED mem

Diagnose(c) ==
    /\ At(c, "start")
    /\ MayRun(mem[c])
    /\ Goto(c, "run")
    /\ Quiet /\ UNCHANGED <<mem, report>>

Touch(c, service) ==
    /\ disk' = [disk EXCEPT !.service = service, !.ran[c] = TRUE]
    /\ Mix(c, Calls)

\* The command ends well; the service loads its state again, or is still stale.
RunCommand(c) ==
    /\ At(c, "run")
    /\ \E service \in {"fresh", disk.service} : Touch(c, service)
    /\ Goto(c, "verify")
    /\ UNCHANGED <<mem, report>>

\* The command fails, or its context ends, with any effect.
FailCommand(c) ==
    /\ At(c, "run")
    /\ \E service \in {"fresh", "down", disk.service} : Touch(c, service)
    /\ Return(c, "command_failed")
    /\ UNCHANGED mem

\* The probe says what the service serves.
Verify(c) ==
    /\ At(c, "verify")
    /\ disk.service = "fresh"
    /\ Return(c, "succeeded")
    /\ Quiet /\ UNCHANGED mem

\* The service is still stale, or the probe gets no answer.
FailVerify(c) ==
    /\ At(c, "verify")
    /\ Return(c, "unverified")
    /\ Quiet /\ UNCHANGED mem

Step(c) ==
    \/ NoFailures(c) \/ Block(c) \/ Diagnose(c)
    \/ RunCommand(c) \/ FailCommand(c)
    \/ Verify(c) \/ FailVerify(c)
    \/ Crash(c)

Next == \E c \in Calls : Step(c)

Spec == Init /\ [][Next]_vars

-----------------------------------------------------------------------------
(* Properties                                                              *)

Labels == {"start", "run", "verify", "done"}

Reports == {"none", "no_failures", "blocked", "command_failed", "unverified", "succeeded",
            "crashed"}

\* The variables keep their types.
TypeOK ==
    /\ disk \in [service : {"stale", "fresh", "down"}, ran : [Calls -> BOOLEAN]]
    /\ pc \in [Calls -> Places(Labels)]
    /\ mem \in [Calls -> Options]
    /\ report \in [Calls -> Reports]
    /\ mixed \subseteq Calls

\* A command has run only if the policy gives it to this service under the name asked
\* for and a single probe could tell whether it helped; a call that reports success has
\* run its command, and the service it was alone with is healthy.
RestartIsVerified ==
    \A c \in Calls :
        /\ disk.ran[c] =>
              /\ \E i \in DOMAIN mem[c].policy :
                    /\ mem[c].policy[i].service = Service
                    /\ mem[c].policy[i].name = ActionName(mem[c])
                    /\ mem[c].policy[i].command = "script"
              /\ (mem[c].probe.http = "absent") # (mem[c].probe.command = "absent")
        /\ report[c] = "succeeded" =>
              disk.ran[c] /\ (Alone(c) => disk.service = "fresh")
=============================================================================
