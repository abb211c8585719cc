----------------------------- MODULE LaravelStub -----------------------------
(***************************************************************************)
(* Run of internal/laravel from the class it has selected on: note in a    *)
(* marker that the class file did not exist, look again, write a stub for  *)
(* it, lint it, probe the URL, and remove the stub when either objects.    *)
(* Developers write the same file, other calls stub the same class.        *)
(***************************************************************************)
EXTENDS LocalCalls

Contents == {NoFile, Torn, "stub", "custom"}

\* disk.file is the class file, disk.marker[t] the marker of second t, whose name
\* holds the class.  mem[c] is what call c found at the class file, Torn before it
\* looked and "kept" when the system refused to remove the stub.
MarkerOf(c) == disk.marker[StampOf[c]]

Init ==
    /\ CallsInit
    /\ \E file \in {NoFile, "custom"} :
          disk = [file |-> file, marker |-> [t \in Stamps |-> NoFile]]
    /\ mem = [c \in Calls |-> Torn]

SetFile(c, content) ==
    /\ disk' = [disk EXCEPT !.file = content]
    /\ Mix(c, Calls)

SetMarker(c, content) ==
    /\ disk' = [disk EXCEPT !.marker[StampOf[c]] = content]
    /\ Mix(c, Sharing(c))

Quiet == UNCHANGED <<disk, mixed>>

-----------------------------------------------------------------------------
\* No class is missing, or none that is safe to stub: an external agent, an
\* unsupported result, an error; or Apply is not set.
Decline(c) ==
    /\ At(c, "start")
    /\ \E answer \in {"unsupported", "dry_run", "error"} : Return(c, answer)
    /\ Quiet /\ UNCHANGED mem

\* isSafeToStub looks at the class file.
Select(c) ==
    /\ At(c, "start")
    /\ disk.file = NoFile
    /\ mem' = [mem EXCEPT ![c] = NoFile]
    /\ Goto(c, "mark")
    /\ Quiet /\ UNCHANGED report

OpenMarker(c) ==
    /\ At(c, "mark")
    /\ SetMarker(c, Torn)
    /\ Goto(c, "marking")
    /\ UNCHANGED <<mem, report>>

FillMarker(c) ==
    /\ At(c, "marking")
    /\ SetMarker(c, "marker")
    /\ Goto(c, "check")
    /\ UNCHANGED <<mem, report>>

\* writeGeneratedStub refuses a file that is there by now.
Check(c) ==
    /\ At(c, "check")
    /\ disk.file = NoFile
    /\ Goto(c, "open")
    /\ Quiet /\ UNCHANGED <<mem, report>>

\* The marker, the stub's source, its directory or the second look fails.
FailEarly(c) ==
    /\ Among(c, {"mark", "marking", "check", "open"})
    /\ Return(c, "error")
    /\ Quiet /\ UNCHANGED mem

\* WriteFile: a file that has appeared after the second look is overwritten.
OpenStub(c) ==
    /\ At(c, "open")
    /\ SetFile(c, Torn)
    /\ Goto(c, "write")
    /\ UNCHANGED <<mem, report>>

FillStub(c) ==
    /\ At(c, "write")
    /\ SetFile(c, "stub")
    /\ Goto(c, "lint")
    /\ UNCHANGED <<mem, report>>

\* What has been written of the stub stays, and the class is not missing any more.
FailStub(c) ==
    /\ At(c, "write")
    /\ Return(c, "half_written")
    /\ Quiet /\ UNCHANGED mem

\* php -l accepts the file, or there is no php.
Lint(c) ==
    /\ At(c, "lint")
    /\ Goto(c, "probe")
    /\ Quiet /\ UNCHANGED <<mem, report>>

\* A slip: the lint error is returned without removing the stub.
FailInPlace(c) ==
    /\ Among(c, {"lint", "probe"})
    /\ Return(c, "failed")
    /\ Quiet /\ UNCHANGED mem

\* php -l rejects it, or the URL answers 5xx or with an error page.
Fail(c) ==
    /\ Among(c, {"lint", "probe"})
    /\ Goto(c, "undo")
    /\ Quiet /\ UNCHANGED <<mem, report>>

\* No URL is given, or it answers well; an URL that cannot be reached has status 0.
Probe(c) ==
    /\ At(c, "probe")
    /\ Return(c, "succeeded")
    /\ Quiet /\ UNCHANGED mem

\* os.Remove takes the file whoever wrote it.
Remove(c) ==
    /\ At(c, "undo")
    /\ SetFile(c, NoFile)
    /\ Return(c, "failed")
    /\ UNCHANGED mem

\* Its error is dropped.
FailRemove(c) ==
    /\ At(c, "undo")
    /\ mem' = [mem EXCEPT ![c] = "kept"]
    /\ Return(c, "failed")
    /\ Quiet

\* A developer writes the class, or removes what is there.
DeveloperWrites ==
    /\ Working
    /\ \E content \in {"custom", NoFile} :
          /\ disk.file # content
          /\ disk' = [disk EXCEPT !.file = content]
    /\ mixed' = {c \in Calls : Begun(c)}
    /\ UNCHANGED <<pc, mem, report>>

Step(c) ==
    \/ Decline(c) \/ Select(c) \/ OpenMarker(c) \/ FillMarker(c)
    \/ Check(c) \/ FailEarly(c) \/ OpenStub(c) \/ FillStub(c) \/ FailStub(c)
    \/ Lint(c) \/ Fail(c) \/ Probe(c) \/ Remove(c) \/ FailRemove(c)
    \/ Crash(c)

Next == (\E c \in Calls : Step(c)) \/ DeveloperWrites

Spec == Init /\ [][Next]_vars

-----------------------------------------------------------------------------
(* Properties                                                              *)

Labels == {"start", "mark", "marking", "check", "open", "write", "lint", "probe", "undo",
           "done"}

Reports == {"none", "unsupported", "dry_run", "error", "half_written", "succeeded", "failed",
            "crashed"}

\* The variables keep their types.
TypeOK ==
    /\ disk \in [file : Contents, marker : [Stamps -> {NoFile, Torn, "marker"}]]
    /\ pc \in [Calls -> Places(Labels)]
    /\ mem \in [Calls -> {Torn, NoFile, "kept"}]
    /\ report \in [Calls -> Reports]
    /\ mixed \subseteq Calls

\* A call that nobody has disturbed has left something at the class file only with a
\* complete marker beside it, wherever it stops; a success means the whole stub is
\* there, and a failed lint or probe that it is gone, if the system let it be removed.
StubIsMarkedOrGone ==
    \A c \in Calls : Alone(c) /\ mem[c] # Torn =>
        /\ disk.file # NoFile => MarkerOf(c) = "marker"
        /\ report[c] = "succeeded" => disk.file = "stub"
        /\ report[c] \in {"error", "failed"} /\ mem[c] # "kept" => disk.file = NoFile
=============================================================================
