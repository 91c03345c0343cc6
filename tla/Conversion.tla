------------------------------ MODULE Conversion ------------------------------
(***************************************************************************)
(* The conversion of a file: the options dialog of the page, convert_files *)
(* on a thread of the back end, the FFmpeg processes that prepare runs one *)
(* after the other, the thread that reads their reports, the Stop button   *)
(* and the closing of the window.                                          *)
(*                                                                         *)
(* A child process may take for ever and may ignore terminate.  Of files   *)
(* the model keeps whether they are there and whole; whether a tool, an    *)
(* inspection or a copy succeeds is open.  The handler of the closing      *)
(* window holds up the page until _shutdown returns, and progress waits    *)
(* for the page: a conversion whose report has passed the test of _closing *)
(* when it is set is caught, and never goes on.                            *)
(***************************************************************************)
EXTENDS Integers, FiniteSets

CONSTANTS
    Calls,      \* bound: the conversions the user asks for, 1 .. Calls
    Reports     \* the places in run_ffmpeg's queue

ASSUME ConversionAssumption == Calls \in Nat \ {0} /\ Reports \in Nat \ {0}

VARIABLES
    call, rows,               \* the page: the conversion it is at, the state of each row,
    stopButton, stopAsked,    \*   Stop enabled, conversionStopRequested
    stopping,                 \* stop_conversion calls on their way to the back end
    step, sub, plans,         \* convert_files: its place; what each conversion has to do
    cancel, shut, caught,     \* _conversion_cancel, how far _shutdown is, a report waits for the page
    child, reader, queued,    \* the process, the thread that reads its reports, the reports
    disk                      \* the folder of each conversion

page == <<call, rows, stopButton, stopAsked>>
place == <<step, sub, plans>>
flags == <<cancel, shut, caught>>
process == <<child, reader, queued>>
vars == <<page, stopping, place, flags, process, disk>>

Steps == {"idle", "test", "clear", "next", "inspect", "output", "check", "verify",
          "subtitle", "build", "final", "except"}
Kinds == {"photo", "music", "video"}
Plans == {p \in [kind : Kinds, keep : BOOLEAN, subtitle : {"none", "m4t", "text"}] :
            p.kind # "video" => p.subtitle = "none"}
Gone == [there |-> FALSE, target |-> "none", m4t |-> "none", scratch |-> FALSE, decoded |-> FALSE]
Empty == [Gone EXCEPT !.there = TRUE]

converting == call > 0 /\ rows[call] = "converting"
plan == plans[call]
closing == shut # "no"

(***************************************************************************)
(* The page                                                                *)
(***************************************************************************)

\* apply-conversion: every button is disabled until the back end reports progress.
ApplyConversion_StopEnabled ==
    /\ call < Calls /\ ~converting /\ step = "idle"
    /\ call' = call + 1
    /\ rows' = [rows EXCEPT ![call + 1] = "converting"]
    /\ stopButton' = TRUE /\ stopAsked' = FALSE
    /\ step' = "test" /\ sub' = "begin"
    /\ \E p \in Plans : plans' = [plans EXCEPT ![call + 1] = p]
    /\ UNCHANGED <<stopping, flags, process, disk>>
ApplyConversion ==
    /\ call < Calls /\ ~converting /\ step = "idle"
    /\ call' = call + 1
    /\ rows' = [rows EXCEPT ![call + 1] = "converting"]
    /\ stopButton' = FALSE /\ stopAsked' = FALSE
    /\ step' = "test" /\ sub' = "begin"
    /\ \E p \in Plans : plans' = [plans EXCEPT ![call + 1] = p]
    /\ UNCHANGED <<stopping, flags, process, disk>>

StopPressed ==
    /\ stopButton
    /\ stopButton' = FALSE /\ stopAsked' = TRUE /\ stopping' = stopping + 1
    /\ UNCHANGED <<call, rows, place, flags, process, disk>>

\* On a thread of its own, possibly late.
stop_conversion ==
    /\ stopping > 0
    /\ stopping' = stopping - 1 /\ cancel' = TRUE
    /\ UNCHANGED <<page, place, shut, caught, process, disk>>

\* updateConversionProgress
Progress == stopButton' = (stopButton \/ (~closing /\ ~stopAsked))

\* The answer of convert_files.
Returns(row) ==
    /\ rows' = [rows EXCEPT ![call] = row]
    /\ stopButton' = FALSE
    /\ step' = "idle" /\ sub' = "begin"
    /\ UNCHANGED <<call, stopAsked, plans>>

(***************************************************************************)
(* convert_files, with the lock that _shutdown waits for                   *)
(***************************************************************************)

To(s) == step' = s /\ sub' = "begin" /\ UNCHANGED plans
Folder(new) == disk' = [disk EXCEPT ![call] = new]

\* _closing is tested before the event is cleared, and again for the file.
Starts ==
    /\ \/ step = "test" /\ To(IF closing THEN "next" ELSE "clear") /\ UNCHANGED <<page, cancel, disk>>
       \/ step = "clear" /\ To("next") /\ cancel' = FALSE /\ UNCHANGED <<page, disk>>
       \/ /\ step = "next"
          /\ IF closing THEN Returns("failed") /\ UNCHANGED disk
                        ELSE To("inspect") /\ Folder(Empty) /\ UNCHANGED page
          /\ UNCHANGED cancel
    /\ UNCHANGED <<stopping, shut, caught, process>>

\* When prepare raises, prepare_subtitle has removed its scratch folder, or raised because it
\* could not; then the item's folder goes.  When that fails the call fails without an answer.
Raises == step' = "except" /\ sub' = "begin" /\ UNCHANGED plans
Leaves(d) == \E new \in {d, [d EXCEPT !.scratch = FALSE]} : Folder(new)

Except_KeepsFolder ==
    /\ step = "except"
    /\ Returns(IF cancel THEN "stopped" ELSE "failed") /\ UNCHANGED disk
    /\ UNCHANGED <<stopping, flags, process>>
Except ==
    /\ step = "except"
    /\ \/ Folder(Gone) /\ Returns(IF cancel THEN "stopped" ELSE "failed")
       \/ Returns("failed") /\ UNCHANGED disk
    /\ UNCHANGED <<stopping, flags, process>>

(***************************************************************************)
(* prepare                                                                 *)
(***************************************************************************)

WithReports == {"output", "verify"}                 \* run_ffmpeg, the others run
NeedsChild ==
    \/ step \in {"inspect", "check", "verify"} /\ plan.kind # "photo"
    \/ step = "output" /\ plan.kind # "photo" /\ ~plan.keep
    \/ step = "subtitle" /\ plan.subtitle = "text"

After(s) == CASE s = "inspect"  -> "output"
              [] s = "output"   -> "check"
              [] s = "check"    -> IF plan.kind = "photo" THEN "final" ELSE "verify"
              [] s = "verify"   -> IF plan.kind = "video" THEN "subtitle" ELSE "final"
              [] s = "subtitle" -> IF plan.subtitle = "text" THEN "build" ELSE "final"
              [] s = "build"    -> "final"

\* What a step leaves behind when it succeeds; when it fails the file may be there in part.
Result(d, s) == CASE s = "output"   -> [d EXCEPT !.target = "whole"]
                  [] s = "verify"   -> [d EXCEPT !.decoded = TRUE]
                  [] s = "subtitle" /\ plan.subtitle = "m4t" -> [d EXCEPT !.m4t = "whole"]
                  [] s = "build"    -> [d EXCEPT !.m4t = "whole", !.scratch = FALSE]
                  [] OTHER          -> d
Partial(d, s) == CASE s = "output" -> [d EXCEPT !.target = "part"]
                   [] s \in {"subtitle", "build"} -> [d EXCEPT !.m4t = "part"]
                   [] OTHER -> d
\* All was written, and then the times of a copy or the removal of the scratch folder failed.
Unfinished(d, s) == [Result(d, s) EXCEPT !.scratch = d.scratch]

\* run_ffmpeg begins without a test of the event.
Untested == step = "verify" \/ (step = "output" /\ NeedsChild)
Ready == sub = IF Untested THEN "begin" ELSE "go"

\* stage, and the tests of the event in prepare_subtitle and at the end.
Stage ==
    /\ step \in {"inspect", "output", "check", "subtitle", "build", "final"} /\ sub = "begin"
    /\ ~Untested
    /\ IF cancel THEN Raises /\ Leaves(disk[call]) /\ UNCHANGED stopButton
       ELSE /\ sub' = "go" /\ UNCHANGED <<step, plans, disk>>
            /\ IF step \in {"build", "final"} THEN UNCHANGED stopButton ELSE Progress
    /\ UNCHANGED <<call, rows, stopAsked, stopping, flags, process>>

\* A step without a process: a copy, an image, the fragments of a subtitle.
Works ==
    /\ step \in {"inspect", "output", "check", "verify", "subtitle", "build"} /\ Ready /\ ~NeedsChild
    /\ \/ To(After(step)) /\ Folder(Result(disk[call], step))
       \/ Raises /\ \E d \in {disk[call], Partial(disk[call], step), Unfinished(disk[call], step)} : Leaves(d)
    /\ UNCHANGED <<page, stopping, flags, process>>

Popen ==
    /\ step \in Steps /\ Ready /\ NeedsChild
    /\ child' = "running" /\ reader' = (step \in WithReports) /\ queued' = 0
    /\ sub' = "run"
    /\ Folder([Partial(disk[call], IF step = "output" THEN step ELSE "none")
               EXCEPT !.scratch = (step = "subtitle")])
    /\ UNCHANGED <<page, stopping, step, plans, flags>>

\* The loop of run_ffmpeg takes a report.
Emit ==
    /\ sub = "run" /\ ~cancel /\ queued > 0
    /\ queued' = queued - 1 /\ Progress
    /\ UNCHANGED <<call, rows, stopAsked, stopping, place, flags, child, reader, disk>>

\* The process has ended, and with it the reader, and every report was taken; the last one
\* says 100 %.
RunEnds ==
    /\ sub = "run" /\ child \in {"ok", "bad"} /\ ~reader /\ queued = 0
    /\ IF child = "ok" THEN To(After(step)) /\ Folder(Result(disk[call], step))
                       ELSE Raises /\ Leaves(disk[call])
    /\ IF child = "ok" /\ step \in WithReports THEN Progress ELSE UNCHANGED stopButton
    /\ child' = "none"
    /\ UNCHANGED <<call, rows, stopAsked, stopping, flags, reader, queued>>

\* The event, or the 30 s of an inspection: terminate.
Terminates ==
    /\ sub = "run" /\ (cancel \/ step \in {"inspect", "check"})
    /\ sub' = "wait"
    /\ UNCHANGED <<page, stopping, step, plans, flags, process, disk>>

\* Three seconds later: kill.
Kills ==
    /\ sub = "wait" /\ child = "running"
    /\ child' = "bad"
    /\ UNCHANGED <<page, stopping, place, flags, reader, queued, disk>>

\* wait, reader.join, raise.
Reaps ==
    /\ sub = "wait" /\ child # "running" /\ ~reader
    /\ Raises /\ Leaves(disk[call])
    /\ child' = "none" /\ queued' = 0
    /\ UNCHANGED <<page, stopping, flags, reader>>

Prepared ==
    /\ step = "final" /\ sub = "go"
    /\ Returns("prepared")
    /\ UNCHANGED <<stopping, flags, process, disk>>

convert_files ==
    /\ ~caught
    /\ \/ Starts \/ Except \/ Stage \/ Works \/ Popen \/ Emit \/ RunEnds
       \/ Terminates \/ Kills \/ Reaps \/ Prepared

\* FFmpeg reports and ends, by itself or because it was told to.
FFmpeg ==
    /\ child = "running" /\ child' \in {"ok", "bad"}
    /\ UNCHANGED <<page, stopping, place, flags, reader, queued, disk>>

\* read: a report that finds the queue full is dropped; the pipe ends with the process.
read ==
    /\ reader
    /\ \/ queued < Reports /\ queued' = queued + 1 /\ child = "running" /\ UNCHANGED reader
       \/ child # "running" /\ reader' = FALSE /\ UNCHANGED queued
    /\ UNCHANGED <<page, stopping, place, flags, child, disk>>

\* progress, between its test of _closing and the answer of the page: in stage, in emit or
\* at the end of run_ffmpeg.
ShowsProgress ==
    \/ step \in {"inspect", "output", "check", "subtitle"} /\ ~Untested /\ sub = "begin"
    \/ sub = "run" /\ step \in WithReports /\ (queued > 0 \/ (child = "ok" /\ ~reader))

\* _shutdown: the flag, the event, and the folder once the lock is free.
_shutdown ==
    /\ \/ shut = "no" /\ shut' = "flag" /\ caught' \in {FALSE, ShowsProgress} /\ UNCHANGED <<cancel, disk>>
       \/ shut = "flag" /\ shut' = "event" /\ cancel' = TRUE /\ UNCHANGED <<caught, disk>>
       \/ /\ shut = "event" /\ step = "idle"
          /\ shut' = "done" /\ disk' = [j \in 1 .. Calls |-> Gone]
          /\ UNCHANGED <<cancel, caught>>
    /\ UNCHANGED <<page, stopping, place, process>>

(***************************************************************************)
(* Specification                                                           *)
(***************************************************************************)

Init ==
    /\ call = 0 /\ rows = [j \in 1 .. Calls |-> "ready"] /\ stopButton = FALSE /\ stopAsked = FALSE
    /\ stopping = 0 /\ step = "idle" /\ sub = "begin"
    /\ plans = [j \in 1 .. Calls |-> [kind |-> "photo", keep |-> TRUE, subtitle |-> "none"]]
    /\ cancel = FALSE /\ shut = "no" /\ caught = FALSE
    /\ child = "none" /\ reader = FALSE /\ queued = 0
    /\ disk = [j \in 1 .. Calls |-> Gone]

\* The window is closed and nothing is left to do.
Closed == shut = "done" /\ step = "idle" /\ call = Calls /\ stopping = 0 /\ UNCHANGED vars

\* The page waits for _shutdown, _shutdown for the lock, and the call with the lock for the page.
Hangs == shut = "event" /\ caught /\ child # "running" /\ ~reader /\ stopping = 0 /\ UNCHANGED vars

Next == ApplyConversion \/ StopPressed \/ stop_conversion \/ convert_files \/ FFmpeg \/ read
        \/ _shutdown \/ Closed \/ Hangs

\* The threads run, convert_files while it does not wait for a page that is held up.  Nothing
\* is assumed of FFmpeg, nor that anybody presses a button or closes the window.
Fairness == WF_vars(convert_files) /\ WF_vars(stop_conversion)
            /\ WF_vars(read /\ child # "running")

Spec == Init /\ [][Next]_vars /\ Fairness

(***************************************************************************)
(* Properties                                                              *)
(***************************************************************************)

TypeOK ==
    /\ call \in 0 .. Calls /\ rows \in [1 .. Calls -> {"ready", "converting", "prepared", "stopped", "failed"}]
    /\ stopButton \in BOOLEAN /\ stopAsked \in BOOLEAN /\ stopping \in Nat
    /\ step \in Steps /\ sub \in {"begin", "go", "run", "wait"} /\ plans \in [1 .. Calls -> Plans]
    /\ cancel \in BOOLEAN /\ shut \in {"no", "flag", "event", "done"} /\ caught \in BOOLEAN
    /\ child \in {"none", "running", "ok", "bad"} /\ reader \in BOOLEAN /\ queued \in 0 .. Reports
    /\ disk \in [1 .. Calls -> [there : BOOLEAN, target : {"none", "part", "whole"},
                                m4t : {"none", "part", "whole"}, scratch : BOOLEAN, decoded : BOOLEAN]]

\* What a row says is on the disk, whatever was stopped, failed or timed out on the way:
\* behind "Prepared and verified" are a whole file, decoded to its end, and the subtitles
\* that were asked for; behind "partial output removed" is nothing.  No process and no reader
\* outlives its step, and a scratch folder that does, because it could not be removed, ends in
\* a failed row.  _shutdown removes nothing that is being written.
RowMatchesDisk ==
    /\ \A j \in 1 .. Calls :
         /\ rows[j] = "prepared" /\ shut # "done" =>
              /\ disk[j].target = "whole" /\ ~disk[j].scratch
              /\ plans[j].kind # "photo" => disk[j].decoded
              /\ plans[j].subtitle # "none" => disk[j].m4t = "whole"
         /\ rows[j] \in {"stopped", "ready"} => disk[j] = Gone
    /\ sub \notin {"run", "wait"} => child = "none" /\ ~reader /\ queued = 0
    /\ step \notin {"subtitle", "build", "except"} =>
         \A j \in 1 .. Calls : disk[j].scratch => rows[j] = "failed"
    /\ shut = "done" => child = "none" /\ \A j \in 1 .. Calls : disk[j] = Gone

\* Once Stop was pressed the conversion ends, though FFmpeg hangs and ignores terminate: the
\* button is not enabled before the event was cleared, so that no stop is erased.  Only a
\* conversion that was caught by the closing of the window does not come back.
StopEnds == stopAsked ~> ~converting \/ caught
=============================================================================
