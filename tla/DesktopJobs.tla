------------------------------ MODULE DesktopJobs ------------------------------
(***************************************************************************)
(* The desktop back end: every call the page makes (send_files,            *)
(* copy_from_vita, convert_files) runs on a thread of its own, takes one   *)
(* of two locks and watches an event the Cancel buttons set; closing the   *)
(* window runs _shutdown on yet another thread.  The Vita is its transfer  *)
(* queue, as SyncQueue describes it, at the granularity of a request; a    *)
(* second computer may use it over Wi-Fi.                                  *)
(*                                                                         *)
(* An action is what a thread does between two points where another thread *)
(* or the Vita can interfere.  The contents of files and reports are left  *)
(* out; every request may fail before it reaches the Vita, be refused by   *)
(* it, or take effect and have its answer lost.  A report of progress runs *)
(* in the page while its call waits, under its lock: it comes back unless  *)
(* the window's closing, which blocks the page until _shutdown is through, *)
(* gets in between (caught).                                               *)
(***************************************************************************)
EXTENDS Integers, Sequences, FiniteSets

CONSTANTS
  Send, Copy, Convert,  \* the calls of each kind the page makes
  Others,               \* the queues of a second computer
  Nobody, Closer,       \* holders of a lock: no thread, the _shutdown thread
  N,                    \* the files of a call
  Sidecars              \* those that have an .m4t sidecar

Jobs == Send \cup Copy \cup Convert
Transfers == Send \cup Copy

ASSUME JobsAssumption ==
  /\ N \in Nat \ {0} /\ Sidecars \subseteq 1 .. N
  /\ Send \cap Copy = {} /\ Send \cap Convert = {} /\ Copy \cap Convert = {}
  /\ Others \cap Send = {} /\ Nobody \notin Jobs \cup Others
  /\ Closer \notin Jobs /\ Nobody # Closer

VARIABLES
  \* the calls: where each is, the file it is at, the transport it chose, and
  \* the counters the one that polls read last
  pc, pos, via, seen,
  \* DesktopApi: _conversion_lock, _transfer_lock, the two cancel events,
  \* _closing, the converted files in _temporary and whether it was removed
  lockC, lockT, stopC, stopT, closing, temp, cleaned,
  \* _shutdown's place
  shut,
  \* the Vita's queue, the mode it serves, whether the USB helper is installed
  vita, mode, helper,
  \* the calls that were showing progress when the closing window stopped the page
  caught,
  \* history: calls in flight whose Cancel was pressed while they ran, or
  \* before that; what went wrong: a publish "answer" or a "cancel" request
  \* got lost, a "publish" was confirmed without effect
  asked, early, lost

locks == <<lockC, lockT>>
flags == <<stopC, stopT, closing>>
files == <<temp, cleaned>>
world == <<mode, helper, caught>>
pressed == <<asked, early>>
calls == <<pc, pos, via, seen, locks, pressed>>
vars == <<calls, flags, files, shut, vita, world, lost>>

Ended == {"done", "error"}
InFlight(j) == pc[j] \notin Ended \cup {"idle"}

Place == [item : 1 .. N + 1, part : {"media", "m4t"}]
First == [item |-> 1, part |-> "media"]
NextItem(p) == [item |-> p.item + 1, part |-> "media"]
\* A video's sidecar follows it.
NextFile(p) == IF p.part = "media" /\ p.item \in Sidecars
               THEN [item |-> p.item, part |-> "m4t"]
               ELSE NextItem(p)

ItemStates == {"waiting", "receiving", "received", "importing", "imported", "failed"}
Item == [state : ItemStates, ready : SUBSET {"media", "m4t"}]
Queue == [id : Send \cup Others \cup {Nobody}, items : Seq(Item), failed : Nat,
          syncing : BOOLEAN, cancelled : BOOLEAN]
Fresh(id) == [id |-> id, items |-> [i \in 1 .. N |-> [state |-> "waiting", ready |-> {}]],
              failed |-> 0, syncing |-> FALSE, cancelled |-> FALSE]

Counters == [settled : BOOLEAN, syncing : BOOLEAN, cancelled : BOOLEAN]
Unread == [settled |-> FALSE, syncing |-> FALSE, cancelled |-> FALSE]

Init ==
  /\ pc = [j \in Jobs |-> "idle"] /\ pos = [j \in Jobs |-> First]
  /\ via = [j \in Jobs |-> "wifi"] /\ seen = Unread
  /\ lockC = Nobody /\ lockT = Nobody
  /\ stopC = FALSE /\ stopT = FALSE /\ closing = FALSE
  /\ temp = {} /\ cleaned = FALSE /\ shut = "open"
  /\ vita = [id |-> Nobody, items |-> <<>>, failed |-> 0,
             syncing |-> FALSE, cancelled |-> FALSE]
  /\ mode \in {"usb", "wifi"} /\ helper \in BOOLEAN /\ caught = {}
  /\ asked = {} /\ early = {} /\ lost = {}

\* Where a call shows progress or the Vita's address (evaluate_js) after it found _closing
\* not set.
ShowsProgress(j) ==
  \/ pc[j] \in {"pick", "running", "download", "wifi", "upload", "sync", "items"}
  \/ pc[j] = "copy" /\ pos[j].item > 1
Responsive(j) == j \in caught => shut = "closed"

\* A call goes on at another place, perhaps with another file.
GoTo(j, place, p) ==
  /\ pc' = [pc EXCEPT ![j] = place] /\ pos' = [pos EXCEPT ![j] = p]
  /\ UNCHANGED <<via, seen, locks, pressed>>

\* It returns or raises: its "with" block releases the lock, its locals are
\* gone, and the page disables its Cancel button.
Leave(j, how) ==
  /\ pc' = [pc EXCEPT ![j] = how] /\ pos' = [pos EXCEPT ![j] = First]
  /\ via' = [via EXCEPT ![j] = "wifi"] /\ seen' = IF j \in Send THEN Unread ELSE seen
  /\ lockT' = IF lockT = j THEN Nobody ELSE lockT
  /\ lockC' = IF lockC = j THEN Nobody ELSE lockC
  /\ asked' = asked \ {j} /\ early' = early \ {j}

-----------------------------------------------------------------------------
(* The page: one send or conversion at a time, one copy at a time, and a    *)
(* Cancel button for either that works once.                                *)

Rivals(j) == IF j \in Copy THEN Copy ELSE Send \cup Convert

Call_ClearsCancel(j) ==
  /\ pc[j] = "idle" /\ \A k \in Rivals(j) : ~InFlight(k)
  /\ stopT' = FALSE
  /\ GoTo(j, IF j \in Copy THEN "pick" ELSE "wait", First)
  /\ UNCHANGED <<stopC, closing, files, shut, vita, world, lost>>
Call(j) ==
  /\ pc[j] = "idle" /\ \A k \in Rivals(j) : ~InFlight(k)
  /\ GoTo(j, IF j \in Copy THEN "pick" ELSE "wait", First)
  /\ UNCHANGED <<flags, files, shut, vita, world, lost>>

cancel_transfer(j) ==
  /\ j \in Transfers /\ InFlight(j) /\ j \notin asked \cup early
  /\ stopT' = TRUE
  /\ IF lockT = j /\ pc[j] # "clear"
     THEN asked' = asked \cup {j} /\ UNCHANGED early
     ELSE early' = early \cup {j} /\ UNCHANGED asked
  /\ UNCHANGED <<pc, pos, via, seen, locks, stopC, closing, files, shut, vita, world, lost>>

stop_conversion ==
  /\ \E j \in Convert : InFlight(j)
  /\ stopC' = TRUE
  /\ UNCHANGED <<calls, stopT, closing, files, shut, vita, world, lost>>

-----------------------------------------------------------------------------
(* Taking a lock and resetting the event it goes with.                     *)

\* copy_from_vita before the lock: the folder picker and the service check.
Picks(j) ==
  /\ pc[j] = "pick"
  /\ GoTo(j, "wait", First) \/ Leave(j, "error")
  /\ UNCHANGED <<flags, files, shut, vita, world, lost>>

TakeTransferLock(j) ==
  /\ pc[j] = "wait" /\ lockT = Nobody
  /\ lockT' = j /\ pc' = [pc EXCEPT ![j] = "clear"]
  /\ UNCHANGED <<pos, via, seen, lockC, pressed, flags, files, shut, vita, world, lost>>

TakeConversionLock(j) ==
  /\ pc[j] = "wait" /\ lockC = Nobody
  /\ lockC' = j /\ pc' = [pc EXCEPT ![j] = "clear"]
  /\ UNCHANGED <<pos, via, seen, lockT, pressed, flags, files, shut, vita, world, lost>>

ClearTransferCancel(j) ==
  /\ pc[j] = "clear"
  /\ stopT' = FALSE
  /\ GoTo(j, IF j \in Send THEN "prepare" ELSE "copy", First)
  /\ UNCHANGED <<stopC, closing, files, shut, vita, world, lost>>

\* convert_files tests _closing and resets the event in two steps.
TestClosing(j) ==
  /\ pc[j] = "clear"
  /\ GoTo(j, IF closing THEN "convert" ELSE "reset", First)
  /\ UNCHANGED <<flags, files, shut, vita, world, lost>>

ClearConversionCancel(j) ==
  /\ pc[j] = "reset"
  /\ stopC' = FALSE
  /\ GoTo(j, "convert", First)
  /\ UNCHANGED <<stopT, closing, files, shut, vita, world, lost>>

-----------------------------------------------------------------------------
(* convert_files: one folder in _temporary per file that succeeds.         *)

ConvertStarts_Regardless(j) ==
  /\ pc[j] = "convert" /\ pos[j].item <= N
  /\ temp' = temp \cup {<<j, pos[j].item>>}
  /\ GoTo(j, "running", pos[j])
  /\ UNCHANGED <<flags, cleaned, shut, vita, world, lost>>
ConvertStarts(j) ==
  /\ pc[j] = "convert" /\ pos[j].item <= N
  /\ ~closing
  /\ temp' = temp \cup {<<j, pos[j].item>>}
  /\ GoTo(j, "running", pos[j])
  /\ UNCHANGED <<flags, cleaned, shut, vita, world, lost>>

ConvertSkips(j) ==
  /\ pc[j] = "convert" /\ pos[j].item <= N
  /\ closing
  /\ GoTo(j, "convert", NextItem(pos[j]))
  /\ UNCHANGED <<flags, files, shut, vita, world, lost>>

\* prepare succeeded, or raised (stopped or not) and its folder is removed.
ConvertEnds(j, ok) ==
  /\ pc[j] = "running"
  /\ temp' = IF ok THEN temp ELSE temp \ {<<j, pos[j].item>>}
  /\ GoTo(j, "convert", NextItem(pos[j]))
  /\ UNCHANGED <<flags, cleaned, shut, vita, world, lost>>

ConvertReturns(j) ==
  /\ pc[j] = "convert" /\ pos[j].item > N
  /\ Leave(j, "done")
  /\ UNCHANGED <<flags, files, shut, vita, world, lost>>

convert_files(j) ==
  \/ TakeConversionLock(j) \/ TestClosing(j) \/ ClearConversionCancel(j)
  \/ ConvertStarts(j) \/ ConvertSkips(j) \/ ConvertReturns(j)
  \/ \E ok \in BOOLEAN : ConvertEnds(j, ok)

-----------------------------------------------------------------------------
(* copy_from_vita, under the lock.                                         *)

CopyChecks(j) ==
  /\ pc[j] = "copy" /\ pos[j].item <= N
  /\ IF stopT \/ closing THEN Leave(j, "error") ELSE GoTo(j, "download", pos[j])
  /\ UNCHANGED <<flags, files, shut, vita, world, lost>>

\* A file that arrives is followed by its sidecar or by the next check.
CopyArrives(j) ==
  /\ pc[j] = "download"
  /\ GoTo(j, IF NextFile(pos[j]).part = "m4t" THEN "download" ELSE "copy", NextFile(pos[j]))
  /\ UNCHANGED <<flags, files, shut, vita, world, lost>>

\* One that fails ends the loop if the event is set, and only then.
CopyFails(j) ==
  /\ pc[j] = "download"
  /\ IF stopT THEN Leave(j, "done") ELSE GoTo(j, "copy", NextItem(pos[j]))
  /\ UNCHANGED <<flags, files, shut, vita, world, lost>>

CopyReturns(j) ==
  /\ pc[j] = "copy" /\ pos[j].item > N
  /\ Leave(j, "done")
  /\ UNCHANGED <<flags, files, shut, vita, world, lost>>

copy_from_vita(j) ==
  \/ TakeTransferLock(j) \/ ClearTransferCancel(j)
  \/ CopyChecks(j) \/ CopyArrives(j) \/ CopyFails(j) \/ CopyReturns(j)

-----------------------------------------------------------------------------
(* send_files: checking the files and publishing the queue.                *)

SendPrepares_IgnoresClosing(j, ok) ==
  /\ pc[j] = "prepare"
  /\ IF ~ok THEN Leave(j, "error")
     ELSE IF pos[j].item < N THEN GoTo(j, "prepare", NextItem(pos[j]))
     ELSE GoTo(j, IF helper THEN "usb" ELSE "wifi", First)
  /\ UNCHANGED <<flags, files, shut, vita, world, lost>>
SendPrepares(j, ok) ==
  /\ pc[j] = "prepare"
  /\ IF closing \/ ~ok THEN Leave(j, "error")
     ELSE IF pos[j].item < N THEN GoTo(j, "prepare", NextItem(pos[j]))
     ELSE GoTo(j, IF helper THEN "usb" ELSE "wifi", First)
  /\ UNCHANGED <<flags, files, shut, vita, world, lost>>

\* The Vita's counters, and vcm_queue_publish's condition.
State(i) == vita.items[i].state
Counted == Cardinality({i \in DOMAIN vita.items : State(i) = "imported"}) + vita.failed
Replaceable == ~vita.syncing /\ (vita.cancelled \/ Counted >= Len(vita.items))

\* Over USB the call falls back to Wi-Fi, over Wi-Fi it raises, and outside
\* its try block.
PublishFails(j) ==
  /\ pc[j] \in {"usb", "wifi"}
  /\ IF pc[j] = "usb" THEN GoTo(j, "wifi", First) ELSE Leave(j, "error")

\* The metadata are refused before anything is sent.
PublishRefused(j) ==
  /\ pc[j] \in {"usb", "wifi"}
  /\ Leave(j, "error")
  /\ UNCHANGED <<flags, files, shut, vita, world, lost>>

PublishUnanswered(j) ==
  /\ PublishFails(j)
  /\ \/ UNCHANGED <<vita, lost>>
     \/ pc[j] = mode /\ Replaceable /\ vita' = Fresh(j) /\ lost' = lost \cup {"answer"}
  /\ UNCHANGED <<flags, files, shut, world>>

PublishAnswered(j) ==
  /\ pc[j] \in {"usb", "wifi"} /\ pc[j] = mode /\ Replaceable
  /\ vita' = Fresh(j)
  /\ pc' = [pc EXCEPT ![j] = "upload"] /\ via' = [via EXCEPT ![j] = mode]
  /\ UNCHANGED <<pos, seen, locks, pressed, flags, files, shut, world, lost>>

\* The USB bridge answers a request whose data it could not pass on with the
\* status of its beginning.
PublishMisreported(j) ==
  /\ pc[j] = "usb" /\ mode = "usb"
  /\ lost' = lost \cup {"publish"}
  /\ pc' = [pc EXCEPT ![j] = "upload"] /\ via' = [via EXCEPT ![j] = "usb"]
  /\ UNCHANGED <<pos, seen, locks, pressed, flags, files, shut, vita, world>>

-----------------------------------------------------------------------------
(* send_files inside its try block: uploads, the sync request, polling.    *)

\* The Vita matches the queue ID of a Wi-Fi request; USB requests carry none.
Matches(j) == via[j] = "usb" \/ vita.id = j

WithItem(i, item) == [vita EXCEPT !.items = [vita.items EXCEPT ![i] = item]]
WithState(i, state) == WithItem(i, [state |-> state, ready |-> vita.items[i].ready])

\* The Vita wants the file at p: vcm_queue_find.
Wanted(j, p) ==
  /\ Matches(j) /\ ~vita.cancelled /\ ~vita.syncing
  /\ p.item \in DOMAIN vita.items /\ p.part \notin vita.items[p.item].ready

\* It stores the file; the item is complete with its last one.
Receives(j, p) ==
  /\ Wanted(j, p)
  /\ LET ready == vita.items[p.item].ready \cup {p.part}
         whole == "media" \in ready /\ (p.item \in Sidecars => "m4t" \in ready)
     IN  vita' = WithItem(p.item, [state |-> IF whole THEN "received" ELSE "receiving",
                                   ready |-> ready])

\* It gives the upload up, or cannot make it durable, and counts a failure.
Rejects(j, p) ==
  /\ Wanted(j, p)
  /\ vita' = [WithState(p.item, "failed") EXCEPT !.failed = vita.failed + 1]

\* Over Wi-Fi the client insists on a durable copy.  Over USB it is told OK
\* for one that is not durable, and for data the bridge could not pass on.
UploadConfirmed(j) ==
  /\ pc[j] = "upload" /\ ~stopT
  /\ \/ Receives(j, pos[j])
     \/ via[j] = "usb" /\ (Rejects(j, pos[j]) \/ UNCHANGED vita)
  /\ GoTo(j, IF NextFile(pos[j]).item > N THEN "sync" ELSE "upload", NextFile(pos[j]))
  /\ UNCHANGED <<flags, files, shut, world, lost>>

\* Stopped, refused, broken off or not confirmed as durable.
UploadRaises(j) ==
  /\ pc[j] = "upload"
  /\ UNCHANGED vita \/ Rejects(j, pos[j]) \/ Receives(j, pos[j])
  /\ GoTo(j, "undo", First)
  /\ UNCHANGED <<flags, files, shut, world, lost>>

Syncs(j) ==
  /\ Matches(j) /\ ~vita.cancelled /\ ~vita.syncing /\ vita.items # <<>>
  /\ \A i \in DOMAIN vita.items : State(i) \in {"received", "failed"}
  /\ vita' = [vita EXCEPT !.syncing = TRUE]

SyncAccepted(j) ==
  /\ pc[j] = "sync"
  /\ Syncs(j) /\ GoTo(j, "poll", First)
  /\ UNCHANGED <<flags, files, shut, world, lost>>

SyncRaises(j) ==
  /\ pc[j] = "sync"
  /\ UNCHANGED vita \/ Syncs(j)
  /\ GoTo(j, "undo", First)
  /\ UNCHANGED <<flags, files, shut, world, lost>>

\* A Wi-Fi status names its queue; a USB status has only the count.
Recognised_ByCount(j) == Len(vita.items) = N
Recognised(j) == IF via[j] = "usb" THEN Len(vita.items) = N ELSE vita.id = j

PollReads(j) ==
  /\ pc[j] = "poll"
  /\ ~stopT /\ Recognised(j)
  /\ seen' = [settled |-> Counted = Len(vita.items), syncing |-> vita.syncing, cancelled |-> vita.cancelled]
  /\ pc' = [pc EXCEPT ![j] = "items"]
  /\ UNCHANGED <<pos, via, locks, pressed, flags, files, shut, vita, world, lost>>

\* Stopped, another queue, or a status request that fails.
PollRaises(j) ==
  /\ pc[j] \in {"poll", "items"}
  /\ GoTo(j, "undo", First)
  /\ UNCHANGED <<flags, files, shut, vita, world, lost>>

\* The items are read after the counters, and the counters decide: the call
\* returns the items' states as its result, gives up, or polls again.
PollDecides_IgnoresCancelled(j) ==
  /\ pc[j] = "items"
  /\ IF seen.settled /\ ~seen.syncing THEN Leave(j, "done") ELSE GoTo(j, "poll", First)
  /\ UNCHANGED <<flags, files, shut, vita, world, lost>>
PollDecides(j) ==
  /\ pc[j] = "items"
  /\ IF seen.settled /\ ~seen.syncing THEN Leave(j, "done")
     ELSE GoTo(j, IF seen.cancelled THEN "undo" ELSE "poll", First)
  /\ UNCHANGED <<flags, files, shut, vita, world, lost>>

\* The except clause: a cancel request whose failure is ignored.
SendUndoes_Silently(j) ==
  /\ pc[j] = "undo"
  /\ Leave(j, "error")
  /\ UNCHANGED <<flags, files, shut, vita, world, lost>>
SendUndoes(j) ==
  /\ pc[j] = "undo"
  /\ Leave(j, "error")
  /\ \/ Matches(j) /\ vita' = [vita EXCEPT !.cancelled = TRUE] /\ UNCHANGED lost
     \/ ~Matches(j) /\ UNCHANGED <<vita, lost>>
     \/ UNCHANGED vita /\ lost' = lost \cup {"cancel"}
  /\ UNCHANGED <<flags, files, shut, world>>

send_files(j) ==
  \/ TakeTransferLock(j) \/ ClearTransferCancel(j)
  \/ \E ok \in BOOLEAN : SendPrepares(j, ok)
  \/ PublishRefused(j) \/ PublishUnanswered(j) \/ PublishAnswered(j) \/ PublishMisreported(j)
  \/ UploadConfirmed(j) \/ UploadRaises(j) \/ SyncAccepted(j) \/ SyncRaises(j)
  \/ PollReads(j) \/ PollRaises(j) \/ PollDecides(j) \/ SendUndoes(j)

-----------------------------------------------------------------------------
(* The Vita, as SyncQueue describes it, and the second computer.           *)

VitaTakes(i) ==
  /\ vita.syncing /\ ~vita.cancelled
  /\ \A k \in DOMAIN vita.items : State(k) # "importing"
  /\ State(i) = "received" /\ \A k \in 1 .. i - 1 : State(k) # "received"
  /\ vita' = WithState(i, "importing")

VitaReturns(i, to) ==
  /\ State(i) = "importing"
  /\ vita' = [WithState(i, to) EXCEPT !.failed = IF to = "failed" THEN @ + 1 ELSE @]

VitaCloses ==
  /\ vita.syncing
  /\ \A i \in DOMAIN vita.items : State(i) # "importing" /\ (State(i) = "received" => vita.cancelled)
  /\ vita' = [vita EXCEPT !.syncing = FALSE]

\* The progress dialog on the Vita.
VitaCancels ==
  /\ vita.items # <<>> /\ ~vita.cancelled
  /\ vita' = [vita EXCEPT !.cancelled = TRUE]

\* The server answers a status request before it takes another request, and
\* in USB mode it listens to the local bridge only.
Reachable == mode = "wifi" /\ \A j \in Send : pc[j] # "items"

OtherPublishes(id) == Reachable /\ Replaceable /\ vita' = Fresh(id)

OtherSettles(i, to) ==
  /\ Reachable /\ vita.id \in Others
  /\ State(i) = "waiting"
  /\ vita' = [WithState(i, to) EXCEPT !.failed = IF to = "failed" THEN @ + 1 ELSE @]

VitaImports ==
  /\ \/ \E i \in DOMAIN vita.items, to \in {"imported", "failed"} :
          VitaTakes(i) \/ VitaReturns(i, to)
     \/ VitaCloses
  /\ UNCHANGED <<calls, flags, files, shut, world, lost>>

Vita ==
  \/ VitaImports
  \/ /\ \/ VitaCancels
        \/ \E id \in Others : OtherPublishes(id)
        \/ \E i \in DOMAIN vita.items, to \in {"imported", "failed"} : OtherSettles(i, to)
     /\ UNCHANGED <<calls, flags, files, shut, world, lost>>

-----------------------------------------------------------------------------
(* _shutdown.  main calls it a second time when the window's loop has       *)
(* ended; what that call sets is set and what it removes is gone.          *)

\* The handler of the window's closing runs it while the page waits.
ShutdownCloses ==
  /\ shut = "open"
  /\ closing' = TRUE /\ shut' = "conversion"
  /\ caught' \in SUBSET {j \in Jobs : ShowsProgress(j)}
  /\ UNCHANGED <<calls, stopC, stopT, files, vita, mode, helper, lost>>

ShutdownStopsConversion ==
  /\ shut = "conversion"
  /\ stopC' = TRUE /\ shut' = "transfer"
  /\ UNCHANGED <<calls, closing, stopT, files, vita, world, lost>>

ShutdownStopsTransfer ==
  /\ shut = "transfer"
  /\ stopT' = TRUE /\ shut' = "first"
  /\ UNCHANGED <<calls, closing, stopC, files, vita, world, lost>>

ShutdownLocks ==
  /\ \/ shut = "first" /\ lockC = Nobody
        /\ lockC' = Closer /\ shut' = "second" /\ UNCHANGED lockT
     \/ shut = "second" /\ lockT = Nobody
        /\ lockT' = Closer /\ shut' = "cleanup" /\ UNCHANGED lockC
  /\ UNCHANGED <<pc, pos, via, seen, pressed, flags, files, vita, world, lost>>

ShutdownCleans ==
  /\ shut = "cleanup"
  /\ temp' = {} /\ cleaned' = TRUE
  /\ lockC' = Nobody /\ lockT' = Nobody /\ shut' = "closed"
  /\ UNCHANGED <<pc, pos, via, seen, pressed, flags, vita, world, lost>>

_shutdown ==
  \/ ShutdownCloses \/ ShutdownStopsConversion \/ ShutdownStopsTransfer
  \/ ShutdownLocks \/ ShutdownCleans

-----------------------------------------------------------------------------
Run(j) ==
  /\ Responsive(j)
  /\ \/ j \in Convert /\ convert_files(j)
     \/ j \in Copy /\ copy_from_vita(j)
     \/ j \in Send /\ send_files(j)

\* Every call has returned and the window is closed.
Finished ==
  /\ shut = "closed" /\ \A j \in Jobs : pc[j] \in Ended
  /\ UNCHANGED vars

\* A call waits for the page, the page for _shutdown, and _shutdown for the call's lock.
Stuck == \E j \in caught : j \in {lockC, lockT}
Hangs == shut \in {"first", "second"} /\ Stuck /\ UNCHANGED vars

Next ==
  \/ \E j \in Jobs : Call(j) \/ cancel_transfer(j) \/ (Responsive(j) /\ Picks(j)) \/ Run(j)
  \/ stop_conversion \/ Vita \/ _shutdown \/ Finished \/ Hangs

Spec == Init /\ [][Next]_vars

\* The desktop's threads run, those that wait for the page as long as it answers, and a lock
\* that is released again and again is obtained.  Nobody has to close the window.
Fairness ==
  /\ \A j \in Jobs : WF_vars(Run(j))
  /\ WF_vars(closing /\ _shutdown) /\ SF_vars(ShutdownLocks)

FairSpec == Spec /\ Fairness

-----------------------------------------------------------------------------
(* Properties.                                                             *)

(* Every variable has its type.                                            *)
TypeOK ==
  /\ pc \in [Jobs -> {"idle", "pick", "wait", "clear", "reset", "convert", "running",
                      "copy", "download", "prepare", "usb", "wifi", "upload", "sync",
                      "poll", "items", "undo", "done", "error"}]
  /\ pos \in [Jobs -> Place] /\ via \in [Jobs -> {"usb", "wifi"}] /\ seen \in Counters
  /\ lockC \in Convert \cup {Nobody, Closer} /\ lockT \in Transfers \cup {Nobody, Closer}
  /\ stopC \in BOOLEAN /\ stopT \in BOOLEAN /\ closing \in BOOLEAN /\ cleaned \in BOOLEAN
  /\ temp \subseteq Convert \X (1 .. N)
  /\ shut \in {"open", "conversion", "transfer", "first", "second", "cleanup", "closed"}
  /\ vita \in Queue /\ Len(vita.items) \in {0, N}
  /\ mode \in {"usb", "wifi"} /\ helper \in BOOLEAN /\ caught \subseteq Jobs
  /\ asked \subseteq Transfers /\ early \subseteq Transfers
  /\ lost \subseteq {"answer", "cancel", "publish"}

(* What send_files returns is what the Vita did with the files of that      *)
(* call: the items it reads are those of its own queue, every one of them   *)
(* is imported or failed or the Vita gave it up, and the Vita will not      *)
(* touch them again, although counters and items are read at different      *)
(* times, failures may be counted twice and a second computer may replace   *)
(* the queue between two polls.  A publish that was confirmed without       *)
(* effect is left out: the call then works on an older queue.               *)
ReportIsTrue ==
  [][\A j \in Send : pc'[j] = "done" /\ pc[j] # "done" /\ "publish" \notin lost =>
       /\ vita.id = j /\ ~vita.syncing
       /\ \A i \in DOMAIN vita.items : State(i) \in {"imported", "failed"} \/ vita.cancelled]_vars

(* However a call of send_files ends, the Vita's queue is free for the next *)
(* one or is finishing the import under way, unless a publish was lost or   *)
(* misreported or the cancel request of the except clause was lost.         *)
QueueIsFreed ==
  lost = {} => \A j \in Send :
    pc[j] \in Ended /\ vita.id = j => Replaceable \/ (vita.cancelled /\ vita.syncing)

(* Over Wi-Fi, if the Vita's import thread runs, send_files does not poll   *)
(* for ever: the counters it waits for add up, or it sees that the queue    *)
(* was cancelled or replaced.  Only the closing of the window may stop it   *)
(* while it shows what it read.                                             *)
PollingEnds ==
  WF_vars(VitaImports) =>
    \A j \in Send : pc[j] = "poll" /\ via[j] = "wifi" ~> pc[j] \notin {"poll", "items"} \/ j \in caught

(* A Cancel pressed while a transfer runs stays in force until it has ended *)
(* although every transfer resets the shared event when it begins.          *)
CancelStays == \A j \in asked : lockT = j => stopT

(* A Cancel pressed for a transfer is in force once the transfer runs: the  *)
(* page has said that it is stopping and has disabled the button.           *)
CancelIsHeeded == \A j \in asked \cup early : lockT = j /\ pc[j] # "clear" => stopT

(* When _shutdown has removed the temporary folder nothing is in it and no  *)
(* call still reads or writes converted files: the two locks and the order  *)
(* of _closing and the cancel events keep them out.                         *)
CleanedIsUnused ==
  cleaned => /\ temp = {}
             /\ \A j \in Jobs : pc[j] \notin {"running", "usb", "wifi", "upload", "download"}

(* The queue that the calls of this computer work on keeps to the contract  *)
(* that SyncQueue implements: over either transport, with requests refused, *)
(* lost or confirmed without effect, no call opens a batch or uploads into  *)
(* one while an import run is under way, nor replaces what is received, and *)
(* what the run imported or rejected stays.  To this computer a queue of    *)
(* the second one is a batch without entries.                               *)
Mine == vita.id \in Send
Complete(item, i) == "media" \in item.ready /\ (i \in Sidecars => "m4t" \in item.ready)
Outcome(item, i) ==
  CASE item.state \in {"waiting", "receiving"} -> "pending"
    [] item.state = "received" -> "ready"
    [] item.state = "failed" -> IF Complete(item, i) THEN "rejected" ELSE "refused"
    [] OTHER -> item.state
Entries == [i \in IF Mine THEN DOMAIN vita.items ELSE {} |-> Outcome(vita.items[i], i)]
Contract == INSTANCE TransferContract WITH
              Sizes <- {0, N}, entries <- Entries, running <- vita.syncing, halted <- vita.cancelled
CallsKeepContract == Contract!Spec

(* Closing the window ends: whatever calls hold or wait for the locks, and  *)
(* although a transfer that gets its lock late erases the cancel event,     *)
(* _shutdown gets both locks and removes the temporary folder.  One thing   *)
(* keeps it: a call that holds a lock and had passed its test of _closing   *)
(* to show progress when the window closed.  Page, call and _shutdown then  *)
(* wait for each other, and only a call caught at that moment can do it.    *)
ShutdownEnds == closing ~> cleaned \/ Stuck
=============================================================================
