------------------------------- MODULE SyncQueue -------------------------------
(***************************************************************************)
(* The transfer queue of the Vita application and the three threads that   *)
(* share it: the Wi-Fi server, which serves one request at a time, the PAF *)
(* main (UI) thread, and the import worker the UI thread starts.  Every    *)
(* queue operation of sync_queue.c runs under one mutex, so an action here *)
(* is one critical section together with the thread-local work up to the   *)
(* next one.                                                               *)
(*                                                                         *)
(* Indices count from 1, and importing is 0 where the code stores -1.  An  *)
(* error code is 0 or -1, which stands for every nonzero code.  The        *)
(* queue's revision is read by the screen only, which compares it with the *)
(* one it drew last: redraw is the outcome of that comparison, and         *)
(* redraw' = TRUE is the code's ++queue.revision.                          *)
(***************************************************************************)
EXTENDS Integers, FiniteSets, Sequences

CONSTANTS
  Files,        \* transfer IDs: the names of uploads in the inbox
  QueueIds,     \* session IDs a client may publish
  NoQueue,      \* the empty ID of the zero-initialised queue
  NoFile,       \* what the worker's copy holds outside an import
  Usb,          \* the session of the loopback USB bridge, which names no queue
  Manifests,    \* the item lists clients may publish
  QueueMax,     \* VCM_QUEUE_MAX
  MaxFailed     \* bound: no upload begins once failed has reached it

Entry == [file : Files, size : Nat \ {0}, subtitle : Nat]

ASSUME QueueAssumption ==
  /\ NoQueue \notin QueueIds
  /\ Usb \notin QueueIds
  /\ NoFile \notin Files
  /\ MaxFailed \in Nat /\ QueueMax \in Nat
  /\ \A m \in Manifests :
       /\ m \in Seq(Entry)
       /\ Len(m) \in 1 .. QueueMax
       /\ \A i, j \in 1 .. Len(m) : m[i].file = m[j].file => i = j

VARIABLES
  \* VcmQueueInfo and the item table, guarded by the mutex
  qid, count, items, imported, failed, importing, syncing, cancelled,
  transferred, redraw,
  \* files in the inbox: pairs <<transfer ID, is it the subtitle sidecar>>
  inbox,
  \* the server thread: its place in a request, the upload it receives, the
  \* status report it assembles
  srv, up, report,
  \* the UI thread: its place in PollImport, the progress dialog, and g_stop
  ui, dialog, stop,
  \* the import worker: its place, its loop index, its copy of the item
  worker, wi, job

info == <<qid, count, imported, failed, importing, syncing, cancelled, transferred>>
server == <<srv, up, report>>
screen == <<ui, dialog, stop>>
importer == <<worker, wi, job>>
vars == <<info, items, redraw, inbox, server, screen, importer>>

States == {"waiting", "receiving", "received", "importing", "imported", "failed"}
Item == [file : Files, size : Nat \ {0}, subtitle : Nat, received : Nat,
         state : States, error : {0, -1}, media_ready : BOOLEAN,
         subtitle_ready : BOOLEAN]
Upload == [i : Nat, sidecar : BOOLEAN, got : Nat, failed : BOOLEAN]
Report == [imported : Nat, failed : Nat, syncing : BOOLEAN, listed : Seq(States)]

NoUpload == [i |-> 0, sidecar |-> FALSE, got |-> 0, failed |-> FALSE]
NoReport == [imported |-> 0, failed |-> 0, syncing |-> FALSE, listed |-> <<>>]

Init ==
  /\ qid = NoQueue /\ count = 0 /\ items = [i \in 1 .. 0 |-> 0]
  /\ imported = 0 /\ failed = 0 /\ importing = 0 /\ transferred = 0
  /\ syncing = FALSE /\ cancelled = FALSE /\ redraw = TRUE
  /\ inbox = {}
  /\ srv = "idle" /\ up = NoUpload /\ report = NoReport
  /\ ui = "poll" /\ dialog = FALSE /\ stop = FALSE
  /\ worker = "none" /\ wi = 0 /\ job = NoFile

-----------------------------------------------------------------------------
(* Requests of one critical section.                                       *)

Admitted(s) == srv = "idle" /\ ~stop /\ (s = Usb \/ s = qid)

\* Clients see -2 (409, "Another transfer is active") otherwise.
Replaceable_DuringSync == ~(count # 0 /\ ~cancelled /\ imported + failed < count)
Replaceable ==
  ~syncing /\ ~(count # 0 /\ ~cancelled /\ imported + failed < count)

FreshItem(e) ==
  [file |-> e.file, size |-> e.size, subtitle |-> e.subtitle, received |-> 0,
   state |-> "waiting", error |-> 0, media_ready |-> FALSE, subtitle_ready |-> FALSE]

vcm_queue_publish(id, m) ==
  /\ srv = "idle" /\ ~stop
  /\ Replaceable
  /\ qid' = id /\ count' = Len(m)
  /\ items' = [i \in 1 .. Len(m) |-> FreshItem(m[i])]
  /\ imported' = 0 /\ failed' = 0 /\ importing' = 0 /\ transferred' = 0
  /\ syncing' = FALSE /\ cancelled' = FALSE /\ redraw' = TRUE
  /\ UNCHANGED <<inbox, server, screen, importer>>

vcm_queue_sync(s) ==
  /\ Admitted(s)
  /\ count # 0 /\ ~cancelled /\ ~syncing
  /\ \A i \in 1 .. count : items[i].state \in {"received", "failed"}
  /\ syncing' = TRUE /\ redraw' = TRUE
  /\ UNCHANGED <<qid, count, items, imported, failed, importing, cancelled, transferred,
                 inbox, server, screen, importer>>

vcm_queue_cancel_ReleasesSync ==
  /\ cancelled' = TRUE /\ syncing' = FALSE /\ redraw' = TRUE
  /\ UNCHANGED <<qid, count, items, imported, failed, importing, transferred, inbox>>
vcm_queue_cancel ==
  /\ cancelled' = TRUE /\ redraw' = TRUE
  /\ UNCHANGED <<qid, count, items, imported, failed, importing, syncing, transferred, inbox>>

CancelRequest(s) ==
  /\ Admitted(s)
  /\ vcm_queue_cancel
  /\ UNCHANGED <<server, screen, importer>>

-----------------------------------------------------------------------------
(* receive_file: one upload, from matching its name in the queue to        *)
(* recording its outcome.                                                  *)

Expected(u) == IF u.sidecar THEN items[u.i].subtitle ELSE items[u.i].size

Wanted_Again(i, sidecar) == sidecar => items[i].subtitle # 0
Wanted(i, sidecar) ==
  IF sidecar THEN items[i].subtitle # 0 /\ ~items[i].subtitle_ready
             ELSE ~items[i].media_ready

vcm_queue_find(s, i, sidecar) ==
  /\ Admitted(s) /\ failed < MaxFailed
  /\ ~cancelled /\ ~syncing
  /\ Wanted(i, sidecar)
  /\ items' = [items EXCEPT ![i].state = "receiving"]
  /\ redraw' = TRUE
  /\ srv' = "opening" /\ up' = [NoUpload EXCEPT !.i = i, !.sidecar = sidecar]
  /\ UNCHANGED <<info, inbox, report, screen, importer>>

Complete_MediaOnly(item) == item.media_ready
Complete(item) == item.media_ready /\ (item.subtitle = 0 \/ item.subtitle_ready)

\* The item after vcm_queue_received recorded an upload that succeeded.
Accepted(item, sidecar) ==
  LET ready == IF sidecar THEN [item EXCEPT !.subtitle_ready = TRUE]
                          ELSE [item EXCEPT !.media_ready = TRUE]
  IN  [ready EXCEPT !.error = 0,
                    !.state = IF Complete(ready) THEN "received" ELSE "receiving"]

\* The request ends here; every response leaves the server idle again.
vcm_queue_received(error) ==
  /\ items' = [items EXCEPT ![up.i] =
                 IF error = 0 THEN Accepted(@, up.sidecar)
                              ELSE [@ EXCEPT !.error = error, !.state = "failed"]]
  /\ failed' = IF error # 0 /\ items[up.i].state # "failed" THEN failed + 1 ELSE failed
  /\ redraw' = TRUE
  /\ srv' = "idle" /\ up' = NoUpload
  /\ UNCHANGED <<qid, count, imported, importing, syncing, cancelled, transferred,
                 report, screen, importer>>

Stored(u) == <<items[u.i].file, u.sidecar>>

\* No storage, an unusable name, a file of that name, or an open that fails.
UploadRefused ==
  /\ srv = "opening"
  /\ vcm_queue_received(-1)
  /\ UNCHANGED inbox

UploadOpened ==
  /\ srv = "opening"
  /\ Stored(up) \notin inbox
  /\ srv' = "check"
  /\ UNCHANGED <<info, items, redraw, inbox, up, report, screen, importer>>

\* The condition of the receive loop; vcm_queue_cancelled takes the mutex.
LoopCheck ==
  /\ srv = "check"
  /\ srv' = IF up.got < Expected(up) /\ ~up.failed /\ ~stop /\ ~cancelled
            THEN "recv" ELSE "finish"
  /\ UNCHANGED <<info, items, redraw, inbox, up, report, screen, importer>>

ConnectionLost_Retried ==
  /\ srv = "recv"
  /\ srv' = "check"
  /\ UNCHANGED <<info, items, redraw, inbox, up, report, screen, importer>>
ConnectionLost ==
  /\ srv = "recv"
  /\ srv' = "finish" /\ up' = [up EXCEPT !.failed = TRUE]
  /\ UNCHANGED <<info, items, redraw, inbox, report, screen, importer>>

vcm_queue_progress(i, received, sidecar) ==
  LET value == received + IF sidecar /\ items[i].media_ready THEN items[i].size ELSE 0
  IN  /\ transferred' = (transferred - items[i].received) + value
      /\ items' = [items EXCEPT ![i].received = value]
      /\ redraw' = TRUE
      /\ UNCHANGED <<qid, count, imported, failed, importing, syncing, cancelled>>

\* A block arrives.  If writing it fails the loop still counts its bytes.
Chunk(size, written) ==
  /\ srv' = "check"
  /\ up' = [up EXCEPT !.got = @ + size, !.failed = ~written]
  /\ vcm_queue_progress(up.i, up.got + size, up.sidecar)
  /\ UNCHANGED <<inbox, report, screen, importer>>

\* Short, or one of sync, close and rename failed: the partial is removed.
UploadFailed ==
  /\ srv = "finish"
  /\ vcm_queue_received(-1)
  /\ UNCHANGED inbox

\* Renamed into the inbox; the device sync that follows may still fail.
UploadPublished(error) ==
  /\ srv = "finish"
  /\ ~up.failed /\ up.got = Expected(up)
  /\ inbox' = inbox \cup {Stored(up)}
  /\ vcm_queue_received(error)

Receive ==
  \/ UploadRefused \/ UploadOpened \/ LoopCheck \/ ConnectionLost \/ UploadFailed
  \/ \E error \in {0, -1} : UploadPublished(error)
  \/ /\ srv = "recv"
     /\ \E size \in 1 .. Expected(up) - up.got, written \in BOOLEAN : Chunk(size, written)

-----------------------------------------------------------------------------
(* send_status: the counters first, then every item under a lock of its    *)
(* own.                                                                    *)

StatusRequest ==
  /\ srv = "idle" /\ ~stop
  /\ srv' = "status"
  /\ report' = [imported |-> imported, failed |-> failed, syncing |-> syncing, listed |-> <<>>]
  /\ UNCHANGED <<info, items, redraw, inbox, up, screen, importer>>

StatusItem_CountersLate ==
  /\ srv = "status" /\ Len(report.listed) < count
  /\ report' = [report EXCEPT !.listed = Append(@, items[Len(@) + 1].state),
                              !.imported = imported]
  /\ UNCHANGED <<info, items, redraw, inbox, srv, up, screen, importer>>
StatusItem ==
  /\ srv = "status" /\ Len(report.listed) < count
  /\ report' = [report EXCEPT !.listed = Append(@, items[Len(@) + 1].state)]
  /\ UNCHANGED <<info, items, redraw, inbox, srv, up, screen, importer>>

StatusSent ==
  /\ srv = "status" /\ Len(report.listed) = count
  /\ srv' = "idle" /\ report' = NoReport
  /\ UNCHANGED <<info, items, redraw, inbox, up, screen, importer>>

Status == StatusItem \/ StatusSent

-----------------------------------------------------------------------------
(* The UI thread.                                                          *)

\* queue_dialog_update: when the progress dialog is wanted.
Active ==
  /\ count # 0 /\ ~cancelled
  /\ ~(imported + failed = count /\ ~syncing)
  /\ transferred > 0 \/ syncing

\* g_worker once a finished worker is joined and deleted.
Joined_Never == worker
Joined == IF worker = "finished" THEN "none" ELSE worker

\* Joins a finished worker, reads the queue, draws it if its revision moved
\* (opening the dialog may fail) and decides whether a worker is due.
PollImport(opens) ==
  /\ ui = "poll"
  /\ worker' = Joined
  /\ ui' = IF syncing /\ Joined = "none" THEN "start" ELSE "poll"
  /\ dialog' = IF redraw THEN Active /\ (dialog \/ opens) ELSE dialog
  /\ redraw' = FALSE
  /\ UNCHANGED <<info, items, inbox, server, stop, wi, job>>

StartWorker_AtSecond ==
  /\ ui = "start"
  /\ ui' = "poll" /\ worker' = "next" /\ wi' = 2 /\ job' = NoFile
  /\ UNCHANGED <<info, items, redraw, inbox, server, dialog, stop>>
StartWorker ==
  /\ ui = "start"
  /\ ui' = "poll" /\ worker' = "next" /\ wi' = 1 /\ job' = NoFile
  /\ UNCHANGED <<info, items, redraw, inbox, server, dialog, stop>>

StartFails ==
  /\ ui = "start"
  /\ ui' = "abandon"
  /\ UNCHANGED <<info, items, redraw, inbox, server, dialog, stop, importer>>

Abandon ==
  /\ ui = "abandon"
  /\ ui' = "poll"
  /\ vcm_queue_cancel
  /\ UNCHANGED <<server, dialog, stop, importer>>

queue_on_dialog_action ==
  /\ ui = "poll" /\ dialog
  /\ vcm_queue_cancel
  /\ UNCHANGED <<server, screen, importer>>

\* The framework's Run returned: PollImport is unregistered, g_stop is set.
Exit ==
  /\ ui = "poll"
  /\ ui' = "exit" /\ stop' = TRUE
  /\ UNCHANGED <<info, items, redraw, inbox, server, dialog, importer>>

-----------------------------------------------------------------------------
(* vcm_queue_run_imports, on the worker thread.                            *)

WorkerEnds ==
  /\ worker = "next" /\ (wi > count \/ cancelled)
  /\ syncing' = FALSE /\ importing' = 0 /\ redraw' = TRUE
  /\ worker' = "ending" /\ wi' = 0
  /\ UNCHANGED <<qid, count, items, imported, failed, cancelled, transferred,
                 inbox, server, screen, job>>

WorkerSkips ==
  /\ worker = "next" /\ wi <= count /\ ~cancelled
  /\ items[wi].state # "received"
  /\ wi' = wi + 1
  /\ UNCHANGED <<info, items, redraw, inbox, server, screen, worker, job>>

WorkerTakes ==
  /\ worker = "next" /\ wi <= count /\ ~cancelled
  /\ items[wi].state = "received"
  /\ items' = [items EXCEPT ![wi].state = "importing"]
  /\ importing' = wi /\ redraw' = TRUE
  /\ worker' = "import" /\ job' = items[wi].file
  /\ UNCHANGED <<qid, count, imported, failed, syncing, cancelled, transferred,
                 inbox, server, screen, wi>>

\* vcm_sync_import (ImportJournal) may have moved or removed the upload
\* whether it succeeds or fails, and leaves it where an ID was done before.
WorkerReturns(status, consumed) ==
  /\ worker = "import"
  /\ inbox' = inbox \ consumed
  /\ items' = [items EXCEPT ![wi].error = status,
                            ![wi].state = IF status = 0 THEN "imported" ELSE "failed"]
  /\ imported' = IF status = 0 THEN imported + 1 ELSE imported
  /\ failed' = IF status = 0 THEN failed ELSE failed + 1
  /\ redraw' = TRUE
  /\ worker' = "next" /\ wi' = wi + 1 /\ job' = NoFile
  /\ UNCHANGED <<qid, count, importing, syncing, cancelled, transferred, server, screen>>

\* EntryFunction sets finished_ some time after the queue was released.
WorkerFinishes ==
  /\ worker = "ending"
  /\ worker' = "finished"
  /\ UNCHANGED <<info, items, redraw, inbox, server, screen, wi, job>>

Work ==
  \/ WorkerEnds \/ WorkerSkips \/ WorkerTakes \/ WorkerFinishes
  \/ \E status \in {0, -1}, consumed \in SUBSET {<<job, FALSE>>, <<job, TRUE>>} :
       WorkerReturns(status, consumed)

-----------------------------------------------------------------------------
\* The application has exited; nothing is left to run.
Terminated ==
  /\ ui = "exit" /\ srv = "idle" /\ worker \in {"none", "finished"}
  /\ UNCHANGED vars

Request ==
  \/ \E id \in QueueIds, m \in Manifests : vcm_queue_publish(id, m)
  \/ \E s \in QueueIds \cup {Usb} :
       \/ vcm_queue_sync(s)
       \/ CancelRequest(s)
       \/ \E i \in 1 .. count, sidecar \in BOOLEAN : vcm_queue_find(s, i, sidecar)
  \/ StatusRequest

Next ==
  \/ Request \/ Receive \/ Status
  \/ \E opens \in BOOLEAN : PollImport(opens)
  \/ StartWorker \/ StartFails \/ Abandon \/ queue_on_dialog_action \/ Exit
  \/ Work
  \/ Terminated

Spec == Init /\ [][Next]_vars

\* Started requests, the worker and the UI's polling always get to run; a
\* thread start that is tried again and again succeeds in the end.
Fairness ==
  /\ WF_vars(Receive) /\ WF_vars(Status) /\ WF_vars(Work)
  /\ WF_vars(\E opens \in BOOLEAN : PollImport(opens))
  /\ WF_vars(StartWorker \/ StartFails) /\ SF_vars(StartWorker) /\ WF_vars(Abandon)

FairSpec == Spec /\ Fairness

-----------------------------------------------------------------------------
(* Properties.                                                             *)

(* Every variable has its type, and every index a thread carries from one   *)
(* critical section to the next (the upload's item, the worker's loop       *)
(* index, queue.importing) stays inside the current item table.             *)
TypeOK ==
  /\ qid \in QueueIds \cup {NoQueue} /\ count \in Nat
  /\ items \in [1 .. count -> Item]
  /\ imported \in Nat /\ failed \in Nat /\ importing \in 0 .. count
  /\ transferred \in Int
  /\ syncing \in BOOLEAN /\ cancelled \in BOOLEAN /\ redraw \in BOOLEAN
  /\ inbox \subseteq Files \X BOOLEAN
  /\ srv \in {"idle", "opening", "check", "recv", "finish", "status"}
  /\ up \in Upload /\ up.i \in 0 .. count /\ report \in Report
  /\ ui \in {"poll", "start", "abandon", "exit"}
  /\ dialog \in BOOLEAN /\ stop \in BOOLEAN
  /\ worker \in {"none", "next", "import", "ending", "finished"}
  /\ wi \in 0 .. count + 1 /\ job \in Files \cup {NoFile}

Uploading == srv \in {"opening", "check", "recv", "finish"}
Working == worker \in {"next", "import"}

(* The import worker drops the mutex while vcm_sync_import runs and then    *)
(* writes its result to items[i], an index it took before.  That slot still *)
(* holds the item it copied, marked as importing, and no other slot is      *)
(* marked so, whatever clients, the dialog and PollImport did meanwhile.    *)
ImportOwnsItsSlot ==
  /\ worker = "import" => /\ wi \in 1 .. count /\ importing = wi
                          /\ items[wi].file = job /\ items[wi].state = "importing"
  /\ \A i \in 1 .. count : items[i].state = "importing" => worker = "import" /\ i = wi

(* queue.syncing is the lock between the threads: it is set for as long as  *)
(* a worker runs and from the moment PollImport has decided, on a snapshot, *)
(* to start one; and no upload is under way while it is set.                *)
SyncingCoversTheWorker ==
  /\ Working \/ ui \in {"start", "abandon"} => syncing
  /\ ui \in {"start", "abandon"} => worker = "none"
  /\ Uploading => ~syncing

(* The item table and the two counters the clients and the screen use agree: *)
(* imported is exact, and failed never misses a failed item.                 *)
InState(s) == {i \in 1 .. count : items[i].state = s}
CountersMatchItems ==
  /\ imported = Cardinality(InState("imported"))
  /\ failed >= Cardinality(InState("failed"))

(* An item that is offered to the importer has all its files in the inbox,  *)
(* complete and published by receive_file's rename.                         *)
ImportHasItsFiles ==
  \A i \in 1 .. count : items[i].state \in {"received", "importing"} =>
    /\ <<items[i].file, FALSE>> \in inbox
    /\ items[i].subtitle # 0 => <<items[i].file, TRUE>> \in inbox

(* A status reply takes the counters before the items, each under a lock of *)
(* its own, while the worker runs on.  It never counts an import it does    *)
(* not list, and one that says no sync is running lists no import under way *)
(* and exactly the imports it counts.                                       *)
ReportIsConsistent ==
  srv = "status" /\ Len(report.listed) = count =>
    LET listed(s) == {i \in 1 .. count : report.listed[i] = s}
    IN  /\ report.imported <= Cardinality(listed("imported"))
        /\ ~report.syncing => /\ listed("importing") = {}
                              /\ report.imported = Cardinality(listed("imported"))

(* A queue that was told to sync is released again (queue.syncing is what   *)
(* keeps every later publish out), unless the application exits first.      *)
SyncEnds == syncing ~> (~syncing \/ stop)

(* Every item that was received when the import was accepted is imported or *)
(* reported as failed, unless the transfer is cancelled or the app exits.   *)
ReceivedIsSettled ==
  \A i \in 1 .. QueueMax :
    (syncing /\ i <= count /\ items[i].state = "received") ~>
      (cancelled \/ stop \/ (i <= count /\ items[i].state \in {"imported", "failed"}))

(* The one server thread always comes back from a request: an upload ends   *)
(* whatever the client, the cancel button and the storage do.               *)
RequestEnds == srv # "idle" ~> srv = "idle"

(* The queue implements the contract of TransferContract: an import run     *)
(* takes the received items one at a time and in order, nothing is uploaded *)
(* or replaced during it, and what it imported or rejected is final.        *)
Outcome(item) ==
  CASE item.state \in {"waiting", "receiving"} -> "pending"
    [] item.state = "received" -> "ready"
    [] item.state = "failed" -> IF Complete(item) THEN "rejected" ELSE "refused"
    [] OTHER -> item.state
Entries == [i \in 1 .. count |-> Outcome(items[i])]
Contract == INSTANCE TransferContract WITH
              Sizes <- {Len(m) : m \in Manifests}, entries <- Entries,
              running <- syncing, halted <- cancelled
ImplementsContract == Contract!Spec
=============================================================================
