# Vita Content Manager Pro: a TLA+ verification project

The program copies photos, music and videos between a PC and a PS Vita. A
desktop application converts the media and sends them over Wi-Fi, or over USB
through an MTP responder that runs on the Vita; an application on the Vita
queues the uploads and imports them into the Vita's own media libraries.
Paths below are relative to the repository (`src/vita/...`, `src/usb/...`,
`src/desktop/...`).

## 1. Inventory

| Component | State it keeps | Operations | Talks to |
|---|---|---|---|
| Transfer queue, `src/vita/sync_queue.c` | one queue (`VcmQueueInfo`), its items, one mutex | publish, find, progress, received, sync, cancel, run_imports, info/item snapshots | called by the three threads below |
| Wi-Fi server, `src/vita/wifi_service.c` | four volatile flags, a listener, one request | `vcm_wifi_serve`, `handle_client`, `receive_file`, `send_status`, catalogue, library | queue; flags shared with the UI |
| PAF user interface, `src/vita/paf_main.cpp`, `queue_ui.h` | worker objects, dialog slots, shell locks, last drawn revision | `PollImport`, `UsbModePressed`, dialog callbacks, start-up and shutdown | queue, server flags, import worker |
| Import, `src/vita/sync_import.c`, `media_database.c`, `music_rw_vfs.c` | inbox, journal and receipt files, library databases | `vcm_sync_import` and what it calls | vendor exporters, SQLite |
| MTP side, `src/vita/mtp_*.c`, `src/usb/*.c` | object catalogue, MTP session, USB plugin hooks | snapshot, catalogue, responder, port hand-over, loopback client | server over loopback; the host over USB |
| Library pages, `src/vita/library.c` | none | paged queries, downloads, thumbnails | SQLite |
| Desktop back end, `src/desktop/app.py`, `wifi.py`, `vcm_usb.py` | job lock, cancel event, children | convert, send, copy from the Vita, shutdown | server (HTTP), WPD helper |
| Desktop conversion, `media.py`, `subtitles.py`, `subtitle_formats/` | temporary files | ffmpeg, subtitle formats | external processes |
| Desktop UI, `ui/*.js` | selection, pages, generations | library view, send and copy dialogs | back end |
| WPD helper, `usb_wpd/main.cpp` | none | one request per process | Windows |

What is hard in this code, and hence what the properties are about:

* *Threads.* Three threads share the queue. Its mutex covers single operations
  only; whatever spans several (an upload, an import, a status report, the
  decision to start a worker) relies on `queue.syncing`, on the state of the
  item, or on the order of two writes. The server's flags have no lock at all.
* *Failure.* Every system call of an import may fail and the power may go at
  any time; the vendor's exporter cannot be undone and must not be repeated.
* *Ordering and retries.* Sidecars arrive before or after their media, uploads
  are repeated, a second queue may offer an ID that is already in the inbox.
* *Progress.* One server thread serves everybody; a queue in `syncing` keeps
  everyone else out; shutdown joins both threads.
* *Borrowed things.* The importer works with a session and a mount that another
  thread opened; SQLite is initialised by whoever comes first; a catalogue is
  sized by one query and filled by later ones.
* *Awaiting.* The page of the desktop goes on while it awaits a page, a copy or
  a conversion; the user opens another folder, edits the address, presses Stop;
  FFmpeg and the USB helper are processes that hang or are killed; other programs
  use the folder that is copied to.

`PROJECT.json` lists each hazard with its line and the properties that would
catch it.

## 2. Modules

    TransferContract <--refines-- SyncQueue <--extends-- SyncQueue_proofs
              ^                       ^------extends-- MCSyncQueue
              +------refines--- DesktopJobs <--extends-- DesktopJobs_proofs
    ImportJournal <--extends-- ImportJournal_proofs
    UsbMode       <--extends-- UsbMode_proofs
    UsbPort       <--extends-- UsbPort_proofs, MCUsbPort
    LibraryView   <--extends-- LibraryView_proofs, MCLibraryView
    MediaAccess   <--extends-- MediaAccess_proofs
    CopyFolder, Conversion <--extends-- DesktopFiles_proofs

### SyncQueue: the queue and its three threads

Variables `qid .. transferred` are `VcmQueueInfo`, `items` the item table and
`inbox` the published uploads. `srv, up, report` are the server thread: where
it is in a request, the upload it receives (`receive_file`'s locals) and the
status report under construction (`send_status`). `ui, dialog, stop` are the
UI thread, and `worker, wi, job` the import worker: its place, its loop index
and the copy of the item it imports.

An action is one critical section with the thread-local work up to the next
one; nothing outside can see that work. Requests of one critical section are
`vcm_queue_publish`, `vcm_queue_sync` and `CancelRequest`. An upload is
`vcm_queue_find`, `UploadOpened` or `UploadRefused`, then `LoopCheck`, `Chunk`
or `ConnectionLost` per block, and `UploadPublished` or `UploadFailed`. A
status report is `StatusRequest`, one `StatusItem` per item, `StatusSent`.
`PollImport` joins, reads, draws and decides; `StartWorker`, `StartFails` and
`Abandon` act on that decision later, as the code does. The worker is
`WorkerEnds`, `WorkerSkips`, `WorkerTakes`, `WorkerReturns`, `WorkerFinishes`.

Abstractions: an item's name, tags and extension are left out, sizes are small
numbers, every error code but 0 is -1. The queue's revision appears as
`redraw`, the result of the only comparison made with it. The client is
arbitrary: it may send any admitted request in any order, with the queue's
session ID or as the USB bridge, which needs none. `WorkerReturns` takes any
outcome of an import and any effect on the item's inbox files; ImportJournal
says which.

### TransferContract: what the queue promises

No threads, mutex or bytes: a batch is opened, entries become ready or refused,
a run takes the ready ones one at a time and in order, and what it imported or
rejected is final until the next batch, which never opens during a run.
`SyncQueue!Contract` is the refinement mapping: the entry's outcome is computed
from an item's state and from which of its files arrived, `running` is
`syncing`, `halted` is `cancelled`.

DesktopJobs, which sees the queue from the other end of the cable, one step per
request, has a mapping of its own (`DesktopJobs!Contract`): the queue of a second
computer, whose items it does not model, is a batch without entries.

### ImportJournal: one import and the power loss

`vcm_sync_import` step by step, for one transfer ID that is submitted several
times. `fs` is the file system as the running system sees it: where copies of
the media and of the sidecar are, whether the journal or the receipt exists,
and how many library rows name the output. `disk` is the set of file systems a
power loss may leave. An operation that is not synced adds its effect to every
member of `disk` and keeps the members without it; `sceIoSync` reduces `disk`
to what is seen; a crash picks a member.

Assumptions of this model of the device: a rename and the creation of a file
are atomic; operations that were not synced survive independently of each
other; a committed SQLite transaction is durable (`register_song_with_facts`
sets `synchronous=FULL`); the existence test of a file (`sceIoGetstat`) fails
only if the file is absent. The vendor's exporters are external: they may do
their work or not, and report success with a path, success without one, or a
failure, in any combination. `Submit` stands for an upload that was received
and offered to the worker (SyncQueue models its steps).

### UsbMode: the listener, USB mode and shutdown

`vcm_wifi_serve` from its first instruction to its return, and what the UI
thread does with it: USB mode with its dialog, locks and connection display,
and the exit. The threads share four flags without a lock; an action is one
access to them. `srv` is the server's place, `bound` the kind of socket it
holds, `peer` where its client comes from; `late` is a history variable that
counts the remote clients accepted since USB mode was switched on. A request
is one step here, except for the USB catalogue, whose end writes
`g_usb_catalog_served`.

### DesktopJobs: the calls of the page, their locks, and closing the window

Each call of `DesktopApi` that the page makes (`send_files`, `copy_from_vita`,
`convert_files`) is a thread with a place `pc[j]`, a file `pos[j]` and, for a
send, the transport `via[j]` it chose. They share two locks (`lockC`, `lockT`),
two cancel events (`stopC`, `stopT`), `_closing`, and the converted files
(`temp`, `cleaned`); `shut` is the thread of `_shutdown`. It runs in the handler of
the closing window, which holds up the page, and `evaluate_js` waits for the page:
`caught` are the calls that had found `_closing` not set and were about to show
progress, or the Vita's address, when it was set (`ShowsProgress`). Such a call
goes on only when `_shutdown` is through. The page's rules are
in the guards of `Call`, `cancel_transfer` and `stop_conversion`: one send or
conversion at a time, one copy at a time, a Cancel button that works once.

`vita` is the Vita's queue at the granularity of a request: SyncQueue shows
what lies inside one. A request fails before it arrives (`PublishFails`), is
refused, takes effect and its answer is lost (`PublishUnanswered`), or succeeds.
Over USB the bridge of `mtpif_adapter.c` stands between: it confirms a publish
whose data phase broke (`PublishMisreported`) and an upload that was aborted
(`UploadConfirmed`). `Others` are the queues of a second computer on Wi-Fi.
`asked` and `early` remember the calls whose Cancel was pressed while they ran
or before that, `lost` what went wrong on the way. `seen` is what the polling
loop of the running send read last; it is reset when that send ends.

Limits: the Vita stays in the mode it is in (UsbMode models the switch); the
thread that `cancel_transfer` starts for the bridge acts together with the
press; each call handles the files `1 .. N`.

### UsbPort: the hook, the responder and the loopback client

The plugin `vcm_mtp_bridge` hooks the function through which Sony's USB thread
receives MTP commands. `pc` follows that thread: in the receive call ("recv"),
in the hook ("got", "fetch"), executing a command ("dispatch" and the data
phases "memory", "handles", "open", "object", "upload", then "respond"), or back
in Sony's responder ("sony"). `through` says whether the receive call went
through the hook. `g_active`, `g_sony_session`, `session` and `catalog` are the
code's variables, `blocks` counts the memory blocks allocated for the catalogue,
`socket` is the loopback connection. `module`, `watch`, `hooked` are the plugin's
life: `module_start`, the watcher thread that installs the hook, `module_stop`.

The host connects and disconnects at any point, Sony's responder opens and closes
sessions (`sony`), files appear, change and vanish (`library`). History: `spoke`,
this responder answered on the connection; `whole`, the hook was in place when
the connection began.

Assumptions about what is not in the repository: a negative result of the
receive function ends the connection; a host opens a session only if it has none
and sends other commands than GetDeviceInfo only in one. Session IDs are
abstracted to "open", the payloads of property and storage queries to one unit,
the catalogue is built in one step: the three folders, then the media that are
there, in the order of the constant `Order`. `vcm_mtp_catalog_children` is the set
of the matching handles; `send_handles` visits them by counting up. After `module_stop` began the code has no
synchronisation with the thread in the hook; the properties but `StopIsFinal` are
stated for `g_running`.

### LibraryView: the view of the Vita's media

`library.js` between two awaits, with the back end and the Vita it asks.
`kind .. open` are `vitaLibrary`'s fields, `loads` the requests under way (their
generation, folder, offset and address were fixed when they were made), `alls`
the Select-all handlers that await a page, `copy` the copy under way with what it
took from the view. The Vitas hold media under numbers; over Wi-Fi an item's ID is
that number, over USB its position in the catalogue that was read when the cable
was connected. The order in which a transport lists a folder is the constant
`InOrder`: the Vita sorts by date or title (`list_query`), the PC by its own
collation, and nothing is assumed but that every medium appears once. Requests fail or are answered late and in any order; the address is
edited, the cable pulled and plugged in, the library changes. `moved`,
`replugged`, `changed` remember these since the view was opened. `TypeAddress` and
`AddressChanged` are the field's `input` and `change` events: between them the
view shows one Vita and requests go to another.

### MediaAccess: what the Vita's threads share below the queue

The UI thread (`EnsureMusicAccess`, the exit), the importer
(`mount_music_for_file_import`, `ImportSong` for an mp3, `vcm_sync_import` for
everything else) and the server (`vcm_library_audit_music`, the catalogue) with the
AppUtil session, the music mount and the photo mount: `opened`, what is open; `owns`,
what each user opened and is to close; `unowned`, what the importer opened after a
photo (`sync_import.c:117-122`) and nobody closes. `initialize_database` is `boot`,
`space` (`db_space` is set) and `ready`; the three libraries are `rows` and `files`.
An action is one call, since no lock covers any of it: the importer's VFS implements
SQLite's locks as empty functions, and rows appear and disappear between two steps of
a query. A catalogue build is `BuildBegins`, three `vcm_library_count`, `Allocate`, one
`vcm_library_enumerate` or `SidecarRow` per entry, `BuildEnds`. `MediaChange` is what
other applications do to the libraries.

AppUtil is external: the first to open gets it, everybody else is told BUSY or another
error, and shutting the session down leaves the mounts as they are. The vendor's
exporters are external too: they add file and row, or only the file, or nothing.
History: `lent`, the importer borrowed from somebody who does not keep it until the
exit; `replaced`, how often the allocator was assigned after SQLite was ready;
`quiet`, `faulted`.

### Conversion: one file through FFmpeg

The options dialog (`call`, `rows`, `stopButton`, `stopAsked`), the
`stop_conversion` calls on their way (`stopping`), `convert_files` (`step`, `sub`),
the child process with the thread that reads its reports and the bounded queue
between them (`child`, `reader`, `queued`), and the folder of each conversion
(`disk`). `plans` says what is to be done: a kept or converted photo, song or video,
and its subtitles. `After` is the order of `prepare`. A step of `prepare` tests the
event (`Stage`; `run_ffmpeg` begins without a test), then works by itself (`Works`) or
runs a process (`Popen`, `Emit`, `RunEnds`; `Terminates`, `Kills`, `Reaps`). The process
may succeed, fail, or run for ever. When a step raises, the removal of the scratch
folder, and then that of the item's folder, may fail (`Leaves`, `Except`). `caught`
says that the call was showing progress when the window closed, as in DesktopJobs.
`_shutdown`'s other lock is there.

### CopyFolder: media into a folder of the computer

The loop of `copy_from_vita` over its items: `FindName`, then per file
`Request`, `Chunk` (`download_media`) or `StartHelper`, `HelperCopies`, `PollFails`
(`copy_object` and the helper's `copy`), `Publish`, and the sidecar after its video.
`folder` maps the paths (name, number, media or `.m4t`) of the files that exist to
what they hold, with any number; a foreign program creates and deletes files of its
own (`foreign`), under numbers up to a bound that the search for a free name cannot
outrun (`InReach`). Part files have unique
names and appear as `got`. Left out: that removing a part file can fail, and the
process being killed, which leaves one behind.

## 3. Runs

| Run | Configuration | Shows |
|---|---|---|
| `sync_queue` | MCSyncQueue, `SyncQueue.cfg` | the safety of queue, threads, files, counters and report, and the refinement of TransferContract |
| `sync_queue_live` | MCSyncQueue, `SyncQueueLive.cfg` | `SyncEnds`, `ReceivedIsSettled`, `RequestEnds` |
| `import_journal` | ImportJournal, `ImportJournal.cfg` | `AtMostOneExport`, `ReceiptIsTruthful`, `NothingLost`, `SuccessIsDurable` |
| `usb_mode` | UsbMode, `UsbMode.cfg` | `OneLateClient`, `ListenerFollowsMode`, `PulledCableIsShown`, `StopIsObeyed` |
| `desktop_send` | DesktopJobs, `DesktopSend.cfg` | `ReportIsTrue`, `QueueIsFreed`, `CleanedIsUnused` |
| `desktop_live` | `DesktopLive.cfg` | `CancelStays`, `PollingEnds`, `ShutdownEnds` |
| `desktop_cancel` | `DesktopCancel.cfg` | expected violation, see section 6 |
| `usb_port` | MCUsbPort, `UsbPort.cfg` | `NothingLeaks`, `NeverMixed`, `SessionSurvives`, `DataIsComplete`, `StopIsFinal`, `CommandEnds` |
| `library_view` | MCLibraryView, `LibraryView.cfg` | `OneFolder`, `OneLoadPerView`, `PagingIsComplete`, `CopyGetsWhatWasShown` |
| `media_access` | MediaAccess, `MediaAccess.cfg` | `AccessIsKept`, `ArenaSettles`, `CatalogFits`, `QuietBuildIsComplete` |
| `conversion` | Conversion, `Conversion.cfg` | `RowMatchesDisk`, `StopEnds` |
| `copy_folder` | CopyFolder, `CopyFolder.cfg` | `FolderMatchesReport` |

Bounds, and why they are enough:

* `sync_queue`: a queue of a two-block song and a subtitled video, and one of a
  single item that offers the video's ID again. Two items give the worker
  something to do before and after any item, two blocks put a cancel between
  blocks, the sidecar comes before or after its media, and the second queue
  has fewer items and meets a file that exists. `MaxFailed` (2) stops uploads
  from starting once so many failures are counted, which allows a repeated
  failure of one item. One queue ID suffices: the ID only admits requests, and
  the USB session is admitted without one.
* `import_journal`: three submissions and two power losses, all four kinds of
  item. A third submission meets whatever the second left after a crash; the
  proofs lift the bounds.
* `usb_mode`: finite without bounds but for `late`, which counts to 2 where
  the property allows 1.

* `desktop_send`: two files, one with a sidecar, so that a failure has a file
  before and one after it; a conversion; a second computer that replaces the
  queue and leaves its own behind.
* `desktop_live`: a send and a copy that compete for the transfer lock, and a
  second computer.
* `usb_port`: one photo, so four handles with the folders, and a buffer of two
  units: the count and the handles take three sends, the last one not full. A
  file of up to two units is sent in one or two reads and can be shorter or
  longer than catalogued. Connections are unbounded.

* `library_view`: two Vitas with the same numbers, one on the cable; two photos
  and a song, pages of one item, so that a folder takes two pages and a deleted
  first photo shifts the second; two views, so that answers for the first arrive
  in the second; two changes of library, cable or address together. The largest
  run, 2.4 million states; the proofs lift all of these bounds.
* `media_access`: five media, a video with a sidecar that is there and one that
  comes, a song whose name is refused; two changes, by imports or other applications,
  while one catalogue after the other is built. A count before and an enumeration after a change meet with one
  change; the second lets the first be undone.
* `conversion`: two conversions, so that a late stop and a leftover event meet the
  next one; all kinds and subtitles; a report queue of one place, which is full
  and empty in turn (the code's 8 adds nothing: a full queue drops the report).
* `copy_folder`: three media that all want the same name, two of them videos with
  sidecars; files of two chunks; two foreign files, one for the media's name and
  one for the sidecar's.

Deadlock is checked in every run. The exited application (`Terminated`),
the idle importer (`Rest`) and the desktop with nothing left to do
(`Finished`) are explicit stuttering steps, as are the ends of
MediaAccess (`Done`), Conversion (`Closed`) and CopyFolder (`Ended`). One deadlock
of the code is a stuttering step too, in DesktopJobs and Conversion (`Hangs`): page,
call and `_shutdown` wait for each other (section 6).

Fairness, and what in the code justifies it:

* started requests (`Receive`, `Status`) and the worker (`Work`): each thread is
  runnable and its blocking calls end, sockets by their 10 second timeouts;
* `PollImport`: the framework calls it on every frame until the exit;
* `StartWorker` is strongly fair: `PollImport` tries again on every poll while
  `syncing` is set and no worker exists, and a thread start that is tried again
  and again is assumed to succeed in the end. Without that `syncing` stays set;
* `SwitchListener` is strongly fair for the same reason: the loop retries every
  250 ms;
* the desktop's threads run as long as the page answers `evaluate_js`: a call that
  is `caught` has no enabled step until `_shutdown` is through, so nothing is
  assumed of it. `_shutdown` obtains locks that are released again and again
  (`ShutdownLocks` is strongly fair); every request has a timeout. Nobody needs to
  close the window: `_shutdown` is fair once it began;
* `PollingEnds` states that it needs the Vita's import thread (`VitaImports`);
* `Responds` in UsbPort: Sony's thread goes on with a command; its loopback
  sockets have 5 second timeouts and the driver's calls return when the cable
  is gone;
* Conversion: the back end's threads, unless caught, and the pipe's reader run. FFmpeg owes
  nothing, not even to end on terminate; kill is taken to work;
* clients, the user, the cable and the power owe nothing.

## 4. Properties

Queue (`SyncQueue.tla`):

* `ImportOwnsItsSlot`: the worker's write after its unlocked import hits the
  item it copied.
* `SyncingCoversTheWorker`: `syncing` is set from the decision to start a worker
  to its last access, and no upload is under way meanwhile.
* `CountersMatchItems`: `imported` is exact, `failed` never misses an item.
  It is not exact: an item that fails twice counts twice (hazard at
  `sync_queue.c:157`), so `imported + failed` may exceed `count`.
* `ImportHasItsFiles`, `ReportIsConsistent`; `ImplementsContract`; and for
  progress `SyncEnds`, `ReceivedIsSettled`, `RequestEnds`.

Import: `AtMostOneExport`, `ReceiptIsTruthful`, `NothingLost`,
`SuccessIsDurable`. USB mode: `OneLateClient`, `ListenerFollowsMode`,
`PulledCableIsShown`, `StopIsObeyed`.

Desktop:

* `ReportIsTrue`: a send that returns normally and is not cancelled leaves each
  of its files imported or failed on the Vita, in its own queue, even with a second
  computer replacing queues meanwhile.
* `QueueIsFreed`: a send that ended leaves no queue behind that keeps the next
  one out, unless the request that should have freed it was lost.
* `CancelStays`: a Cancel pressed while a transfer runs is not erased by another
  call.
* `CleanedIsUnused`: the temporary files are removed only when no call uses them,
  and none begins to afterwards.
* `PollingEnds` (over Wi-Fi): a send that waits for the import ends, unless the
  closing window caught it.
* `ShutdownEnds`: once the window is being closed, `_shutdown` removes the folder,
  unless a call that holds one of the locks was caught (`Stuck`). The exception is
  real: without it TLC finds the call in `evaluate_js`. The property says that it is
  the only one: a call that was not caught gives its lock back, although a late one
  erases the cancel event, and a caught call without a lock holds up nobody.

USB port:

* `NeverMixed`: once this responder answered on a connection, Sony's gets no
  command of it, whatever fails.
* `SessionSurvives`: the hand-over in the middle of a session does not lose it.
* `DataIsComplete`: handles and objects answered with OK arrived completely,
  although the buffer is small, reads are short and the library changes.
* `NothingLeaks`, `StopIsFinal`, `CommandEnds`.

Library view:

* `OneFolder`: a page that arrives late is never shown in another folder.
* `OneLoadPerView`: `loading` is true exactly while a request of the open view is
  under way, although requests of earlier views end meanwhile.
* `PagingIsComplete`: what ends without a change shows every medium once, in order.
* `CopyGetsWhatWasShown`: a copy fetches what the user saw under that ID. Its two
  exceptions are real: TLC finds a counterexample without either.

Shared access on the Vita:

* `AccessIsKept`: what is open is what one owner is going to close and what photo
  imports left open (`unowned`), never both; nobody closes what another opened, so
  that the exit leaves only the latter; and the import of a song keeps session and
  mount to its end. The exception (`lent`) is real: the audit, or a UI whose mount
  fails, closes what the importer borrowed.
* `ArenaSettles`: `initialize_database` has no lock, and a second thread can replace
  the allocator under a SQLite that is ready. The property bounds that: it happens at
  most once, only through a thread that had passed the tests before SQLite became
  ready, and never after that thread is through. The blocks that failed
  initialisations leak before that are not bounded, in the code either.
* `CatalogFits`, `QuietBuildIsComplete`: built while the libraries change, the
  catalogue never leaves its block; built while they do not, it is complete.

Desktop files:

* `RowMatchesDisk`: "Prepared and verified" and "partial output removed" are true,
  no process or reader outlives its step, and a scratch folder only where it could not
  be removed and the row says failed.
* `StopEnds`: Stop ends the conversion although FFmpeg hangs, unless the closing window
  catches it. It rests on the page, which enables the button only after the event was
  cleared.
* `FolderMatchesReport`: no foreign file is replaced, and a call that returned has
  named exactly the files it left.

Each has, in
`PROJECT.json`, a mutation of the modelled code that breaks it.

## 5. Proofs

All for every value of the constants, checked by TLAPS. Every safety property of a
passing run, invariant or action property, is the statement of a theorem. So is the
type invariant of each of the nine detailed modules, and `LocksFollowDialog`;
being proved, these are not repeated in the runs (TLC confirmed each on the run's
instance before it was proved). The two refinements of TransferContract are proved
step by step.

The bounds of a model (`MaxViews`, `MaxForeign`, `MaxFailed` and so on) stand in
guards and are constants without an upper limit, so a theorem covers behaviours of
any length.

### The queue: `SyncQueue_proofs`

* `Spec => []Inv`, from it `TypeOK`, `ImportOwnsItsSlot`, `SyncingCoversTheWorker`,
  `CountersMatchItems`, `ImportHasItsFiles`. None is inductive alone. `Inv` adds
  `ThreadsInv` (what each thread's local state says of the item it works on; an
  upload's file is still wanted) and `ItemsInv` (`Sound`: a file that an item claims
  to have is in the inbox until the worker took the item). The argument turns on
  `syncing`: only publish, which needs `~syncing`, changes the table, and only an
  upload, which ends before a sync is accepted, moves items to `received`.
* `Refinement`: `Spec => Contract!Spec`. Every critical section is shown to be a step
  of TransferContract or a stutter. Two of the contract's promises are not visible in
  the queue's variables: that a run takes the ready entries in order, and that it
  closes only when none is left. Both follow from `Passed`: no item before the
  worker's index is in `received`. It holds because nothing becomes `received` during
  a run.
* `StatusReply`: a report is made of counters and of items read later, one by one.
  `ReportInv` compares the counters with `Seen`, the items that are listed as
  imported together with the ones not yet listed that are imported. `Seen` only
  grows while the worker runs, and does not change if no sync was running at the
  start, since a sync is accepted by the same thread.

### The import and USB mode

* `ImportJournal_proofs`: the invariant is about every member of `disk`, since
  a crash makes any of them the file system. Each is `Good` (a row only under a
  journal, a receipt only with all it vouches for, nothing uploaded lost), and
  `PlaceInv` says what the import has established at each place, of all members
  or, between two syncs, of the view. Lemmas `Jump`, `ErrorReturn` and
  `Success` reduce an action to what it does to the files.
* `UsbMode_proofs`: `SocketInv` (an open socket is of the kind `loopback_only`
  says) and `LateInv` (where `accept` may let a remote client in while USB mode
  is on, none got in yet) make `OneLateClient` inductive.

### Shared access on the Vita: `MediaAccess_proofs`

* `AccessKept` from `PlacesInv`: what each user owns at each of its places, and that
  an importer which borrowed did so from a UI that keeps what it owns until the exit
  or from a photo import, which closes nothing (or `lent` says otherwise).
* `AllocatorSettles` from `BootInv`: once SQLite is ready nobody passes the tests any
  more, and of the two threads one made it ready, so at most one is still between the
  tests and the assignment (`Inside`); it is there before the replacement and not
  after it.
* `CatalogIsBounded`: the bound is kept by `Fits`, the test in `vcm_mtp_catalog_add`,
  not by the count. `SidecarInv` ties a sidecar to the last entry.
* `CompleteBuild` from `QuietInv`: while nothing changes, the block has exactly the
  room the libraries need, and the entries are those of `Present` that the cursor has
  reached, in order. That the next entry fits needs counting: the entries so far are
  as many as elements of a subset of `Present`, which has at most
  `capacity - 3` (lemmas on cardinalities, hence `IsFiniteSet(Media)`, which a
  database justifies). The property is stated by what is listed and in which order,
  without a reference algorithm.

### The desktop

* `DesktopJobs_proofs`: `CancelStays` and `CleanedIsUnused` follow from the locks: a
  call is past its `with` exactly when it holds its lock, `_shutdown` holds both
  exactly while it cleans, and once `closing` is set no call reaches the statements
  that use the files. Lemmas `Move` and `Leaves` reduce an action to where its call
  goes.
* `QueueIsLeftFree` and `TrueReport` need `QueueInv`, which says for each send, by its
  place (`QueueAt`): whether the Vita's queue can be its own, how the counters it read
  last relate to the items now (`seen`), and that a queue it synchronised is `Closed`
  (every item is past its upload, and settled once the sync is over). That one send's
  requests do not disturb another's rests on the transfer lock: two sends are never
  both past their `with`. A second computer may replace the queue at any time; what
  is known is therefore always under `vita.id = j`. `TrueReport` is a theorem about
  steps: `ReportIsTrue` is an action property, the last poll read an answer that is
  still true when the call returns.
* `ContractKept`: `Spec => CallsKeepContract`. Whatever sends, Cancel buttons, a second
  computer, lost answers, the bridge's false confirmations and the closing window do to
  the queue, each request is a step of TransferContract or a stutter: no batch opens
  during a run, a run takes what was ready when it was accepted and in order, what is
  imported or rejected stays so until the next batch. The lemmas name the effect a call
  can have on the queue (`QueueEvent`) and map each effect to a contract step. Needed
  beside the locks: `QueueState` (the queue's fields and the items' states), `ViaOK`
  and, for the places, that a send is at a file or a sidecar its list has
  (`PositionOK`). The abstract queue of DesktopJobs and the threads of SyncQueue
  therefore keep one and the same contract, which is what justifies using the first as
  the environment of `send_files`; it is not proved that the second implements the
  first (SyncQueue's clients are arbitrary, DesktopJobs' are the calls). No run carries
  this property; TLC confirmed it on the instance of `desktop_send`.
* `DesktopFiles_proofs` is about the two components that leave files on the computer,
  and extends both; hence the prefix of `CopyInit`, `CopyNext`, `CopySpec`.
  + `FolderIsReported`: `FolderMatchesReport` speaks of a call that returned.
    `AccountInv` says at every moment that each file of the folder is foreign, named by
    one of the two lists, or of the item under way; `WholeInv`, `ForeignInv` and
    `PlaceInv` supply the rest. Names are found by a search without a limit.
  + `RowsAreTrue`: `RowMatchesDisk` speaks of the rows of conversions that are over.
    `FolderInv` says what each step of `prepare` finds in the folder of the conversion
    under way: nothing before it begins, a whole output from the check on, decoded once
    `verify` passed, and whole subtitles, if they were asked for, at the end.
    `CallInv` ties the step to the page's row, `PlanInv` to the plan,
    `ProcessInv` says during which steps a process, its reader and their reports exist,
    `ScratchInv` during which a scratch folder, or that its row says failed. `RowsInv` says what a
    prepared row and a stopped one leave. The one other party
    that removes folders is the closing window: `ShutInv` says that by then no call is
    inside `prepare`, and none gets there again.
* `LibraryView_proofs`: `LoadInv` (a request of the open view was made for its folder
  and address, and there is at most one, exactly while `loading`), `ShownInv` (each
  item shown is of the open folder), `PagesInv` (while nothing changed, the items are
  the first `next` of the folder, or all of it at the end), `CatalogueInv` (a position
  in the catalogue names one medium, since `Position` is strictly increasing in folder
  and number) and `CopyInv` (the IDs a copy took are those the view showed).
  `CompletePaging` is about `SubSeq` and concatenation for every page size;
  `CopyIsOfShown` about the injectivity of both kinds of ID. `TypeCorrect` adds what
  the selection, the copy and the waiting Select alls can refer to.

### USB port: `UsbPort_proofs`

* `NothingLeaks`, `NeverMixed`, `SessionSurvives`, `StopIsFinal`. `Owner` says at
  which places the responder can be active, `Plug` what the hook and the watcher do
  at each phase of the module, `Sessions` that a session the host has open is known
  here (as `session` once active, as `g_sony_session` before) but for the moment
  between a CloseSession and its answer, `Resources` that the places determine socket
  and block. Most commands only move within their data phase (lemma `InsideKeeps`).
* `CompleteData` from `DataInv`: what the host has together with what the buffer
  holds is the list so far (`HandlesSoFar`: the announced count, then exactly the
  matching handles below `index`, increasing), and a file that is sent has the
  catalogued size (`ObjectSoFar`). That `send_handles` neither stops early nor
  overflows follows from counting: it has listed as many handles as there are
  children below `index`.
* `TypeCorrect`: the two parts that say something are `sent \in 0 .. total`, no data
  phase sends more than it announced, and `catalog \in Seq(Entry)`. The latter needs
  that `vcm_mtp_snapshot_build` makes up no entry: the ranks of the media that are
  present are distinct and at most their number, so every rank is some medium's
  (`RanksAreTaken`, by the pigeonhole theorem on injections between finite sets).

### Assumptions

`QueueAssumption` (distinct IDs within a manifest, at least one item, which
`vcm_queue_publish` checks), `JournalAssumption`, `LateAssumption`, `JobsAssumption`
(the calls are distinct, at least one file), `PortAssumption` (an order of the
media, a buffer that holds something), `MediaAssumption` (finite libraries),
`CopyAssumption` (a file has a chunk), `ConversionAssumption` (at least one
conversion, a report queue with a place), `ViewAssumption` (a listing has each medium
of the folder once, a page is not empty). TLC evaluates them in the runs.

### What proving changed in the models

* `Leave` in DesktopJobs reset `seen` whenever any call returned, also a copy or a
  conversion beside a send. The counters belong to `send_files`' own loop, so it now
  resets them for a send only. `QueueInv` was not inductive before.
* The catalogue of UsbPort, the completeness of MediaAccess' catalogue and the
  positions of LibraryView were computed by sorting; they are now said by
  cardinalities and order, which is what the code's counting guarantees.
* CopyFolder had a largest number for names; it has none now.

The proofs of `RowMatchesDisk`, of `ContractKept` and of the types changed nothing in
what the models do.

### Model-checked only

All liveness, which is out of the prover's reach (`SyncEnds`, `ReceivedIsSettled`,
`RequestEnds`, `ListenerFollowsMode`, `PulledCableIsShown`, `StopIsObeyed`,
`PollingEnds`, `ShutdownEnds`, `CommandEnds`, `StopEnds`).

## 6. Findings

Stated as a run:

* `desktop_cancel`: `copy_from_vita` and `send_files` clear the cancel event when
  they get the transfer lock (`app.py:205`). A Cancel pressed before that, in
  the folder picker, the service check or behind another transfer, is erased,
  while the page says "Stopping after the current network read…". The conversion
  does not have this fault (`StopEnds`).

Seen in the models, and either excepted by name in a property or in no property:

* The client's text for -1008 says that "the upload was retained"
  (`src/desktop/wifi.py:24`). For an MP3 the upload has been renamed to
  `ux0:/music` before the verification that yields -1008 (`media_database.c:464`,
  `sync_import.c:135`) and is not put back. `NothingLost` still holds.
* `vcm_wifi_serve` begins by clearing `g_stop` (`wifi_service.c:692`). If the
  application leaves its main loop before the new thread ran that far, the stop is
  lost and the exit waits for ever in `Join`.
* Over USB an aborted upload is answered `MTP_OK` (`mtpif_adapter.c:85`) and
  `"durable":false` is accepted; over Wi-Fi `wifi.py:213` refuses it.
* A disconnect does not clear `g_sony_session`: after a session with Sony's
  responder and a replugged cable the plugin refuses the host's OpenSession with
  SESSION_ALREADY_OPEN (`probe.c:84`).
* Over USB a failure that the Vita counts twice makes `send_files` poll for ever
  (`PollingEnds` is restricted to Wi-Fi), and a publish whose answer is lost leaves
  a queue nobody cancels (`lost` in `QueueIsFreed`).
* USB mode switched on during an import can shut the AppUtil session down under the
  importer (`paf_main.cpp:76`), and so can the music audit (`lent`).
* After a photo the importer calls `sceAppUtilInit` and `sceAppUtilPhotoMount` and
  never undoes them (`sync_import.c:117-122`). If it got the session, `EnsureMusicAccess`
  is told BUSY from then on and gives up (`paf_main.cpp:68-70`): USB mode has no music
  mount for the rest of the run. A song's import takes BUSY for an answer and works.
* `initialize_database` is not protected against two threads: both may allocate, and the
  second assignment replaces the allocator of a SQLite that runs, or clears `db_space`
  when the creation fails (`replaced`). A failure after the allocation of the block
  (`media_database.c:90`, `93`) leaves it allocated, and the next call allocates another.
* When the window is closed while a call with a lock is between its test of `_closing` and
  the end of `evaluate_js` (`app.py:87`, `141`, `179`, `266`), the handler waits for the
  lock, the call for the page and the page for the handler (`Stuck`, `caught`).
* An address edited, or a cable replugged, during a copy redirects it to other media
  (`moved`, `replugged`).
* A Cancel between two items of a copy raises, and the list of what was copied is
  lost (`app.py:213`); the `partial_video` of a failed item may be a foreign file.

## 7. Not modelled

Left out for good: formats and parsers (HTTP, ID3, MTP wire encoding, the
manifest's text, subtitle formats, JSON), thumbnails, the rules for eligible media
and FFmpeg's command lines, which are pure functions of data; the SQLite VFS, which
passes calls on; the widgets; the file list of the page; the WPD helper's walk
through the device's tree; the Windows job object of `process_lifetime.py`, whose
effect is a crash of the whole application.

Not modelled because the code has nothing to check against: that a system
application opens a database after `close_media_apps` looked, what SQLite returns
from pages that change under it, and the hook's code being unloaded under Sony's
thread (`probe.c:174`, a hazard without a property in `PROJECT.json`).
