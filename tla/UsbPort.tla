-------------------------------- MODULE UsbPort --------------------------------
(***************************************************************************)
(* The MTP responder that the plugin vcm_mtp_bridge puts in front of       *)
(* Sony's.  Sony's USB thread receives commands through an import that the *)
(* plugin's watcher hooks; recv_command_hook passes them on until it could *)
(* fetch the catalogue from the Vita application, and answers them itself  *)
(* from then on.  module_stop removes the hook at any time.                *)
(*                                                                         *)
(* An action is what a thread does up to the next call that may fail or    *)
(* block.  Session IDs appear as "a session is open", wire formats and     *)
(* properties as one unit of data, and a file as its size; a unit is what  *)
(* one handle takes.  Sony's responder, the USB driver and the host are    *)
(* external: a negative result of the receive call ends the connection,    *)
(* and a host asks for objects only in a session.                          *)
(***************************************************************************)
EXTENDS Integers, Sequences, FiniteSets

CONSTANTS
  Order,     \* the media in the order the snapshot enumerates them
  Folder,    \* the folder of each: 1 photos, 2 music, 3 videos
  MaxSize,   \* bound on the size of a file, in units
  Capacity   \* the size of g_scratch, in units

Media == {Order[i] : i \in DOMAIN Order}

ASSUME PortAssumption ==
  /\ Order \in Seq(Media)
  /\ \A i, j \in DOMAIN Order : Order[i] = Order[j] => i = j
  /\ Folder \in [Media -> 1 .. 3]
  /\ MaxSize \in Nat \ {0} /\ Capacity \in Nat \ {0}

VARIABLES
  \* the connection: a host is there, the session it has open and the one
  \* Sony's responder has; history: this responder answered on it, the hook
  \* was in place when it began
  link, host, sony, spoke, whole,
  library,                      \* the size of each file on the Vita, 0 if absent
  module, watch, hooked,        \* the plugin, its watcher thread, g_recv_hook
  \* the responder: probe.c's statics, VcmMtpServer.session, the catalogue and
  \* how many blocks are allocated for it
  g_active, g_sony_session, session, catalog, blocks,
  \* the USB thread: its place, whether its receive call went through the
  \* hook, the command and the response code
  pc, through, cmd, resp,
  \* the data phase: an open loopback socket, the file behind it and what is
  \* left of it, the announced and the sent length, send_handles' index,
  \* number found and buffer, the handles the host received
  socket, file, left, total, sent, index, found, scratch, got

connection == <<link, host, sony, spoke, whole>>
plugin == <<module, watch, hooked>>
responder == <<g_active, g_sony_session, session, catalog, blocks>>
stream == <<socket, file, left>>
data == <<total, sent, index, found, scratch, got>>
vars == <<connection, library, plugin, responder, pc, through, cmd, resp, stream, data>>

g_running == module = "started"

ALL == 0      \* VCM_MTP_ALL_HANDLES
ROOT == -1    \* VCM_MTP_ROOT_HANDLE
NoParent == 0
FolderFormat == 4
Formats == {Folder[n] : n \in Media} \cup {FolderFormat}

\* The catalogue: three folders, then the media; an entry's handle is its index.
Entry == [parent : 0 .. 3, format : Formats, size : 0 .. MaxSize,
          media : Media \cup {"none"}]
AFolder == [parent |-> NoParent, format |-> FolderFormat, size |-> 0, media |-> "none"]
Present == {i \in DOMAIN Order : library[Order[i]] > 0}
vcm_mtp_snapshot_build ==
  [h \in 1 .. 3 + Cardinality(Present) |->
     IF h <= 3 THEN AFolder
     ELSE LET n == Order[CHOOSE i \in Present : Cardinality({j \in Present : j <= i}) = h - 3]
          IN  [parent |-> Folder[n], format |-> Folder[n], size |-> library[n], media |-> n]]

vcm_mtp_catalog_get(h) == h \in DOMAIN catalog
Child(h, parent, format) ==
  /\ parent # ALL => catalog[h].parent = (IF parent = ROOT THEN NoParent ELSE parent)
  /\ format # 0 => catalog[h].format = format
vcm_mtp_catalog_children(parent, format) ==
  {h \in DOMAIN catalog : Child(h, parent, format)}

\* What a host asks for: arg is a handle, a parent or the length of an upload;
\* the session field is read in a GetDeviceInfo only.
Request(ops, args, formats, sessions) ==
  [op : ops, arg : args, format : formats, session : sessions]
Command ==
  Request({"GetDeviceInfo"}, {0}, {0}, BOOLEAN) \cup
  Request({"OpenSession", "CloseSession", "GetStorage", "Unknown", "Action"},
          {0}, {0}, {FALSE}) \cup
  Request({"GetNumObjects", "GetObjectHandles"}, -1 .. 4, {0} \cup Formats, {FALSE}) \cup
  Request({"GetObjectInfo", "GetObject", "GetThumb"},
          1 .. 4 + Len(Order), {0}, {FALSE}) \cup
  Request({"Upload"}, 1 .. MaxSize, {0}, {FALSE})
Nothing == [op |-> "Unknown", arg |-> 0, format |-> 0, session |-> FALSE]
Codes == {"OK", "error", "not_open", "already_open", "bad_handle", "unsupported"}

Init ==
  /\ link = FALSE /\ host = FALSE /\ sony = FALSE /\ spoke = FALSE /\ whole = FALSE
  /\ library \in [Media -> 0 .. MaxSize]
  /\ module = "loaded" /\ watch = "none" /\ hooked = FALSE
  /\ g_active = FALSE /\ g_sony_session = FALSE /\ session = FALSE
  /\ catalog = <<>> /\ blocks = 0
  /\ pc = "closed" /\ through = FALSE /\ cmd = Nothing /\ resp = "OK"
  /\ socket = FALSE /\ file = 0 /\ left = 0
  /\ total = 0 /\ sent = 0 /\ index = 0 /\ found = 0 /\ scratch = <<>> /\ got = <<>>

-----------------------------------------------------------------------------
(* The plugin: module_start, the watcher thread, module_stop.               *)

module_start ==
  /\ module = "loaded"
  /\ \/ module' = "started" /\ watch' = "test"
     \/ module' = "failed" /\ watch' = watch
  /\ g_sony_session' = FALSE
  /\ UNCHANGED <<connection, library, hooked, g_active, session, catalog, blocks,
                 pc, through, cmd, resp, stream, data>>

\* while (g_running && g_recv_hook < 0)
WatcherTests ==
  /\ watch = "test"
  /\ watch' = IF g_running /\ ~hooked THEN "try" ELSE "ended"
  /\ UNCHANGED <<connection, library, module, hooked, responder, pc, through,
                 cmd, resp, stream, data>>

WatcherHooks ==
  /\ watch = "try"
  /\ \/ hooked' = TRUE /\ watch' = "ended"
     \/ hooked' = FALSE /\ watch' = "test"
  /\ UNCHANGED <<connection, library, module, responder, pc, through, cmd, resp,
                 stream, data>>

StopBegins ==
  /\ module = "started" /\ module' = "waiting"
  /\ UNCHANGED <<connection, library, watch, hooked, responder, pc, through, cmd,
                 resp, stream, data>>

StopWaits_NotAtAll ==
  /\ module = "waiting" /\ module' = "ended_watcher"
  /\ UNCHANGED <<connection, library, watch, hooked, responder, pc, through, cmd,
                 resp, stream, data>>
StopWaits ==
  /\ module = "waiting" /\ watch = "ended" /\ module' = "ended_watcher"
  /\ UNCHANGED <<connection, library, watch, hooked, responder, pc, through, cmd,
                 resp, stream, data>>

\* release_catalog: the block goes, the catalogue is empty.
release_catalog ==
  /\ g_active' = FALSE /\ UNCHANGED <<g_sony_session, session>>
  /\ IF g_active THEN catalog' = <<>> /\ blocks' = blocks - 1
                 ELSE UNCHANGED <<catalog, blocks>>

StopUnhooks ==
  /\ module = "ended_watcher" /\ module' = "stopped" /\ hooked' = FALSE
  /\ release_catalog
  /\ UNCHANGED <<connection, library, watch, pc, through, cmd, resp, stream, data>>

Plugin ==
  \/ module_start \/ WatcherTests \/ WatcherHooks \/ StopBegins \/ StopWaits
  \/ StopUnhooks

-----------------------------------------------------------------------------
(* The host, the cable and the Vita's library.                             *)

\* Sony's thread starts to receive on a new connection.
Connect ==
  /\ pc = "closed" /\ link' = TRUE /\ host' = FALSE /\ sony' = FALSE
  /\ spoke' = FALSE /\ whole' = hooked
  /\ pc' = "recv" /\ through' = hooked
  /\ UNCHANGED <<library, plugin, responder, cmd, resp, stream, data>>

Unplug ==
  /\ link /\ link' = FALSE /\ host' = FALSE
  /\ UNCHANGED <<sony, spoke, whole, library, plugin, responder, pc, through, cmd,
                 resp, stream, data>>

LibraryChanges(n, size) ==
  /\ library[n] # size /\ library' = [library EXCEPT ![n] = size]
  /\ UNCHANGED <<connection, plugin, responder, pc, through, cmd, resp, stream, data>>

\* The host sends c; the original receive function returns it.
Proper(c) ==
  /\ c.session => host
  /\ c.op = "OpenSession" => ~host
  /\ c.op \notin {"GetDeviceInfo", "OpenSession"} => host
Receive(c) ==
  /\ pc = "recv" /\ link /\ Proper(c)
  /\ cmd' = c /\ pc' = IF through THEN "got" ELSE "sony"
  /\ UNCHANGED <<connection, library, plugin, responder, through, resp, stream, data>>

\* The locals of a command are gone.
DataOver ==
  /\ file' = 0 /\ total' = 0 /\ sent' = 0 /\ index' = 0 /\ found' = 0
  /\ scratch' = <<>> /\ got' = <<>>

\* Sony's thread sees the error and gives the connection up.
Closes ==
  /\ pc' = "closed" /\ cmd' = Nothing /\ resp' = "OK"
  /\ link' = FALSE /\ host' = FALSE /\ sony' = FALSE
  /\ UNCHANGED <<spoke, whole, library, plugin, through, socket, left>>
  /\ DataOver

ReceiveFails ==
  /\ pc = "recv" /\ ~link /\ Closes
  /\ IF through THEN release_catalog ELSE UNCHANGED responder

\* Whether a session is open after the command, if it was before.
SessionAfter(open) == cmd.op = "OpenSession" \/ (open /\ cmd.op # "CloseSession")

\* Sony's responder answers and receives again, through the hook if it is there.
SonyAnswers ==
  /\ pc = "sony" /\ pc' = "recv" /\ through' = hooked
  /\ sony' = SessionAfter(sony)
  /\ host' = (link /\ sony') /\ cmd' = Nothing
  /\ UNCHANGED <<link, spoke, whole, library, plugin, responder, resp, stream, data>>

-----------------------------------------------------------------------------
(* recv_command_hook.                                                      *)

\* It goes on at another place.
GoTo(place) ==
  /\ pc' = place
  /\ UNCHANGED <<connection, library, plugin, through, cmd>>

\* Sony owns the port: its session is noted and the command passed on.
PassOn ==
  /\ pc = "got" /\ ~g_active /\ cmd.op # "GetDeviceInfo" /\ GoTo("sony")
  /\ g_sony_session' = SessionAfter(g_sony_session)
  /\ UNCHANGED <<g_active, session, catalog, blocks, resp, stream, data>>

\* vcm_bridge_catalog_fetch: connect and ask, then read into a new block.
FetchFails ==
  /\ pc = "got" /\ ~g_active /\ cmd.op = "GetDeviceInfo" /\ GoTo("sony")
  /\ UNCHANGED <<responder, resp, stream, data>>
FetchBegins ==
  /\ pc = "got" /\ ~g_active /\ cmd.op = "GetDeviceInfo" /\ GoTo("fetch")
  /\ socket' = TRUE /\ blocks' = blocks + 1
  /\ UNCHANGED <<g_active, g_sony_session, session, catalog, resp, file, left, data>>
FetchBreaks_KeepsBlock ==
  /\ pc = "fetch" /\ GoTo("sony") /\ socket' = FALSE
  /\ UNCHANGED <<responder, resp, file, left, data>>
FetchBreaks ==
  /\ pc = "fetch" /\ GoTo("sony") /\ socket' = FALSE /\ blocks' = blocks - 1
  /\ UNCHANGED <<g_active, g_sony_session, session, catalog, resp, file, left, data>>

\* The catalogue is there: this responder takes over, with the open session.
TakesOver_Afresh ==
  /\ pc = "fetch" /\ GoTo("dispatch")
  /\ socket' = FALSE /\ catalog' = vcm_mtp_snapshot_build
  /\ session' = cmd.session /\ g_active' = TRUE
  /\ UNCHANGED <<g_sony_session, blocks, resp, file, left, data>>
TakesOver ==
  /\ pc = "fetch" /\ GoTo("dispatch")
  /\ socket' = FALSE /\ catalog' = vcm_mtp_snapshot_build
  /\ session' = (cmd.session \/ g_sony_session) /\ g_active' = TRUE
  /\ UNCHANGED <<g_sony_session, blocks, resp, file, left, data>>
Owned ==
  /\ pc = "got" /\ g_active /\ GoTo("dispatch")
  /\ UNCHANGED <<responder, resp, stream, data>>

\* A phase change or the response failed: the hook gives the port back.
DispatchFails_Returns ==
  /\ pc \in {"dispatch", "respond"} /\ GoTo("sony") /\ release_catalog
  /\ UNCHANGED <<resp, stream, data>>
DispatchFails ==
  /\ pc \in {"dispatch", "respond"} /\ Closes /\ release_catalog

\* The response arrives, the host follows, and the hook receives again.
send_response ==
  /\ pc = "respond" /\ link /\ pc' = "recv" /\ spoke' = TRUE
  /\ host' = IF resp = "OK" THEN SessionAfter(host) ELSE host
  /\ cmd' = Nothing /\ resp' = "OK" /\ DataOver
  /\ UNCHANGED <<link, sony, whole, library, plugin, responder, through, socket, left>>

recv_command_hook ==
  \/ PassOn \/ FetchFails \/ FetchBegins \/ FetchBreaks \/ TakesOver \/ Owned
  \/ DispatchFails \/ send_response

-----------------------------------------------------------------------------
(* vcm_mtp_server_execute.                                                 *)

\* A command is answered without data, or begins a data phase.
Answer(code) ==
  /\ resp' = code /\ GoTo("respond") /\ UNCHANGED <<stream, data>>
Begin(place, length) ==
  /\ resp' = "OK" /\ total' = length /\ GoTo(place)
  /\ UNCHANGED <<stream, sent, index, found, scratch, got>>
Asks(ops) == pc = "dispatch" /\ cmd.op \in ops

GetDeviceInfo ==
  /\ Asks({"GetDeviceInfo"}) /\ Begin("memory", 1) /\ UNCHANGED responder

OpenSession ==
  /\ Asks({"OpenSession"}) /\ session' = TRUE
  /\ Answer(IF session THEN "already_open" ELSE "OK")
  /\ UNCHANGED <<g_active, g_sony_session, catalog, blocks>>

SessionNotOpen ==
  /\ pc = "dispatch" /\ ~session
  /\ cmd.op \notin {"GetDeviceInfo", "OpenSession", "Upload", "Action"}
  /\ Answer("not_open") /\ UNCHANGED responder

CloseSession ==
  /\ Asks({"CloseSession"}) /\ session /\ session' = FALSE /\ Answer("OK")
  /\ UNCHANGED <<g_active, g_sony_session, catalog, blocks>>

\* Storage and property queries, object information: all from memory.
GetFromMemory ==
  /\ Asks({"GetStorage", "GetObjectInfo"}) /\ session
  /\ IF cmd.op = "GetStorage" \/ vcm_mtp_catalog_get(cmd.arg)
     THEN Begin("memory", 1) ELSE Answer("bad_handle")
  /\ UNCHANGED responder

Unsupported ==
  /\ Asks({"Unknown"}) /\ session /\ Answer("unsupported") /\ UNCHANGED responder

Parent(h) == h \in {ALL, ROOT} \/ (h <= 3 /\ vcm_mtp_catalog_get(h))
GetObjectHandles ==
  /\ Asks({"GetNumObjects", "GetObjectHandles"}) /\ session
  /\ IF ~Parent(cmd.arg) THEN Answer("bad_handle")
     ELSE IF cmd.op = "GetNumObjects" THEN Answer("OK")
     ELSE Begin("handles", 1 + Cardinality(vcm_mtp_catalog_children(cmd.arg, cmd.format)))
  /\ UNCHANGED responder

IsMedia(h) == vcm_mtp_catalog_get(h) /\ catalog[h].format # FolderFormat
GetObject ==
  /\ Asks({"GetObject", "GetThumb"}) /\ session
  /\ IF ~IsMedia(cmd.arg) THEN Answer("bad_handle")
     ELSE IF cmd.op = "GetObject" THEN Begin("open", catalog[cmd.arg].size)
     ELSE IF catalog[cmd.arg].parent = 1 THEN Begin("memory", 1)
     ELSE Answer("unsupported")
  /\ UNCHANGED responder

vcm_mtp_server_execute ==
  \/ GetDeviceInfo \/ OpenSession \/ SessionNotOpen \/ CloseSession
  \/ GetFromMemory \/ Unsupported \/ GetObjectHandles \/ GetObject

-----------------------------------------------------------------------------
(* vcm_mtp_engine_run: the data phase.  A failure only changes the code.    *)

\* send_data may be called with n units, and the driver takes them.
Sends(n) ==
  /\ n > 0 /\ n <= Capacity /\ n <= total - sent
  /\ link /\ sent' = sent + n
Fails(code) ==
  /\ resp' = code /\ GoTo("respond") /\ UNCHANGED <<responder, stream, data>>

\* The payload in g_scratch, or a thumbnail the application delivered.
SendMemory ==
  /\ pc = "memory" /\ Sends(total) /\ GoTo("respond")
  /\ UNCHANGED <<responder, resp, stream, total, index, found, scratch, got>>
MemoryFails == pc = "memory" /\ Fails("error")

\* send_handles: the count comes first; a full buffer is sent on the way.
HandlesBegin ==
  /\ pc = "handles" /\ index = 0 /\ index' = 1 /\ scratch' = <<total - 1>>
  /\ GoTo(pc) /\ UNCHANGED <<responder, resp, stream, total, sent, found, got>>
Listed(h) == Child(h, cmd.arg, cmd.format)
Skip ==
  /\ pc = "handles" /\ index \in DOMAIN catalog /\ ~Listed(index)
  /\ index' = index + 1 /\ GoTo(pc)
  /\ UNCHANGED <<responder, resp, stream, total, sent, found, scratch, got>>
Collect ==
  /\ pc = "handles" /\ index \in DOMAIN catalog /\ Listed(index)
  /\ Len(scratch) < Capacity
  /\ scratch' = Append(scratch, index) /\ found' = found + 1
  /\ index' = index + 1 /\ GoTo(pc)
  /\ UNCHANGED <<responder, resp, stream, total, sent, got>>
Flush ==
  /\ pc = "handles" /\ index \in DOMAIN catalog /\ Listed(index)
  /\ Len(scratch) >= Capacity /\ Sends(Len(scratch))
  /\ got' = got \o scratch /\ scratch' = <<index>> /\ found' = found + 1
  /\ index' = index + 1 /\ GoTo(pc)
  /\ UNCHANGED <<responder, resp, stream, total>>
\* The number found is compared with the number announced.
HandlesEnd ==
  /\ pc = "handles" /\ index > Len(catalog)
  /\ found = total - 1 /\ Sends(Len(scratch))
  /\ got' = got \o scratch /\ GoTo("respond")
  /\ UNCHANGED <<responder, resp, stream, total, index, found, scratch>>
HandlesFail ==
  /\ pc = "handles" /\ index > 0 /\ Fails("error")
  /\ index > Len(catalog) \/ (Listed(index) /\ Len(scratch) >= Capacity)
send_handles == HandlesBegin \/ Skip \/ Collect \/ Flush \/ HandlesEnd \/ HandlesFail

\* send_object: the application must offer a file of the catalogued size.
Opened(size) ==
  /\ socket' = TRUE /\ file' = size /\ left' = size /\ GoTo("object")
  /\ UNCHANGED <<responder, resp, data>>
vcm_bridge_stream_open_AnySize ==
  /\ pc = "open" /\ vcm_mtp_catalog_get(cmd.arg)
  /\ Opened(library[catalog[cmd.arg].media])
vcm_bridge_stream_open ==
  /\ pc = "open" /\ vcm_mtp_catalog_get(cmd.arg)
  /\ library[catalog[cmd.arg].media] = catalog[cmd.arg].size
  /\ Opened(library[catalog[cmd.arg].media])
OpenFails == pc = "open" /\ Fails("error")
ReadObject(n) ==
  /\ pc = "object" /\ sent < total /\ n <= left /\ Sends(n)
  /\ left' = left - n /\ GoTo(pc)
  /\ UNCHANGED <<responder, resp, socket, file, total, index, found, scratch, got>>
ObjectEnds(code) ==
  /\ resp' = code /\ GoTo("respond") /\ socket' = FALSE /\ left' = 0
  /\ UNCHANGED <<responder, file, data>>
ObjectSent == pc = "object" /\ sent = total /\ ObjectEnds("OK")
ObjectBreaks == pc = "object" /\ sent < total /\ ObjectEnds("error")
send_object ==
  \/ vcm_bridge_stream_open \/ OpenFails
  \/ \E n \in 1 .. Capacity : ReadObject(n)
  \/ ObjectSent \/ ObjectBreaks

vcm_mtp_engine_run == SendMemory \/ MemoryFails \/ send_handles \/ send_object

-----------------------------------------------------------------------------
(* dispatch_private: the queue's requests, through the application.         *)

\* Synchronise, cancel, the status of the queue or of an item.
PrivateAction(code) ==
  /\ Asks({"Action"}) /\ Answer(code) /\ UNCHANGED responder

UploadRefused == Asks({"Upload"}) /\ Answer("error") /\ UNCHANGED responder
UploadBegins ==
  /\ Asks({"Upload"}) /\ resp' = "OK" /\ total' = cmd.arg /\ socket' = TRUE
  /\ GoTo("upload")
  /\ UNCHANGED <<responder, file, left, sent, index, found, scratch, got>>
\* receive_private_data: a block from the host goes to the application.
UploadBlock(n) ==
  /\ pc = "upload" /\ sent < total /\ Sends(n) /\ GoTo(pc)
  /\ UNCHANGED <<responder, resp, stream, total, index, found, scratch, got>>
UploadEnds(code) ==
  /\ resp' = code /\ socket' = FALSE /\ GoTo("respond")
  /\ UNCHANGED <<responder, file, left, data>>
\* It broke: the upload is aborted and the status of its beginning kept.
UploadBreaks_Waits ==
  /\ pc = "upload" /\ link /\ sent < total /\ UploadEnds("OK")
UploadBreaks == pc = "upload" /\ sent < total /\ UploadEnds("OK")
vcm_bridge_upload_finish(code) == pc = "upload" /\ sent = total /\ UploadEnds(code)

dispatch_private ==
  \/ \E code \in {"OK", "error"} : PrivateAction(code) \/ vcm_bridge_upload_finish(code)
  \/ UploadRefused \/ UploadBegins \/ UploadBreaks
  \/ \E n \in 1 .. Capacity : UploadBlock(n)

-----------------------------------------------------------------------------
Responds ==
  SonyAnswers \/ recv_command_hook \/ vcm_mtp_server_execute
  \/ vcm_mtp_engine_run \/ dispatch_private

Next ==
  \/ Plugin \/ Connect \/ Unplug \/ ReceiveFails \/ Responds
  \/ \E n \in Media, size \in 0 .. MaxSize : LibraryChanges(n, size)
  \/ \E c \in Command : Receive(c)

Spec == Init /\ [][Next]_vars

\* Sony's thread goes on with a command it received: every call it makes ends,
\* the loopback sockets by their timeouts.
FairSpec == Spec /\ WF_vars(Responds)

-----------------------------------------------------------------------------
(* Properties.                                                             *)

Idle == {"closed", "recv"}
Dispatching == {"dispatch", "memory", "handles", "open", "object", "upload", "respond"}

TypeOK ==
  /\ link \in BOOLEAN /\ host \in BOOLEAN /\ sony \in BOOLEAN
  /\ spoke \in BOOLEAN /\ whole \in BOOLEAN
  /\ library \in [Media -> 0 .. MaxSize]
  /\ module \in {"loaded", "started", "failed", "waiting", "ended_watcher", "stopped"}
  /\ watch \in {"none", "test", "try", "ended"} /\ hooked \in BOOLEAN
  /\ g_active \in BOOLEAN /\ g_sony_session \in BOOLEAN /\ session \in BOOLEAN
  /\ catalog \in Seq(Entry) /\ blocks \in Int
  /\ pc \in Idle \cup Dispatching \cup {"sony", "got", "fetch"}
  /\ through \in BOOLEAN /\ cmd \in Command /\ resp \in Codes
  /\ socket \in BOOLEAN /\ file \in Nat /\ left \in Nat /\ total \in Nat
  /\ sent \in 0 .. total /\ index \in Nat /\ found \in Nat
  /\ scratch \in Seq(Nat) /\ got \in Seq(Nat)

(* No error path leaks: between commands no loopback socket is open, and    *)
(* while the plugin runs a block is allocated exactly if the responder is   *)
(* active, however fetches, streams, uploads and connections break off.     *)
NothingLeaks ==
  pc \in Idle \cup {"sony", "got"} =>
    ~socket /\ (g_running => blocks = IF g_active THEN 1 ELSE 0)

(* Once this responder answered on a connection, Sony's never gets another  *)
(* command of it: sessions are not mixed (as long as the plugin runs).      *)
NeverMixed == g_running /\ spoke => pc # "sony"

(* The hand-over does not cost the host its session: if the hook saw the    *)
(* whole connection, a host in a session is never told that none is open,   *)
(* whichever responder opened it.                                           *)
SessionSurvives == g_running /\ whole /\ host => resp # "not_open"

(* A data phase that ends with OK was complete: the host received the count *)
(* and exactly the handles asked for, in order, whatever the buffer's size, *)
(* and for an object the whole file, of the size the catalogue told it,     *)
(* although the library changed since the catalogue was built.              *)
DataIsComplete ==
  g_running /\ pc = "respond" /\ resp = "OK" =>
    /\ cmd.op = "GetObjectHandles" =>
         LET children == vcm_mtp_catalog_children(cmd.arg, cmd.format)
         IN  /\ Len(got) = 1 + Cardinality(children) /\ got[1] = Cardinality(children)
             /\ {got[i] : i \in 2 .. Len(got)} = children
             /\ \A i, j \in 2 .. Len(got) : i < j => got[i] < got[j]
    /\ cmd.op = "GetObject" => sent = file /\ file = catalog[cmd.arg].size

(* When module_stop returns, the hook is gone and stays away: the watcher   *)
(* cannot install it after it was removed, although it tests g_running and  *)
(* hooks in two steps.                                                      *)
StopIsFinal == module = "stopped" => ~hooked /\ watch = "ended"

(* Every command that was received is answered or ends the connection,      *)
(* although cable, application and file may go away at any point of it.     *)
CommandEnds == pc \notin Idle ~> pc \in Idle
=============================================================================
