---------------------------- MODULE UsbPort_proofs ----------------------------
(***************************************************************************)
(* Who owns the port, the sessions, the sockets and the catalogue's block: *)
(* proofs for any media, sizes and capacity.  The argument follows the     *)
(* place of Sony's USB thread: Owner and Plug say what g_active and the    *)
(* hook mean at each place, Sessions relates the session the host has open *)
(* to the two this side keeps.  DataInv follows a data phase: what was     *)
(* announced, and how far the handles or the file got.                     *)
(***************************************************************************)
EXTENDS UsbPort, FiniteSetTheorems, SequenceTheorems, TLAPS

\* The places of a data phase.
InData == {"memory", "handles", "open", "object", "upload"}

Bools ==
  /\ link \in BOOLEAN /\ host \in BOOLEAN /\ sony \in BOOLEAN
  /\ spoke \in BOOLEAN /\ whole \in BOOLEAN /\ hooked \in BOOLEAN
  /\ g_active \in BOOLEAN /\ g_sony_session \in BOOLEAN /\ session \in BOOLEAN
  /\ through \in BOOLEAN /\ socket \in BOOLEAN

\* A place of the hook's code is reached through the hook, and between
\* commands nothing is left of the last one.
Owner ==
  /\ pc \in {"got", "fetch"} \cup Dispatching => through
  /\ g_active => through /\ pc \in {"recv", "got"} \cup Dispatching
  /\ g_running /\ pc \in Dispatching => g_active
  /\ g_running /\ spoke => through /\ (g_active \/ pc = "closed")
  /\ pc \notin Dispatching => resp = "OK"

\* The watcher and module_stop.
Plug ==
  /\ module = "loaded" => watch = "none" /\ ~hooked /\ ~whole /\ ~through
                          /\ ~spoke /\ blocks = 0
  /\ module \in {"ended_watcher", "stopped"} => watch = "ended"
  /\ module = "stopped" => ~hooked
  /\ watch = "try" => ~hooked
  /\ g_running /\ whole => hooked /\ through

\* The host's session and what is known of it here.
Sessions ==
  /\ pc = "fetch" => cmd.op = "GetDeviceInfo"
  /\ pc \in InData => cmd.op \notin {"OpenSession", "CloseSession"}
  /\ g_active /\ pc = "respond" /\ cmd.op = "OpenSession" => session
  /\ g_running /\ whole =>
       /\ sony => g_sony_session \/ (pc = "sony" /\ cmd.op = "CloseSession")
       /\ pc = "sony" /\ cmd.op = "OpenSession" => g_sony_session
       /\ host /\ ~g_active => sony
       /\ host /\ g_active =>
            session \/ (pc = "respond" /\ cmd.op = "CloseSession" /\ resp = "OK")
       /\ host => resp # "not_open"

Resources ==
  /\ blocks \in Int
  /\ g_running => blocks = IF g_active \/ pc = "fetch" THEN 1 ELSE 0
  /\ socket <=> pc \in {"fetch", "object", "upload"}

Inv == Bools /\ Owner /\ Plug /\ Sessions /\ Resources

(* The plugin's threads take nothing from a connection while g_running is   *)
(* set; module_stop has waited for the watcher when it removes the hook.    *)
LEMMA PluginKeeps ==
  ASSUME Inv, module_start \/ WatcherTests \/ WatcherHooks \/ StopBegins \/ StopWaits
         \/ StopUnhooks
  PROVE  Inv'
<1> USE DEF release_catalog, connection, plugin, responder, stream, data
<1>1. CASE module_start
  BY <1>1 DEF module_start, Inv, Bools, Owner, Plug, Sessions, Resources, InData,
       Dispatching, g_running
<1>2. CASE WatcherTests
  BY <1>2 DEF WatcherTests, Inv, Bools, Owner, Plug, Sessions, Resources, InData,
       Dispatching, g_running
<1>3. CASE WatcherHooks
  <2> USE <1>3 DEF WatcherHooks
  <2>1. Bools'
    BY ZenonT(60) DEF Inv, Bools
  <2>2. Owner'
    BY DEF Inv, Bools, Owner, Plug, Sessions, Resources, InData, Dispatching, g_running
  <2>3. Plug'
    BY DEF Inv, Bools, Owner, Plug, Sessions, Resources, InData, Dispatching, g_running
  <2>4. Sessions'
    BY DEF Inv, Bools, Owner, Plug, Sessions, Resources, InData, Dispatching, g_running
  <2>5. Resources'
    BY DEF Inv, Bools, Owner, Plug, Sessions, Resources, InData, Dispatching, g_running
  <2> QED
    BY <2>1, <2>2, <2>3, <2>4, <2>5 DEF Inv
<1>4. CASE StopBegins
  BY <1>4 DEF StopBegins, Inv, Bools, Owner, Plug, Sessions, Resources, InData,
       Dispatching, g_running
<1>5. CASE StopWaits
  BY <1>5 DEF StopWaits, Inv, Bools, Owner, Plug, Sessions, Resources, InData,
       Dispatching, g_running
<1>6. CASE StopUnhooks
  <2> USE <1>6 DEF StopUnhooks
  <2>1. Bools'
    BY ZenonT(60) DEF Inv, Bools
  <2>2. Owner'
    BY DEF Inv, Bools, Owner, Plug, Sessions, Resources, InData, Dispatching, g_running
  <2>3. Plug'
    BY DEF Inv, Bools, Owner, Plug, Sessions, Resources, InData, Dispatching, g_running
  <2>4. Sessions'
    BY DEF Inv, Bools, Owner, Plug, Sessions, Resources, InData, Dispatching, g_running
  <2>5. Resources'
    BY DEF Inv, Bools, Owner, Plug, Sessions, Resources, InData, Dispatching, g_running
  <2> QED
    BY <2>1, <2>2, <2>3, <2>4, <2>5 DEF Inv
<1> QED
  BY <1>1, <1>2, <1>3, <1>4, <1>5, <1>6

(* The cable, a failed receive and Sony's responder.                        *)
LEMMA HostKeeps ==
  ASSUME Inv, Connect \/ Unplug \/ ReceiveFails \/ SonyAnswers
  PROVE  Inv'
<1> USE DEF Closes, release_catalog, SessionAfter, Nothing, connection, plugin,
     responder, stream, data
<1>1. CASE Connect
  <2> USE <1>1 DEF Connect
  <2>1. Bools'
    BY ZenonT(60) DEF Inv, Bools
  <2>2. Owner'
    BY DEF Inv, Bools, Owner, Plug, Sessions, Resources, InData, Dispatching, g_running
  <2>3. Plug'
    BY DEF Inv, Bools, Owner, Plug, Sessions, Resources, InData, Dispatching, g_running
  <2>4. Sessions'
    BY DEF Inv, Bools, Owner, Plug, Sessions, Resources, InData, Dispatching, g_running
  <2>5. Resources'
    BY DEF Inv, Bools, Owner, Plug, Sessions, Resources, InData, Dispatching, g_running
  <2> QED
    BY <2>1, <2>2, <2>3, <2>4, <2>5 DEF Inv
<1>2. CASE Unplug
  <2> USE <1>2 DEF Unplug
  <2>1. Bools'
    BY ZenonT(60) DEF Inv, Bools
  <2>2. Owner'
    BY DEF Inv, Bools, Owner, Plug, Sessions, Resources, InData, Dispatching, g_running
  <2>3. Plug'
    BY DEF Inv, Bools, Owner, Plug, Sessions, Resources, InData, Dispatching, g_running
  <2>4. Sessions'
    BY DEF Inv, Bools, Owner, Plug, Sessions, Resources, InData, Dispatching, g_running
  <2>5. Resources'
    BY DEF Inv, Bools, Owner, Plug, Sessions, Resources, InData, Dispatching, g_running
  <2> QED
    BY <2>1, <2>2, <2>3, <2>4, <2>5 DEF Inv
<1>3. CASE ReceiveFails
  <2> USE <1>3 DEF ReceiveFails
  <2>1. Bools'
    BY ZenonT(60) DEF Inv, Bools
  <2>2. Owner'
    BY DEF Inv, Bools, Owner, Plug, Sessions, Resources, InData, Dispatching, g_running
  <2>3. Plug'
    BY DEF Inv, Bools, Owner, Plug, Sessions, Resources, InData, Dispatching, g_running
  <2>4. Sessions'
    BY DEF Inv, Bools, Owner, Plug, Sessions, Resources, InData, Dispatching, g_running
  <2>5. Resources'
    BY DEF Inv, Bools, Owner, Plug, Sessions, Resources, InData, Dispatching, g_running
  <2> QED
    BY <2>1, <2>2, <2>3, <2>4, <2>5 DEF Inv
<1>4. CASE SonyAnswers
  BY <1>4 DEF SonyAnswers, Inv, Bools, Owner, Plug, Sessions, Resources, InData,
       Dispatching, g_running
<1> QED
  BY <1>1, <1>2, <1>3, <1>4

(* The hook: tracking Sony's session, the hand-over, its end and a response. *)
LEMMA HookKeeps ==
  ASSUME Inv, PassOn \/ FetchFails \/ FetchBegins \/ FetchBreaks \/ TakesOver
         \/ Owned \/ DispatchFails \/ send_response
  PROVE  Inv'
<1> USE DEF GoTo, Closes, release_catalog, SessionAfter, Nothing, connection, plugin,
     responder, stream, data
<1>1. CASE PassOn
  BY <1>1 DEF PassOn, Inv, Bools, Owner, Plug, Sessions, Resources, InData,
       Dispatching, g_running
<1>2. CASE FetchFails
  BY <1>2 DEF FetchFails, Inv, Bools, Owner, Plug, Sessions, Resources, InData,
       Dispatching, g_running
<1>3. CASE FetchBegins
  BY <1>3 DEF FetchBegins, Inv, Bools, Owner, Plug, Sessions, Resources, InData,
       Dispatching, g_running
<1>4. CASE FetchBreaks
  <2> USE <1>4 DEF FetchBreaks
  <2>1. Bools'
    BY ZenonT(60) DEF Inv, Bools
  <2>2. Owner'
    BY DEF Inv, Bools, Owner, Plug, Sessions, Resources, InData, Dispatching, g_running
  <2>3. Plug'
    BY DEF Inv, Bools, Owner, Plug, Sessions, Resources, InData, Dispatching, g_running
  <2>4. Sessions'
    BY DEF Inv, Bools, Owner, Plug, Sessions, Resources, InData, Dispatching, g_running
  <2>5. Resources'
    BY DEF Inv, Bools, Owner, Plug, Sessions, Resources, InData, Dispatching, g_running
  <2> QED
    BY <2>1, <2>2, <2>3, <2>4, <2>5 DEF Inv
<1>5. CASE TakesOver
  <2> USE <1>5 DEF TakesOver, Inv
  <2>1. Bools' /\ Owner' /\ Resources'
    BY DEF Bools, Owner, Plug, Sessions, Resources, InData, Dispatching, g_running
  <2>2. Plug'
    BY DEF Plug, Owner, g_running
  <2>3. Sessions'
    BY DEF Bools, Owner, Sessions, InData, Dispatching, g_running
  <2> QED
    BY <2>1, <2>2, <2>3
<1>6. CASE Owned
  BY <1>6 DEF Owned, Inv, Bools, Owner, Plug, Sessions, Resources, InData, Dispatching,
       g_running
<1>7. CASE DispatchFails
  <2> USE <1>7 DEF DispatchFails
  <2>1. Bools'
    BY ZenonT(60) DEF Inv, Bools
  <2>2. Owner'
    BY DEF Inv, Bools, Owner, Plug, Sessions, Resources, InData, Dispatching, g_running
  <2>3. Plug'
    BY DEF Inv, Bools, Owner, Plug, Sessions, Resources, InData, Dispatching, g_running
  <2>4. Sessions'
    BY Zenon DEF Sessions, InData
  <2>5. Resources'
    BY DEF Inv, Bools, Owner, Plug, Sessions, Resources, InData, Dispatching, g_running
  <2> QED
    BY <2>1, <2>2, <2>3, <2>4, <2>5 DEF Inv
<1>8. CASE send_response
  BY <1>8 DEF send_response, Inv, Bools, Owner, Plug, Sessions, Resources, InData,
       Dispatching, g_running
<1> QED
  BY <1>1, <1>2, <1>3, <1>4, <1>5, <1>6, <1>7, <1>8

(* The commands that open, miss or close the session.                       *)
LEMMA SessionKeeps ==
  ASSUME Inv, OpenSession \/ SessionNotOpen \/ CloseSession
  PROVE  Inv'
<1> USE DEF Asks, Answer, Begin, GoTo, connection, plugin, responder, stream, data
<1>1. CASE OpenSession
  BY <1>1 DEF OpenSession, Inv, Bools, Owner, Plug, Sessions, Resources, InData,
       Dispatching, g_running
<1>2. CASE SessionNotOpen
  BY <1>2 DEF SessionNotOpen, Inv, Bools, Owner, Plug, Sessions, Resources, InData,
       Dispatching, g_running
<1>3. CASE CloseSession
  <2> USE <1>3 DEF CloseSession, Inv
  <2>1. Bools'
    BY DEF Bools
  <2>2. Owner' /\ Plug'
    BY DEF Bools, Owner, Plug, Dispatching, InData, g_running
  <2>3. Resources'
    BY DEF Resources, g_running
  <2>4. Sessions'
    BY DEF Bools, Owner, Sessions, InData, Dispatching, g_running
  <2> QED
    BY <2>1, <2>2, <2>3, <2>4
<1> QED
  BY <1>1, <1>2, <1>3

(* A step of another command: it leaves all but the data phase alone.       *)
Inside ==
  /\ pc \in InData \cup {"dispatch"} /\ cmd.op \notin {"OpenSession", "CloseSession"}
  /\ pc' \in InData \cup {"respond"} /\ resp' \in {"OK", "error", "bad_handle",
       "unsupported", resp}
  /\ socket' \in BOOLEAN /\ (socket' <=> pc' \in {"object", "upload"})
  /\ UNCHANGED <<connection, plugin, responder, through, cmd>>

LEMMA InsideKeeps == ASSUME Inv, Inside PROVE Inv'
<1> USE DEF Inside, connection, plugin, responder
<1>1. Bools'
  BY Zenon DEF Inv, Bools
<1>2. Owner' /\ Plug' /\ Resources'
  BY DEF Inv, Bools, Owner, Plug, Resources, InData, Dispatching, g_running
<1>3. Sessions'
  BY DEF Inv, Bools, Owner, Sessions, InData, Dispatching, g_running
<1> QED
  BY <1>1, <1>2, <1>3 DEF Inv

(* Every step of such a command is of that kind.                            *)
LEMMA DataKeeps ==
  ASSUME Inv, GetDeviceInfo \/ GetFromMemory \/ Unsupported \/ GetObjectHandles
              \/ GetObject \/ vcm_mtp_engine_run \/ dispatch_private
  PROVE  Inv'
<1> SUFFICES Inside
  BY InsideKeeps
<1> USE DEF Inside, Asks, Answer, Begin, GoTo, Fails, ObjectEnds, UploadEnds, Opened,
     InData,
            connection, plugin, responder, stream, data
<1>a. /\ socket <=> pc \in {"fetch", "object", "upload"}
      /\ pc \in InData => cmd.op \notin {"OpenSession", "CloseSession"}
  BY DEF Inv, Resources, Sessions
<1>b. socket \in BOOLEAN
  BY Zenon DEF Inv, Bools
<1>1. CASE GetDeviceInfo
  BY <1>1, <1>a, <1>b DEF GetDeviceInfo
<1>2. CASE GetFromMemory
  BY <1>2, <1>a, <1>b DEF GetFromMemory
<1>3. CASE Unsupported
  BY <1>3, <1>a, <1>b DEF Unsupported
<1>4. CASE GetObjectHandles
  BY <1>4, <1>a, <1>b DEF GetObjectHandles
<1>5. CASE GetObject
  BY <1>5, <1>a, <1>b DEF GetObject
<1>6. CASE SendMemory
  BY <1>6, <1>a, <1>b DEF SendMemory
<1>7. CASE MemoryFails
  BY <1>7, <1>a, <1>b DEF MemoryFails
<1>8. CASE HandlesBegin
  BY <1>8, <1>a, <1>b DEF HandlesBegin
<1>9. CASE Skip
  BY <1>9, <1>a, <1>b DEF Skip
<1>10. CASE Collect
  BY <1>10, <1>a, <1>b DEF Collect
<1>11. CASE Flush
  BY <1>11, <1>a, <1>b DEF Flush
<1>12. CASE HandlesEnd
  BY <1>12, <1>a, <1>b DEF HandlesEnd
<1>13. CASE HandlesFail
  BY <1>13, <1>a, <1>b DEF HandlesFail
<1>14. CASE vcm_bridge_stream_open
  BY <1>14, <1>a, <1>b DEF vcm_bridge_stream_open
<1>15. CASE OpenFails
  BY <1>15, <1>a, <1>b DEF OpenFails
<1>16. ASSUME NEW n \in 1 .. Capacity, ReadObject(n) PROVE Inside
  BY <1>16, <1>a, <1>b DEF ReadObject
<1>17. CASE ObjectSent
  BY <1>17, <1>a, <1>b DEF ObjectSent
<1>18. CASE ObjectBreaks
  BY <1>18, <1>a, <1>b DEF ObjectBreaks
<1>19. CASE UploadRefused
  BY <1>19, <1>a, <1>b DEF UploadRefused
<1>20. CASE UploadBegins
  BY <1>20, <1>a, <1>b DEF UploadBegins
<1>21. CASE UploadBreaks
  BY <1>21, <1>a, <1>b DEF UploadBreaks
<1>22. ASSUME NEW code \in {"OK", "error"}, PrivateAction(code) PROVE Inside
  BY <1>22, <1>a, <1>b DEF PrivateAction
<1>23. ASSUME NEW n \in 1 .. Capacity, UploadBlock(n) PROVE Inside
  BY <1>23, <1>a, <1>b DEF UploadBlock
<1>24. ASSUME NEW code \in {"OK", "error"}, vcm_bridge_upload_finish(code) PROVE Inside
  BY <1>24, <1>a, <1>b DEF vcm_bridge_upload_finish
<1> QED
  BY <1>1, <1>2, <1>3, <1>4, <1>5, <1>6, <1>7, <1>8, <1>9, <1>10, <1>11, <1>12, <1>13,
       <1>14, <1>15, <1>16, <1>17, <1>18, <1>19, <1>20, <1>21, <1>22, <1>23, <1>24
     DEF vcm_mtp_engine_run, send_handles, send_object, dispatch_private

(* A command arrives; the library changes; nothing happens.                 *)
LEMMA ReceiveKeeps ==
  ASSUME Inv, NEW c \in Command, Receive(c) PROVE Inv'
<1> USE DEF Receive, connection, plugin, responder, stream, data
<1>1. Bools'
  BY Zenon DEF Inv, Bools
<1>2. Owner' /\ Plug' /\ Resources'
  BY DEF Inv, Bools, Owner, Plug, Resources, InData, Dispatching, g_running
<1>3. Sessions'
  BY DEF Inv, Bools, Owner, Plug, Sessions, InData, Dispatching, g_running, Proper
<1> QED
  BY <1>1, <1>2, <1>3 DEF Inv

LEMMA StutterKeeps ==
  ASSUME Inv, UNCHANGED <<connection, plugin, responder, pc, through, cmd, resp,
       stream>>
  PROVE  Inv'
  BY DEF connection, plugin, responder, stream, Inv, Bools, Owner, Plug, Sessions,
       Resources, InData, Dispatching, g_running

(* The invariant holds in every reachable state.                            *)
THEOREM Invariance == Spec => []Inv
<1>1. Init => Inv
  <2> SUFFICES ASSUME Init PROVE Inv
    OBVIOUS
  <2>1. Bools
    BY Zenon DEF Init, Bools
  <2> QED
    BY <2>1 DEF Init, Inv, Bools, Owner, Plug, Sessions, Resources, InData,
         Dispatching, g_running
<1>2. Inv /\ [Next]_vars => Inv'
  <2> SUFFICES ASSUME Inv, [Next]_vars PROVE Inv'
    OBVIOUS
  <2>1. CASE Plugin
    BY <2>1, PluginKeeps DEF Plugin
  <2>2. CASE Connect \/ Unplug \/ ReceiveFails \/ SonyAnswers
    BY <2>2, HostKeeps
  <2>3. CASE recv_command_hook
    BY <2>3, HookKeeps DEF recv_command_hook
  <2>4. CASE vcm_mtp_server_execute
    BY <2>4, SessionKeeps, DataKeeps DEF vcm_mtp_server_execute
  <2>5. CASE vcm_mtp_engine_run
    BY <2>5, DataKeeps
  <2>6. CASE dispatch_private
    BY <2>6, DataKeeps
  <2>7. ASSUME NEW n \in Media, NEW size \in 0 .. MaxSize, LibraryChanges(n, size)
        PROVE  Inv'
    BY <2>7, StutterKeeps DEF LibraryChanges
  <2>8. ASSUME NEW c \in Command, Receive(c) PROVE Inv'
    BY <2>8, ReceiveKeeps
  <2>9. CASE UNCHANGED vars
    BY <2>9, StutterKeeps DEF vars
  <2> QED
    BY <2>1, <2>2, <2>3, <2>4, <2>5, <2>6, <2>7, <2>8, <2>9 DEF Next, Responds
<1> QED
  BY <1>1, <1>2, PTL DEF Spec

(* While the plugin runs no error path of fetch, stream, upload or hand-over *)
(* keeps a socket or the catalogue's block.                                  *)
THEOREM LeakFree == Spec => []NothingLeaks
<1>1. Inv => NothingLeaks
  BY DEF NothingLeaks, Idle, Inv, Bools, Owner, Plug, Sessions, Resources, InData,
       Dispatching, g_running
<1> QED
  BY <1>1, Invariance, PTL

(* Sony's responder and this one are never mixed on a connection.            *)
THEOREM NotMixed == Spec => []NeverMixed
<1>1. Inv => NeverMixed
  BY DEF NeverMixed, Inv, Bools, Owner, Plug, Sessions, Resources, InData, Dispatching,
       g_running
<1> QED
  BY <1>1, Invariance, PTL

(* A host in a session is never told that it has none: the hand-over keeps   *)
(* the session whichever responder opened it.                                *)
THEOREM SessionIsKept == Spec => []SessionSurvives
<1>1. Inv => SessionSurvives
  BY DEF SessionSurvives, Inv, Sessions
<1> QED
  BY <1>1, Invariance, PTL

(* module_stop leaves no hook behind, however it races with the watcher.     *)
THEOREM HookIsGone == Spec => []StopIsFinal
<1>1. Inv => StopIsFinal
  BY DEF StopIsFinal, Inv, Plug
<1> QED
  BY <1>1, Invariance, PTL

-----------------------------------------------------------------------------
(* The data phase.                                                         *)

\* The count, and then every child below n, in order.
Lists(all, count, children, n) ==
  /\ Len(all) >= 1 /\ all[1] = count
  /\ {all[i] : i \in 2 .. Len(all)} = {h \in children : h < n}
  /\ \A i, j \in 2 .. Len(all) : i < j => all[i] < all[j]

Children == vcm_mtp_catalog_children(cmd.arg, cmd.format)

\* send_handles: what the host has and what the buffer holds is the list so far.
HandlesSoFar ==
  /\ got \in Seq(Int) /\ scratch \in Seq(Int) /\ found \in Nat /\ index \in 0 .. Len(catalog) + 1
  /\ total = 1 + Cardinality(Children)
  /\ index = 0 => got = <<>> /\ scratch = <<>> /\ found = 0
  /\ index > 0 => /\ Lists(got \o scratch, total - 1, Children, index)
                  /\ Len(got \o scratch) = 1 + found

\* Between data phases nothing is left of the last one.
NoDataLeft ==
  pc \notin InData \cup {"respond"} => index = 0 /\ found = 0 /\ scratch = <<>> /\ got = <<>>

\* The command a data phase is of.
DataOf ==
  /\ pc = "memory" => cmd.op \notin {"GetObjectHandles", "GetObject"}
  /\ pc = "handles" => cmd.op = "GetObjectHandles"
  /\ pc \in {"open", "object"} => cmd.op = "GetObject"
  /\ pc = "upload" => cmd.op = "Upload"

CatalogOK == Len(catalog) \in Nat /\ DOMAIN catalog = 1 .. Len(catalog)

ObjectSoFar ==
  /\ pc = "open" => total = catalog[cmd.arg].size
  /\ pc = "object" => total = catalog[cmd.arg].size /\ file = total

DataInv ==
  /\ CatalogOK /\ NoDataLeft /\ DataOf
  /\ g_running => ObjectSoFar /\ (pc = "handles" => HandlesSoFar)
  /\ DataIsComplete

(* One more handle.                                                        *)
LEMMA ListGrows ==
  ASSUME NEW all \in Seq(Int), NEW count, NEW n \in Int, NEW children, children \subseteq Int,
         n \in children, Lists(all, count, children, n)
  PROVE  Lists(Append(all, n), count, children, n + 1) /\ Len(Append(all, n)) = Len(all) + 1
<1> DEFINE new == Append(all, n)
<1>1. Len(all) \in Nat /\ new \in Seq(Int) /\ Len(new) = Len(all) + 1 /\ new[Len(all) + 1] = n
      /\ \A i \in 1 .. Len(all) : new[i] = all[i]
  OBVIOUS
<1>2. Len(all) >= 1 /\ all[1] = count /\ {all[i] : i \in 2 .. Len(all)} = {h \in children : h < n}
      /\ \A i, j \in 2 .. Len(all) : i < j => all[i] < all[j]
  BY DEF Lists
<1>3. \A i \in 2 .. Len(all) : all[i] \in Int /\ all[i] < n
  BY <1>2
<1> HIDE DEF new
<1>4. Len(new) >= 1 /\ new[1] = count
  BY <1>1, <1>2
<1>5. {new[i] : i \in 2 .. Len(new)} = {h \in children : h < n + 1}
  <2>1. ASSUME NEW i \in 2 .. Len(new) PROVE new[i] \in children /\ new[i] < n + 1
    <3>1. CASE i = Len(all) + 1
      BY <1>1, <3>1
    <3>2. CASE i # Len(all) + 1
      <4>1. i \in 2 .. Len(all) /\ new[i] = all[i]
        BY <1>1, <3>2
      <4>2. all[i] \in {h \in children : h < n}
        BY <1>2, <4>1
      <4> QED
        BY <4>1, <4>2
    <3> QED
      BY <3>1, <3>2
  <2>2. ASSUME NEW h \in children, h < n + 1 PROVE \E i \in 2 .. Len(new) : h = new[i]
    <3>1. CASE h = n
      <4>1. Len(all) + 1 \in 2 .. Len(new)
        BY <1>1, <1>2
      <4> QED
        BY <1>1, <3>1, <4>1
    <3>2. CASE h # n
      <4>1. h < n
        BY <2>2, <3>2
      <4>2. PICK i \in 2 .. Len(all) : h = all[i]
        BY <1>2, <4>1
      <4>3. i \in 2 .. Len(new) /\ new[i] = all[i]
        BY <1>1
      <4> QED
        BY <4>2, <4>3
    <3> QED
      BY <3>1, <3>2
  <2> QED
    BY <2>1, <2>2
<1>6. ASSUME NEW i \in 2 .. Len(new), NEW j \in 2 .. Len(new), i < j PROVE new[i] < new[j]
  <2>1. i \in 2 .. Len(all) /\ new[i] = all[i]
    BY <1>1, <1>6
  <2>2. CASE j = Len(all) + 1
    BY <1>1, <1>3, <2>1, <2>2
  <2>3. CASE j # Len(all) + 1
    <3>1. j \in 2 .. Len(all) /\ new[j] = all[j]
      BY <1>1, <2>3
    <3> QED
      BY <1>2, <1>6, <2>1, <3>1
  <2> QED
    BY <2>2, <2>3
<1> QED
  BY <1>1, <1>4, <1>5, <1>6 DEF Lists, new

(* A handle that is no child, or the end of the catalogue.                  *)
LEMMA ListSkips ==
  ASSUME NEW all, NEW count, NEW n \in Int, NEW children, children \subseteq Int,
         n \notin children, Lists(all, count, children, n)
  PROVE  Lists(all, count, children, n + 1)
<1>0. \A h \in children : h \in Int /\ (h < n + 1 <=> h < n)
  OBVIOUS
<1>1. {h \in children : h < n + 1} = {h \in children : h < n}
  BY <1>0
<1> QED
  BY <1>1 DEF Lists

(* A catalogue is a sequence.                                              *)
LEMMA BuildIsSequence ==
  LET b == vcm_mtp_snapshot_build IN Len(b) \in Nat /\ DOMAIN b = 1 .. Len(b)
<1> DEFINE c == 3 + Cardinality(Present)
           b == vcm_mtp_snapshot_build
           T == {b[h] : h \in 1 .. c}
<1>1. IsFiniteSet(Present)
  <2>1. DOMAIN Order = 1 .. Len(Order) /\ Len(Order) \in Nat
    BY PortAssumption
  <2>2. IsFiniteSet(1 .. Len(Order))
    BY <2>1, FS_Interval
  <2> QED
    BY <2>1, <2>2, FS_Subset DEF Present
<1>2. c \in Nat
  BY <1>1, FS_CardinalityType
<1>3. DOMAIN b = 1 .. c /\ b = [h \in 1 .. c |-> b[h]]
  BY DEF vcm_mtp_snapshot_build
<1> HIDE DEF b, c
<1>4. b \in [1 .. c -> T]
  BY <1>3 DEF T
<1> HIDE DEF T
<1>5. b \in Seq(T)
  BY <1>2, <1>4, SeqDef
<1> QED
  BY <1>5 DEF b

LEMMA ChildrenFinite ==
  ASSUME CatalogOK
  PROVE  Children \subseteq Int /\ Cardinality(Children) \in Nat
<1>1. IsFiniteSet(1 .. Len(catalog))
  BY FS_Interval DEF CatalogOK
<1>2. Children \subseteq 1 .. Len(catalog)
  BY DEF Children, vcm_mtp_catalog_children, CatalogOK
<1>3. IsFiniteSet(Children)
  BY <1>1, <1>2, FS_Subset
<1> QED
  BY <1>2, <1>3, FS_CardinalityType DEF CatalogOK

(* Outside a data phase.                                                   *)
LEMMA OutsideData ==
  ASSUME pc' \notin InData \cup {"respond"}, CatalogOK',
         index' = 0, found' = 0, scratch' = <<>>, got' = <<>>
  PROVE  DataInv'
  BY DEF DataInv, NoDataLeft, DataOf, ObjectSoFar, DataIsComplete, InData

(* A data phase or a command ends without data that has to be complete.     *)
LEMMA EndsPlain ==
  ASSUME pc' = "respond", CatalogOK', cmd' = cmd,
         resp' # "OK" \/ cmd.op \notin {"GetObjectHandles", "GetObject"}
  PROVE  DataInv'
  BY DEF DataInv, NoDataLeft, DataOf, ObjectSoFar, DataIsComplete, InData

(* The plugin's and the Vita's steps: the catalogue is released only after  *)
(* g_running was reset.                                                     *)
LEMMA AroundData ==
  ASSUME Inv, DataInv, UNCHANGED <<pc, cmd, resp, data, file>>, CatalogOK',
         g_running' => pc \notin InData \cup {"respond"} \/ (g_running /\ catalog' = catalog)
  PROVE  DataInv'
<1>1. /\ pc' = pc /\ cmd' = cmd /\ resp' = resp /\ file' = file /\ total' = total /\ sent' = sent
      /\ index' = index /\ found' = found /\ scratch' = scratch /\ got' = got
  BY DEF data
<1>2. CASE pc \notin InData \cup {"respond"}
  <2>1. index = 0 /\ found = 0 /\ scratch = <<>> /\ got = <<>>
    BY <1>2 DEF DataInv, NoDataLeft
  <2> QED
    BY <1>1, <1>2, <2>1, OutsideData
<1>3. CASE pc \in InData \cup {"respond"}
  <2>1. NoDataLeft' /\ DataOf'
    BY <1>1 DEF DataInv, NoDataLeft, DataOf
  <2>2. ASSUME g_running' PROVE ObjectSoFar' /\ (pc' = "handles" => HandlesSoFar') /\ DataIsComplete'
    <3>1. g_running /\ catalog' = catalog
      BY <1>3, <2>2
    <3>2. Children' = Children
      BY <1>1, <3>1 DEF Children, vcm_mtp_catalog_children, Child
    <3>3. ObjectSoFar'
      BY <1>1, <3>1 DEF DataInv, ObjectSoFar
    <3>4. pc' = "handles" => HandlesSoFar'
      BY <1>1, <3>1, <3>2 DEF DataInv, HandlesSoFar, Lists
    <3>5. DataIsComplete'
      BY <1>1, <3>1, <3>2 DEF DataInv, DataIsComplete, Children
    <3> QED
      BY <3>3, <3>4, <3>5
  <2>3. ASSUME ~g_running' PROVE DataIsComplete'
    BY <2>3 DEF DataIsComplete, g_running
  <2> QED
    BY <2>1, <2>2, <2>3 DEF DataInv
<1> QED
  BY <1>2, <1>3

LEMMA ReleasedOK ==
  ASSUME CatalogOK, catalog' = catalog \/ catalog' = <<>>
  PROVE  CatalogOK'
  BY DEF CatalogOK

(* The threads of the plugin, the cable, the library.                       *)
LEMMA PluginKeepsData ==
  ASSUME Inv, DataInv, Plugin
  PROVE  DataInv'
<1>0. CatalogOK /\ UNCHANGED <<pc, cmd, resp, data, file>>
  BY DEF DataInv, Plugin, module_start, WatcherTests, WatcherHooks, StopBegins, StopWaits, StopUnhooks, stream
<1>1. CASE module_start
  <2>1. catalog' = catalog /\ module = "loaded"
    BY <1>1 DEF module_start
  <2>2. pc \notin InData \cup {"respond"}
    BY <2>1 DEF Inv, Plug, Owner, InData, Dispatching
  <2> QED
    BY <1>0, <2>1, <2>2, ReleasedOK, AroundData
<1>2. CASE WatcherTests \/ WatcherHooks \/ StopBegins \/ StopWaits
  <2>1. catalog' = catalog /\ (g_running' => g_running)
    BY <1>2 DEF WatcherTests, WatcherHooks, StopBegins, StopWaits, responder, g_running
  <2> QED
    BY <1>0, <2>1, ReleasedOK, AroundData
<1>3. CASE StopUnhooks
  <2>1. (catalog' = catalog \/ catalog' = <<>>) /\ ~g_running'
    BY <1>3 DEF StopUnhooks, release_catalog, g_running
  <2> QED
    BY <1>0, <2>1, ReleasedOK, AroundData
<1> QED
  BY <1>1, <1>2, <1>3 DEF Plugin

LEMMA HostKeepsData ==
  ASSUME Inv, DataInv,
         \/ Connect \/ Unplug \/ ReceiveFails \/ SonyAnswers
         \/ \E c \in Command : Receive(c)
         \/ \E n \in Media, size \in 0 .. MaxSize : LibraryChanges(n, size)
         \/ UNCHANGED vars
  PROVE  DataInv'
<1>0. CatalogOK
  BY DEF DataInv
<1>1. CASE Unplug \/ UNCHANGED vars \/ \E n \in Media, size \in 0 .. MaxSize : LibraryChanges(n, size)
  <2>1. UNCHANGED <<pc, cmd, resp, data, file>> /\ catalog' = catalog /\ g_running' = g_running
    BY <1>1 DEF Unplug, vars, LibraryChanges, stream, responder, plugin, g_running
  <2> QED
    BY <1>0, <2>1, ReleasedOK, AroundData
<1>2. CASE Connect \/ SonyAnswers \/ \E c \in Command : Receive(c)
  <2>1. pc \in {"closed", "sony", "recv"} /\ pc' \in {"recv", "got", "sony"} /\ catalog' = catalog
        /\ index' = index /\ found' = found /\ scratch' = scratch /\ got' = got
    BY <1>2 DEF Connect, SonyAnswers, Receive, responder, data
  <2>2. index = 0 /\ found = 0 /\ scratch = <<>> /\ got = <<>>
    BY <2>1 DEF DataInv, NoDataLeft, InData
  <2>3. pc' \notin InData \cup {"respond"}
    BY <2>1 DEF InData
  <2> QED
    BY <1>0, <2>1, <2>2, <2>3, ReleasedOK, OutsideData
<1>3. CASE ReceiveFails
  <2>1. pc' = "closed" /\ (catalog' = catalog \/ catalog' = <<>>)
        /\ index' = 0 /\ found' = 0 /\ scratch' = <<>> /\ got' = <<>>
    BY <1>3 DEF ReceiveFails, Closes, DataOver, release_catalog, responder
  <2> QED
    BY <1>0, <2>1, ReleasedOK, OutsideData DEF InData
<1> QED
  BY <1>1, <1>2, <1>3

(* The hook.                                                               *)
LEMMA HookKeepsData ==
  ASSUME Inv, DataInv, recv_command_hook
  PROVE  DataInv'
<1>0. CatalogOK
  BY DEF DataInv
<1>1. CASE PassOn \/ FetchFails \/ FetchBegins \/ FetchBreaks \/ TakesOver \/ Owned
  <2>1. pc \in {"got", "fetch"} /\ pc' \in {"sony", "fetch", "dispatch"}
        /\ (catalog' = catalog \/ catalog' = vcm_mtp_snapshot_build)
        /\ index' = index /\ found' = found /\ scratch' = scratch /\ got' = got
    BY <1>1 DEF PassOn, FetchFails, FetchBegins, FetchBreaks, TakesOver, Owned, GoTo, responder, data
  <2>2. index = 0 /\ found = 0 /\ scratch = <<>> /\ got = <<>>
    BY <2>1 DEF DataInv, NoDataLeft, InData
  <2>3. pc' \notin InData \cup {"respond"}
    BY <2>1 DEF InData
  <2>4. CatalogOK'
    BY <1>0, <2>1, BuildIsSequence DEF CatalogOK
  <2> QED
    BY <2>1, <2>2, <2>3, <2>4, OutsideData
<1>2. CASE DispatchFails \/ send_response
  <2>1. pc' \in {"closed", "recv"} /\ (catalog' = catalog \/ catalog' = <<>>)
        /\ index' = 0 /\ found' = 0 /\ scratch' = <<>> /\ got' = <<>>
    BY <1>2 DEF DispatchFails, send_response, Closes, DataOver, release_catalog, responder
  <2> QED
    BY <1>0, <2>1, ReleasedOK, OutsideData DEF InData
<1> QED
  BY <1>1, <1>2 DEF recv_command_hook

(* A command is answered at once, or announces its data.                   *)
LEMMA CommandKeepsData ==
  ASSUME Inv, DataInv, vcm_mtp_server_execute
  PROVE  DataInv'
<1>0. CatalogOK
  BY DEF DataInv
<1>1. pc = "dispatch" /\ cmd' = cmd /\ catalog' = catalog /\ g_running' = g_running
      /\ index' = index /\ found' = found /\ scratch' = scratch /\ got' = got
  BY DEF vcm_mtp_server_execute, GetDeviceInfo, OpenSession, SessionNotOpen, CloseSession, GetFromMemory,
         Unsupported, GetObjectHandles, GetObject, Asks, Answer, Begin, GoTo, responder, data, plugin, g_running
<1>2. index = 0 /\ found = 0 /\ scratch = <<>> /\ got = <<>> /\ CatalogOK'
  BY <1>0, <1>1, ReleasedOK DEF DataInv, NoDataLeft, InData
<1>3. CASE OpenSession \/ SessionNotOpen \/ CloseSession \/ Unsupported
  <2>1. pc' = "respond" /\ (resp' # "OK" \/ cmd.op \notin {"GetObjectHandles", "GetObject"})
    BY <1>3 DEF OpenSession, SessionNotOpen, CloseSession, Unsupported, Asks, Answer, GoTo
  <2> QED
    BY <1>1, <1>2, <2>1, EndsPlain
<1>4. CASE GetDeviceInfo \/ GetFromMemory
  <2>1. cmd.op \notin {"GetObjectHandles", "GetObject"} /\ pc' \in {"memory", "respond"}
    BY <1>4 DEF GetDeviceInfo, GetFromMemory, Asks, Answer, Begin, GoTo
  <2> QED
    BY <1>1, <1>2, <2>1 DEF DataInv, NoDataLeft, DataOf, ObjectSoFar, DataIsComplete, InData
<1>5. CASE GetObject
  <2>1. CASE pc' = "respond"
    <3>1. resp' # "OK"
      BY <1>5, <2>1 DEF GetObject, Answer, Begin, GoTo
    <3> QED
      BY <1>1, <1>2, <2>1, <3>1, EndsPlain
  <2>2. CASE pc' # "respond"
    <3>1. \/ pc' = "open" /\ cmd.op = "GetObject" /\ total' = catalog[cmd.arg].size
          \/ pc' = "memory" /\ cmd.op = "GetThumb"
      BY <1>5, <2>2 DEF GetObject, Asks, Answer, Begin, GoTo
    <3> QED
      BY <1>1, <1>2, <3>1 DEF DataInv, NoDataLeft, DataOf, ObjectSoFar, DataIsComplete, InData
  <2> QED
    BY <2>1, <2>2
<1>6. CASE GetObjectHandles
  <2>1. CASE pc' = "respond"
    <3>1. resp' # "OK" \/ cmd.op = "GetNumObjects"
      BY <1>6, <2>1 DEF GetObjectHandles, Answer, Begin, GoTo
    <3> QED
      BY <1>1, <1>2, <2>1, <3>1, EndsPlain
  <2>2. CASE pc' # "respond"
    <3>1. pc' = "handles" /\ cmd.op = "GetObjectHandles" /\ total' = 1 + Cardinality(Children)
      BY <1>6, <2>2 DEF GetObjectHandles, Asks, Answer, Begin, GoTo, Children
    <3>2. Children' = Children
      BY <1>1 DEF Children, vcm_mtp_catalog_children, Child
    <3>3. HandlesSoFar'
      <4>1. <<>> \in Seq(Int) /\ 0 \in Nat /\ 0 \in 0 .. Len(catalog) + 1
        BY <1>0 DEF CatalogOK
      <4> QED
        BY <1>1, <1>2, <3>1, <3>2, <4>1 DEF HandlesSoFar
    <3> QED
      BY <1>1, <1>2, <3>1, <3>3 DEF DataInv, NoDataLeft, DataOf, ObjectSoFar, DataIsComplete, InData
  <2> QED
    BY <2>1, <2>2
<1> QED
  BY <1>3, <1>4, <1>5, <1>6 DEF vcm_mtp_server_execute

(* send_handles: the buffer is sent when it is full, and the list goes on.  *)
LEMMA HandlesKeepData ==
  ASSUME Inv, DataInv, send_handles
  PROVE  DataInv'
<1>0. CatalogOK /\ Len(catalog) \in Nat /\ DOMAIN catalog = 1 .. Len(catalog)
  BY DEF DataInv, CatalogOK
<1>1. pc = "handles" /\ cmd' = cmd /\ catalog' = catalog /\ g_running' = g_running
  BY DEF send_handles, HandlesBegin, Skip, Collect, Flush, HandlesEnd, HandlesFail, Fails, GoTo, responder, plugin, g_running
<1>2. Children' = Children /\ CatalogOK' /\ cmd.op = "GetObjectHandles"
  <2>1. Children' = Children
    BY <1>1 DEF Children, vcm_mtp_catalog_children, Child
  <2> QED
    BY <1>0, <1>1, <2>1, ReleasedOK DEF DataInv, DataOf
<1>3. Children \subseteq Int /\ Cardinality(Children) \in Nat
  BY <1>0, ChildrenFinite
<1>4. g_running => HandlesSoFar
  BY <1>1 DEF DataInv
<1>5. ASSUME pc' = "handles", g_running => HandlesSoFar' PROVE DataInv'
  BY <1>1, <1>2, <1>5 DEF DataInv, NoDataLeft, DataOf, ObjectSoFar, DataIsComplete, InData
<1>6. CASE HandlesBegin
  <2>1. pc' = "handles" /\ index = 0 /\ index' = 1 /\ scratch' = <<total - 1>>
        /\ total' = total /\ found' = found /\ got' = got
    BY <1>1, <1>6 DEF HandlesBegin, GoTo
  <2>2. ASSUME g_running PROVE HandlesSoFar'
    <3>1. got = <<>> /\ found = 0 /\ total = 1 + Cardinality(Children) /\ total - 1 \in Int
      BY <1>3, <1>4, <2>1, <2>2 DEF HandlesSoFar
    <3>2. scratch' \in Seq(Int) /\ got' \in Seq(Int) /\ got' \o scratch' = <<total - 1>>
      BY <2>1, <3>1
    <3> DEFINE one == <<total - 1>>
    <3>3. Len(one) = 1 /\ one[1] = total - 1
      OBVIOUS
    <3>4. {h \in Children : h < 1} = {}
      <4>1. \A h \in Children : h \in 1 .. Len(catalog)
        BY <1>0 DEF Children, vcm_mtp_catalog_children
      <4> QED
        BY <1>0, <4>1
    <3> HIDE DEF one
    <3>5. Lists(one, total - 1, Children, 1)
      BY <3>3, <3>4 DEF Lists
    <3> QED
      BY <1>0, <1>1, <1>2, <2>1, <3>1, <3>2, <3>3, <3>5 DEF HandlesSoFar, Lists, one
  <2> QED
    BY <1>5, <2>1, <2>2
<1>7. CASE Skip
  <2>1. pc' = "handles" /\ index \in 1 .. Len(catalog) /\ index \notin Children /\ index' = index + 1
        /\ scratch' = scratch /\ total' = total /\ found' = found /\ got' = got
    BY <1>0, <1>1, <1>7 DEF Skip, GoTo, Listed, Children, vcm_mtp_catalog_children
  <2>2. ASSUME g_running PROVE HandlesSoFar'
    <3>1. HandlesSoFar
      BY <1>4, <2>2
    <3> DEFINE all == got \o scratch
    <3>2. Lists(all, total - 1, Children, index) /\ Len(all) = 1 + found /\ index \in Int
      BY <2>1, <3>1 DEF HandlesSoFar
    <3> HIDE DEF all
    <3>3. Lists(all, total - 1, Children, index + 1)
      BY <1>3, <2>1, <3>2, ListSkips
    <3>4. got' \o scratch' = all
      BY <2>1 DEF all
    <3>5. got \in Seq(Int) /\ scratch \in Seq(Int) /\ found \in Nat /\ total = 1 + Cardinality(Children)
      BY <3>1 DEF HandlesSoFar
    <3>6. index' \in 0 .. Len(catalog') + 1 /\ index' # 0
      BY <1>0, <1>1, <2>1
    <3> QED
      BY <1>2, <2>1, <3>2, <3>3, <3>4, <3>5, <3>6 DEF HandlesSoFar, Lists
  <2> QED
    BY <1>5, <2>1, <2>2
<1>8. CASE Collect \/ Flush
  <2>1. pc' = "handles" /\ index \in 1 .. Len(catalog) /\ index \in Children /\ index' = index + 1
        /\ total' = total /\ found' = found + 1
        /\ \/ scratch' = Append(scratch, index) /\ got' = got
           \/ scratch' = <<index>> /\ got' = got \o scratch
    BY <1>0, <1>1, <1>8 DEF Collect, Flush, GoTo, Listed, Children, vcm_mtp_catalog_children
  <2>2. ASSUME g_running PROVE HandlesSoFar'
    <3>1. HandlesSoFar /\ got \in Seq(Int) /\ scratch \in Seq(Int) /\ found \in Nat /\ index \in Int /\ index > 0
      BY <1>4, <2>1, <2>2 DEF HandlesSoFar
    <3> DEFINE all == got \o scratch
    <3>2. all \in Seq(Int) /\ Lists(all, total - 1, Children, index) /\ Len(all) = 1 + found
      BY <3>1 DEF HandlesSoFar
    <3>3. got' \in Seq(Int) /\ scratch' \in Seq(Int)
      <4>1. Append(scratch, index) \in Seq(Int) /\ <<index>> \in Seq(Int) /\ got \o scratch \in Seq(Int)
        BY <3>1
      <4> QED
        BY <2>1, <3>1, <4>1
    <3>4. got' \o scratch' = Append(all, index)
      <4>1. CASE scratch' = Append(scratch, index) /\ got' = got
        BY <3>1, <4>1
      <4>2. CASE scratch' = <<index>> /\ got' = got \o scratch
        BY <3>1, <4>2
      <4> QED
        BY <2>1, <4>1, <4>2
    <3> HIDE DEF all
    <3>5. Lists(Append(all, index), total - 1, Children, index + 1) /\ Len(Append(all, index)) = Len(all) + 1
      BY <1>3, <2>1, <3>1, <3>2, ListGrows
    <3> DEFINE new == Append(all, index)
    <3>6. got' \o scratch' = new /\ Lists(new, total - 1, Children, index + 1) /\ Len(new) = 1 + (found + 1)
      BY <3>1, <3>2, <3>4, <3>5
    <3> HIDE DEF new
    <3>7. total = 1 + Cardinality(Children)
      BY <3>1 DEF HandlesSoFar
    <3>8. index' \in 0 .. Len(catalog') + 1 /\ index' # 0 /\ found + 1 \in Nat
      BY <1>0, <1>1, <2>1, <3>1
    <3> QED
      BY <1>2, <2>1, <3>3, <3>6, <3>7, <3>8 DEF HandlesSoFar, Lists
  <2> QED
    BY <1>5, <2>1, <2>2
<1>9. CASE HandlesEnd
  <2>1. pc' = "respond" /\ index > Len(catalog) /\ found = total - 1 /\ got' = got \o scratch
    BY <1>9 DEF HandlesEnd, GoTo
  <2>2. ASSUME g_running PROVE DataIsComplete'
    <3> DEFINE all == got \o scratch
    <3>1. HandlesSoFar
      BY <1>4, <2>2
    <3>2. index \in Int /\ index > 0 /\ total - 1 = Cardinality(Children)
      BY <1>0, <1>3, <2>1, <3>1 DEF HandlesSoFar
    <3>3. Lists(all, total - 1, Children, index) /\ Len(all) = 1 + found
      BY <3>1, <3>2 DEF HandlesSoFar
    <3> HIDE DEF all
    <3>4. {h \in Children : h < index} = Children
      <4>1. \A h \in Children : h \in 1 .. Len(catalog)
        BY <1>0 DEF Children, vcm_mtp_catalog_children
      <4> QED
        BY <1>0, <2>1, <3>2, <4>1
    <3>5. got' = all
      BY <2>1 DEF all
    <3>6. /\ Len(got') = 1 + Cardinality(Children) /\ got'[1] = Cardinality(Children)
          /\ {got'[i] : i \in 2 .. Len(got')} = Children
          /\ \A i, j \in 2 .. Len(got') : i < j => got'[i] < got'[j]
      BY <2>1, <3>2, <3>3, <3>4, <3>5 DEF Lists
    <3> QED
      BY <1>1, <1>2, <3>6 DEF DataIsComplete, Children
  <2>3. ~g_running => DataIsComplete'
    BY <1>1 DEF DataIsComplete
  <2> QED
    BY <1>1, <1>2, <2>1, <2>2, <2>3 DEF DataInv, NoDataLeft, DataOf, ObjectSoFar, InData
<1>10. CASE HandlesFail
  <2>1. pc' = "respond" /\ resp' # "OK"
    BY <1>10 DEF HandlesFail, Fails, GoTo
  <2> QED
    BY <1>1, <1>2, <2>1, EndsPlain
<1> QED
  BY <1>6, <1>7, <1>8, <1>9, <1>10 DEF send_handles

(* Memory, objects and uploads.                                            *)
LEMMA StreamsKeepData ==
  ASSUME Inv, DataInv, SendMemory \/ MemoryFails \/ send_object \/ dispatch_private
  PROVE  DataInv'
<1>0. CatalogOK
  BY DEF DataInv
<1>1. cmd' = cmd /\ catalog' = catalog /\ g_running' = g_running /\ CatalogOK'
  <2>1. cmd' = cmd /\ catalog' = catalog /\ g_running' = g_running
    BY DEF SendMemory, MemoryFails, send_object, vcm_bridge_stream_open, Opened, OpenFails, ReadObject, ObjectSent,
           ObjectBreaks, ObjectEnds, dispatch_private, PrivateAction, Answer, UploadRefused, UploadBegins,
           UploadBlock, UploadEnds, UploadBreaks, vcm_bridge_upload_finish, Fails, GoTo, responder, plugin, g_running
  <2> QED
    BY <1>0, <2>1, ReleasedOK
<1>2. CASE SendMemory \/ MemoryFails
  <2>1. pc' = "respond" /\ cmd.op \notin {"GetObjectHandles", "GetObject"}
    BY <1>2 DEF SendMemory, MemoryFails, Fails, GoTo, DataInv, DataOf
  <2> QED
    BY <1>1, <2>1, EndsPlain
<1>3. CASE OpenFails \/ ObjectBreaks
  <2>1. pc' = "respond" /\ resp' # "OK"
    BY <1>3 DEF OpenFails, ObjectBreaks, ObjectEnds, Fails, GoTo
  <2> QED
    BY <1>1, <2>1, EndsPlain
<1>4. CASE vcm_bridge_stream_open
  <2>1. pc = "open" /\ pc' = "object" /\ file' = catalog[cmd.arg].size /\ total' = total
    BY <1>4 DEF vcm_bridge_stream_open, Opened, GoTo, data
  <2> QED
    BY <1>1, <2>1 DEF DataInv, NoDataLeft, DataOf, ObjectSoFar, DataIsComplete, InData
<1>5. ASSUME NEW n \in 1 .. Capacity, ReadObject(n) PROVE DataInv'
  <2>1. pc = "object" /\ pc' = "object" /\ file' = file /\ total' = total
    BY <1>5 DEF ReadObject, GoTo
  <2> QED
    BY <1>1, <2>1 DEF DataInv, NoDataLeft, DataOf, ObjectSoFar, DataIsComplete, InData
<1>6. CASE ObjectSent
  <2>1. pc = "object" /\ pc' = "respond" /\ file' = file /\ sent' = sent /\ sent = total
    BY <1>6 DEF ObjectSent, ObjectEnds, GoTo, data
  <2> QED
    BY <1>1, <2>1 DEF DataInv, NoDataLeft, DataOf, ObjectSoFar, DataIsComplete, InData
<1>7. CASE dispatch_private
  <2>1. cmd.op \notin {"GetObjectHandles", "GetObject"} /\ pc' \in {"upload", "respond"} /\ (pc' = "upload" => cmd.op = "Upload")
    BY <1>7 DEF dispatch_private, PrivateAction, Answer, Asks, UploadRefused, UploadBegins, UploadBlock, UploadEnds,
                UploadBreaks, vcm_bridge_upload_finish, GoTo, DataInv, DataOf
  <2> QED
    BY <1>1, <2>1 DEF DataInv, NoDataLeft, DataOf, ObjectSoFar, DataIsComplete, InData
<1> QED
  BY <1>2, <1>3, <1>4, <1>5, <1>6, <1>7 DEF send_object

LEMMA DataInvariance == Spec => [](Inv /\ DataInv)
<1>1. Init => DataInv
  BY DEF Init, DataInv, CatalogOK, NoDataLeft, DataOf, ObjectSoFar, DataIsComplete, InData
<1>2. Inv /\ DataInv /\ [Next]_vars => DataInv'
  BY PluginKeepsData, HostKeepsData, HookKeepsData, CommandKeepsData, HandlesKeepData, StreamsKeepData
     DEF Next, Responds, vcm_mtp_engine_run
<1> QED
  BY <1>1, <1>2, Invariance, PTL DEF Spec

(* A response OK ends a data phase that was complete: for any catalogue and *)
(* any size of g_scratch the host has the announced number of handles, all  *)
(* children in order and nothing else, or the whole file in the size the    *)
(* catalogue gave; a file that changed since is refused.                    *)
THEOREM CompleteData == Spec => []DataIsComplete
<1>1. DataInv => DataIsComplete
  BY DEF DataInv
<1> QED
  BY <1>1, DataInvariance, PTL

-----------------------------------------------------------------------------
(* Types.                                                                  *)

(* A present medium's rank among them is a number of its own, hence every   *)
(* rank is some medium's: no entry of the catalogue is made up.             *)
Ranked(i) == {j \in Present : j <= i}
LEMMA RanksAreTaken ==
  ASSUME NEW r \in 1 .. Cardinality(Present)
  PROVE  \E i \in Present : Cardinality(Ranked(i)) = r
<1> DEFINE c == Cardinality(Present)
           rank == [i \in Present |-> Cardinality(Ranked(i))]
<1>1. IsFiniteSet(Present) /\ Present \subseteq Nat
  <2>1. DOMAIN Order = 1 .. Len(Order) /\ Len(Order) \in Nat
    BY PortAssumption
  <2>2. IsFiniteSet(1 .. Len(Order))
    BY <2>1, FS_Interval
  <2>3. Present \in SUBSET (1 .. Len(Order))
    BY <2>1 DEF Present
  <2>4. IsFiniteSet(Present)
    BY <2>2, <2>3, FS_Subset
  <2>5. Present \subseteq Nat
    BY <2>1, <2>3
  <2> QED
    BY <2>4, <2>5
<1>2. c \in Nat
  BY <1>1, FS_CardinalityType
<1>3. ASSUME NEW i \in Present
      PROVE  Ranked(i) \in SUBSET Present /\ IsFiniteSet(Ranked(i)) /\ Cardinality(Ranked(i)) \in 1 .. c
  <2>1. Ranked(i) \in SUBSET Present /\ i \in Ranked(i)
    BY <1>1 DEF Ranked
  <2>2. IsFiniteSet(Ranked(i)) /\ Cardinality(Ranked(i)) <= c
    BY <1>1, <2>1, FS_Subset
  <2>3. Cardinality(Ranked(i)) \in Nat /\ Cardinality(Ranked(i)) # 0
    BY <2>1, <2>2, FS_CardinalityType, FS_EmptySet
  <2> QED
    BY <1>2, <2>1, <2>2, <2>3
<1>4. ASSUME NEW i \in Present, NEW j \in Present, i < j
      PROVE  Cardinality(Ranked(i)) # Cardinality(Ranked(j))
  <2>0. i \in Nat /\ j \in Nat /\ \A k \in Present : k \in Nat
    BY <1>1
  <2>1. j \in Ranked(j) /\ j \notin Ranked(i)
    BY <1>4, <2>0 DEF Ranked
  <2>2. ASSUME NEW k \in Ranked(i) PROVE k \in Ranked(j)
    BY <1>4, <2>0, <2>2 DEF Ranked
  <2>3. Ranked(i) \in SUBSET Ranked(j) /\ Ranked(i) # Ranked(j)
    BY <2>1, <2>2
  <2> QED
    BY <1>3, <2>3, FS_Subset
<1>5. ASSUME NEW i \in Present, NEW j \in Present, Cardinality(Ranked(i)) = Cardinality(Ranked(j))
      PROVE  i = j
  <2>1. i \in Nat /\ j \in Nat
    BY <1>1
  <2>2. ~(i < j) /\ ~(j < i)
    BY <1>4, <1>5
  <2> QED
    BY <2>1, <2>2
<1>6. rank \in Injection(Present, 1 .. c)
  <2>1. rank \in [Present -> 1 .. c]
    BY <1>3
  <2>2. \A i, j \in Present : rank[i] = rank[j] => i = j
    BY <1>5
  <2> QED
    BY <2>1, <2>2 DEF Injection, IsInjective
<1>7. IsFiniteSet(1 .. c) /\ Cardinality(1 .. c) = c
  BY <1>2, FS_Interval
<1>8. rank \in Surjection(Present, 1 .. c)
  <2> HIDE DEF rank
  <2> QED
    BY <1>6, <1>7, FS_Injection
<1>9. \E i \in Present : rank[i] = r
  <2>1. r \in 1 .. c
    OBVIOUS
  <2> HIDE DEF rank, c
  <2> QED
    BY <1>8, <2>1 DEF Surjection
<1> QED
  BY <1>9

LEMMA BuildType ==
  ASSUME library \in [Media -> 0 .. MaxSize]
  PROVE  vcm_mtp_snapshot_build \in Seq(Entry)
<1> DEFINE c == 3 + Cardinality(Present)
           b == vcm_mtp_snapshot_build
           medium(h) == Order[CHOOSE i \in Present : Cardinality({j \in Present : j <= i}) = h - 3]
<1>1. Cardinality(Present) \in Nat
  <2>1. DOMAIN Order = 1 .. Len(Order) /\ Len(Order) \in Nat
    BY PortAssumption
  <2>2. IsFiniteSet(1 .. Len(Order))
    BY <2>1, FS_Interval
  <2> QED
    BY <2>1, <2>2, FS_Subset, FS_CardinalityType DEF Present
<1>2. AFolder \in Entry
  BY PortAssumption DEF AFolder, Entry, Formats, FolderFormat, NoParent
<1>3. ASSUME NEW h \in 1 .. c, h > 3
      PROVE  [parent |-> Folder[medium(h)], format |-> Folder[medium(h)],
              size |-> library[medium(h)], media |-> medium(h)] \in Entry
  <2>1. h - 3 \in 1 .. Cardinality(Present)
    BY <1>1, <1>3
  <2>2. \E i \in Present : Cardinality({j \in Present : j <= i}) = h - 3
    BY <2>1, RanksAreTaken DEF Ranked
  <2>3. (CHOOSE i \in Present : Cardinality({j \in Present : j <= i}) = h - 3) \in Present
    BY <2>2, Zenon
  <2>4. medium(h) \in Media
    BY <2>3 DEF Present, Media
  <2> HIDE DEF medium
  <2>5. Folder[medium(h)] \in 1 .. 3 /\ Folder[medium(h)] \in Formats /\ library[medium(h)] \in 0 .. MaxSize
    BY <2>4, PortAssumption DEF Formats
  <2>6. Folder[medium(h)] \in 0 .. 3 /\ medium(h) \in Media \cup {"none"}
    BY <2>4, <2>5
  <2> QED
    BY <2>5, <2>6, Zenon DEF Entry
<1>4. c \in Nat
  BY <1>1
<1>5. b \in [1 .. c -> Entry]
  <2>1. b = [h \in 1 .. c |->
               IF h <= 3 THEN AFolder
               ELSE [parent |-> Folder[medium(h)], format |-> Folder[medium(h)],
                     size |-> library[medium(h)], media |-> medium(h)]]
    BY Zenon DEF vcm_mtp_snapshot_build
  <2> HIDE DEF b, medium
  <2>2. \A h \in 1 .. c : h <= 3 \/ h > 3
    BY <1>4
  <2> QED
    BY <1>2, <1>3, <2>1, <2>2
<1> HIDE DEF b, c
<1> QED
  BY <1>4, <1>5, SeqDef DEF b

(* What the host asked for, and the numbers and buffers of the data phase.  *)
(* A new phase begins at nothing sent; the count of handles includes itself. *)
DataTypes ==
  /\ cmd \in Command /\ file \in Nat /\ left \in Nat /\ total \in Nat /\ sent \in 0 .. total
  /\ index \in Nat /\ found \in Nat /\ scratch \in Seq(Nat) /\ got \in Seq(Nat)
  /\ pc \notin InData \cup {"respond"} => sent = 0
  /\ pc = "handles" => total >= 1

VitaTypes == library \in [Media -> 0 .. MaxSize] /\ catalog \in Seq(Entry)

Places ==
  /\ module \in {"loaded", "started", "failed", "waiting", "ended_watcher", "stopped"}
  /\ watch \in {"none", "test", "try", "ended"}
  /\ pc \in Idle \cup Dispatching \cup {"sony", "got", "fetch"}
  /\ resp \in Codes

LEMMA NothingIsCommand == Nothing \in Command
  BY DEF Nothing, Command, Request

LEMMA VitaStep ==
  ASSUME VitaTypes, [Next]_vars
  PROVE  VitaTypes'
<1>1. library' = library \/ \E n \in Media, size \in 0 .. MaxSize : LibraryChanges(n, size)
  BY DEF vars, Next, Plugin, module_start, WatcherTests, WatcherHooks, StopBegins, StopWaits, StopUnhooks,
         Connect, Unplug, ReceiveFails, Closes, Responds, SonyAnswers, Receive,
         recv_command_hook, PassOn, FetchFails, FetchBegins, FetchBreaks, TakesOver, Owned, DispatchFails, send_response,
         vcm_mtp_server_execute, GetDeviceInfo, OpenSession, SessionNotOpen, CloseSession, GetFromMemory,
         Unsupported, GetObjectHandles, GetObject, Answer, Begin,
         vcm_mtp_engine_run, SendMemory, MemoryFails, send_handles, HandlesBegin, Skip, Collect, Flush, HandlesEnd,
         HandlesFail, Fails, send_object, vcm_bridge_stream_open, Opened, OpenFails, ReadObject, ObjectSent, ObjectBreaks,
         ObjectEnds, dispatch_private, PrivateAction, UploadRefused, UploadBegins, UploadBlock, UploadEnds,
         UploadBreaks, vcm_bridge_upload_finish, GoTo
<1>2. catalog' = catalog \/ catalog' = <<>> \/ catalog' = vcm_mtp_snapshot_build
  BY DEF vars, responder, Next, Plugin, module_start, WatcherTests, WatcherHooks, StopBegins, StopWaits, StopUnhooks,
         release_catalog, LibraryChanges,
         Connect, Unplug, ReceiveFails, Responds, SonyAnswers, Receive,
         recv_command_hook, PassOn, FetchFails, FetchBegins, FetchBreaks, TakesOver, Owned, DispatchFails, send_response,
         vcm_mtp_server_execute, GetDeviceInfo, OpenSession, SessionNotOpen, CloseSession, GetFromMemory,
         Unsupported, GetObjectHandles, GetObject,
         vcm_mtp_engine_run, SendMemory, MemoryFails, send_handles, HandlesBegin, Skip, Collect, Flush, HandlesEnd,
         HandlesFail, Fails, send_object, vcm_bridge_stream_open, Opened, OpenFails, ReadObject, ObjectSent, ObjectBreaks,
         ObjectEnds, dispatch_private, PrivateAction, UploadRefused, UploadBegins, UploadBlock, UploadEnds,
         UploadBreaks, vcm_bridge_upload_finish
<1>3. library' \in [Media -> 0 .. MaxSize]
  BY <1>1 DEF VitaTypes, LibraryChanges
<1>4. catalog' \in Seq(Entry)
  <2>1. vcm_mtp_snapshot_build \in Seq(Entry)
    BY BuildType DEF VitaTypes
  <2>2. catalog \in Seq(Entry) /\ <<>> \in Seq(Entry)
    BY DEF VitaTypes
  <2> QED
    BY <1>2, <2>1, <2>2, Zenon
<1> QED
  BY <1>3, <1>4 DEF VitaTypes

(* The data phase: a step sends at most what is left of the announced        *)
(* length, and a buffer gets handles only.                                   *)
LEMMA DataStep ==
  ASSUME Inv, CatalogOK, VitaTypes, DataTypes, [Next]_vars
  PROVE  DataTypes'
<1>0. Capacity \in Nat /\ MaxSize \in Nat
  BY PortAssumption
<1>a. DataTypes' \/ ~(UNCHANGED <<pc, cmd, file, left, data>>)
  BY DEF DataTypes, data
<1>1. CASE Plugin \/ Unplug \/ UNCHANGED vars \/ \E n \in Media, size \in 0 .. MaxSize : LibraryChanges(n, size)
  <2>1. UNCHANGED <<pc, cmd, file, left, data>>
    BY <1>1 DEF Plugin, module_start, WatcherTests, WatcherHooks, StopBegins, StopWaits, StopUnhooks,
                Unplug, vars, LibraryChanges, stream
  <2> QED
    BY <1>a, <2>1
<1>2. CASE Connect \/ SonyAnswers \/ \E c \in Command : Receive(c)
  <2>1. /\ pc \in {"closed", "sony", "recv"} /\ pc' \in {"recv", "got", "sony"}
        /\ UNCHANGED <<file, left, data>>
    BY <1>2 DEF Connect, SonyAnswers, Receive, stream
  <2>2. cmd' \in Command
    BY <1>2, NothingIsCommand DEF Connect, SonyAnswers, Receive, DataTypes
  <2> QED
    BY <2>1, <2>2 DEF DataTypes, data, InData
<1>3. CASE ReceiveFails \/ DispatchFails \/ send_response
  <2>1. /\ cmd' = Nothing /\ file' = 0 /\ left' = left /\ total' = 0 /\ sent' = 0 /\ index' = 0 /\ found' = 0
        /\ scratch' = <<>> /\ got' = <<>> /\ pc' \in {"closed", "recv"}
    BY <1>3 DEF ReceiveFails, DispatchFails, send_response, Closes, DataOver
  <2> QED
    BY <2>1, NothingIsCommand DEF DataTypes
<1>4. CASE PassOn \/ FetchFails \/ FetchBegins \/ FetchBreaks \/ TakesOver \/ Owned
  <2>1. pc \in {"got", "fetch"} /\ pc' \in {"sony", "fetch", "dispatch"} /\ UNCHANGED <<cmd, file, left, data>>
    BY <1>4 DEF PassOn, FetchFails, FetchBegins, FetchBreaks, TakesOver, Owned, GoTo, stream
  <2> QED
    BY <2>1 DEF DataTypes, data, InData
<1>5. CASE vcm_mtp_server_execute
  <2>1. pc = "dispatch" /\ UNCHANGED <<cmd, file, left, sent, index, found, scratch, got>>
    BY <1>5 DEF vcm_mtp_server_execute, GetDeviceInfo, OpenSession, SessionNotOpen, CloseSession, GetFromMemory,
         Unsupported, GetObjectHandles, GetObject, Asks, Answer, Begin, GoTo, data, stream
  <2>2. \/ pc' = "respond" /\ total' = total
        \/ pc' = "memory" /\ total' = 1
        \/ pc' = "open" /\ cmd.arg \in DOMAIN catalog /\ total' = catalog[cmd.arg].size
        \/ pc' = "handles" /\ total' = 1 + Cardinality(Children)
    BY <1>5 DEF vcm_mtp_server_execute, GetDeviceInfo, OpenSession, SessionNotOpen, CloseSession, GetFromMemory,
         Unsupported, GetObjectHandles, GetObject, IsMedia, vcm_mtp_catalog_get, Answer, Begin, GoTo, data, Children
  <2>3. Cardinality(Children) \in Nat
    BY ChildrenFinite
  <2>4. cmd.arg \in DOMAIN catalog => catalog[cmd.arg].size \in Nat
    <3>1. cmd.arg \in DOMAIN catalog => catalog[cmd.arg] \in Entry
      BY DEF VitaTypes
    <3> QED
      BY <1>0, <3>1 DEF Entry
  <2>5. total' \in Nat /\ (pc' = "handles" => total' >= 1)
    BY <2>2, <2>3, <2>4 DEF DataTypes
  <2>6. sent = 0
    BY <2>1 DEF DataTypes, InData
  <2> QED
    BY <2>1, <2>5, <2>6 DEF DataTypes
<1>6. CASE SendMemory \/ MemoryFails \/ \E n \in 1 .. Capacity : UploadBlock(n)
  <2>1. /\ pc \in {"memory", "upload"} /\ pc' \in {"respond", "upload"}
        /\ UNCHANGED <<cmd, file, left, total, index, found, scratch, got>>
    BY <1>6 DEF SendMemory, MemoryFails, UploadBlock, Fails, GoTo, stream, data
  <2>2. sent' \in 0 .. total
    <3>1. CASE SendMemory
      BY <3>1 DEF SendMemory, Sends, DataTypes
    <3>2. CASE MemoryFails
      BY <3>2 DEF MemoryFails, Fails, data, DataTypes
    <3>3. ASSUME NEW n \in 1 .. Capacity, UploadBlock(n) PROVE sent' \in 0 .. total
      BY <1>0, <3>3 DEF UploadBlock, Sends, DataTypes
    <3> QED
      BY <1>6, <3>1, <3>2, <3>3
  <2> QED
    BY <2>1, <2>2 DEF DataTypes, InData
<1>7. CASE send_handles
  <2>1. pc = "handles" /\ pc' \in {"handles", "respond"} /\ UNCHANGED <<cmd, file, left, total>>
    BY <1>7 DEF send_handles, HandlesBegin, Skip, Collect, Flush, HandlesEnd, HandlesFail, Fails, GoTo, stream, data
  <2>2. Len(scratch) \in Nat /\ total >= 1
    BY <2>1 DEF DataTypes
  <2>3. sent' \in 0 .. total
    <3>1. sent' = sent \/ (Len(scratch) > 0 /\ Len(scratch) <= total - sent /\ sent' = sent + Len(scratch))
      BY <1>7 DEF send_handles, HandlesBegin, Skip, Collect, Flush, HandlesEnd, HandlesFail, Fails, Sends, data
    <3> QED
      BY <2>2, <3>1 DEF DataTypes
  <2>4. index' \in Nat /\ found' \in Nat
    BY <1>7 DEF send_handles, HandlesBegin, Skip, Collect, Flush, HandlesEnd, HandlesFail, Fails, data, DataTypes
  <2>5. scratch' \in Seq(Nat) /\ got' \in Seq(Nat)
    <3>1. \/ scratch' = scratch \/ scratch' = <<total - 1>>
          \/ scratch' = Append(scratch, index) \/ scratch' = <<index>>
      BY <1>7 DEF send_handles, HandlesBegin, Skip, Collect, Flush, HandlesEnd, HandlesFail, Fails, data
    <3>2. got' = got \/ got' = got \o scratch
      BY <1>7 DEF send_handles, HandlesBegin, Skip, Collect, Flush, HandlesEnd, HandlesFail, Fails, data
    <3>3. scratch \in Seq(Nat) /\ got \in Seq(Nat) /\ index \in Nat /\ total - 1 \in Nat
      BY <2>2 DEF DataTypes
    <3>4. <<total - 1>> \in Seq(Nat) /\ <<index>> \in Seq(Nat) /\ Append(scratch, index) \in Seq(Nat)
          /\ got \o scratch \in Seq(Nat)
      BY <3>3
    <3> QED
      BY <3>1, <3>2, <3>3, <3>4, Zenon
  <2>6. cmd \in Command /\ file \in Nat /\ left \in Nat /\ total \in Nat
    BY DEF DataTypes
  <2>7. pc' \in InData \cup {"respond"}
    BY <2>1 DEF InData
  <2> QED
    BY <2>1, <2>2, <2>3, <2>4, <2>5, <2>6, <2>7 DEF DataTypes
<1>8. CASE send_object
  <2>1. /\ pc \in {"open", "object"} /\ pc' \in {"object", "respond"}
        /\ UNCHANGED <<cmd, total, index, found, scratch, got>>
    BY <1>8 DEF send_object, vcm_bridge_stream_open, Opened, OpenFails, ReadObject, ObjectSent, ObjectBreaks, ObjectEnds,
                Fails, GoTo, data
  <2>2. file' \in Nat /\ left' \in Nat /\ sent' \in 0 .. total
    <3>1. CASE vcm_bridge_stream_open
      <4>1. catalog[cmd.arg] \in Entry
        BY <3>1 DEF vcm_bridge_stream_open, vcm_mtp_catalog_get, VitaTypes
      <4>2. catalog[cmd.arg].size \in Nat
        BY <1>0, <4>1 DEF Entry
      <4> QED
        BY <3>1, <4>2 DEF vcm_bridge_stream_open, Opened, data, DataTypes
    <3>2. ASSUME NEW n \in 1 .. Capacity, ReadObject(n) PROVE file' \in Nat /\ left' \in Nat /\ sent' \in 0 .. total
      BY <1>0, <3>2 DEF ReadObject, Sends, DataTypes
    <3>3. CASE OpenFails \/ ObjectSent \/ ObjectBreaks
      BY <3>3 DEF OpenFails, ObjectSent, ObjectBreaks, ObjectEnds, Fails, stream, data, DataTypes
    <3> QED
      BY <1>8, <3>1, <3>2, <3>3 DEF send_object
  <2> QED
    BY <2>1, <2>2 DEF DataTypes, InData
<1>9. CASE \/ \E code \in {"OK", "error"} : PrivateAction(code) \/ vcm_bridge_upload_finish(code)
           \/ UploadRefused \/ UploadBreaks
  <2>1. pc' = "respond" /\ UNCHANGED <<cmd, file, left, data>>
    BY <1>9 DEF PrivateAction, vcm_bridge_upload_finish, UploadRefused, UploadBreaks, UploadEnds, Answer, GoTo, stream
  <2> QED
    BY <2>1 DEF DataTypes, data
<1>10. CASE UploadBegins
  <2>1. /\ pc = "dispatch" /\ cmd.op = "Upload" /\ total' = cmd.arg /\ pc' = "upload"
        /\ UNCHANGED <<cmd, file, left, sent, index, found, scratch, got>>
    BY <1>10 DEF UploadBegins, Asks, GoTo
  <2>2. cmd.arg \in Nat
    <3>1. cmd \in Request({"Upload"}, 1 .. MaxSize, {0}, {FALSE})
      BY <2>1 DEF DataTypes, Command, Request
    <3> QED
      BY <1>0, <3>1 DEF Request
  <2>3. sent = 0
    BY <2>1 DEF DataTypes, InData
  <2> QED
    BY <2>1, <2>2, <2>3 DEF DataTypes
<1> QED
  BY <1>1, <1>2, <1>3, <1>4, <1>5, <1>6, <1>7, <1>8, <1>9, <1>10
     DEF Next, Responds, recv_command_hook, vcm_mtp_engine_run, dispatch_private

LEMMA PlacesStep ==
  ASSUME Places, [Next]_vars
  PROVE  Places'
<1> USE DEF Idle, Dispatching, Codes
<1>1. CASE Plugin
  BY <1>1 DEF Plugin, module_start, WatcherTests, WatcherHooks, StopBegins, StopWaits, StopUnhooks, Places
<1>2. CASE \/ Connect \/ Unplug \/ ReceiveFails \/ SonyAnswers \/ UNCHANGED vars \/ (\E c \in Command : Receive(c))
           \/ \E n \in Media, size \in 0 .. MaxSize : LibraryChanges(n, size)
  BY <1>2 DEF Connect, Unplug, ReceiveFails, Closes, SonyAnswers, vars, Receive, LibraryChanges, plugin, Places
<1>3. CASE recv_command_hook
  BY <1>3 DEF recv_command_hook, PassOn, FetchFails, FetchBegins, FetchBreaks, TakesOver, Owned, DispatchFails,
              Closes, send_response, GoTo, plugin, Places
<1>4. CASE vcm_mtp_server_execute
  BY <1>4 DEF vcm_mtp_server_execute, GetDeviceInfo, OpenSession, SessionNotOpen, CloseSession, GetFromMemory,
              Unsupported, GetObjectHandles, GetObject, Answer, Begin, GoTo, plugin, Places
<1>5. CASE vcm_mtp_engine_run
  BY <1>5 DEF vcm_mtp_engine_run, SendMemory, MemoryFails, send_handles, HandlesBegin, Skip, Collect, Flush,
              HandlesEnd, HandlesFail, Fails, send_object, vcm_bridge_stream_open, Opened, OpenFails, ReadObject,
              ObjectSent, ObjectBreaks, ObjectEnds, GoTo, plugin, Places
<1>6. CASE dispatch_private
  BY <1>6 DEF dispatch_private, PrivateAction, UploadRefused, UploadBegins, UploadBlock, UploadEnds, UploadBreaks,
              vcm_bridge_upload_finish, Answer, GoTo, plugin, Places
<1> QED
  BY <1>1, <1>2, <1>3, <1>4, <1>5, <1>6 DEF Next, Responds

(* Every variable keeps its type, whatever the host asks and whenever cable, *)
(* file or plugin goes: a data phase never sends more than it announced      *)
(* (vcm_mtp_engine_run's checks), and each entry of a catalogue is a folder  *)
(* or a medium that vcm_mtp_snapshot_build found.                            *)
THEOREM TypeCorrect == Spec => []TypeOK
<1> DEFINE Types == VitaTypes /\ DataTypes /\ Places
<1>1. Init => Types
  <2> SUFFICES ASSUME Init PROVE Types
    OBVIOUS
  <2>1. VitaTypes
    BY DEF Init, VitaTypes
  <2>2. DataTypes
    BY NothingIsCommand DEF Init, DataTypes
  <2>3. Places
    BY DEF Init, Places, Idle, Codes
  <2> QED
    BY <2>1, <2>2, <2>3
<1>2. Inv /\ DataInv /\ Types /\ [Next]_vars => Types'
  BY VitaStep, DataStep, PlacesStep DEF DataInv
<1>3. Inv /\ Types => TypeOK
  BY Zenon DEF Inv, Bools, Resources, VitaTypes, DataTypes, Places, TypeOK
<1> QED
  BY <1>1, <1>2, <1>3, DataInvariance, PTL DEF Spec
=============================================================================
