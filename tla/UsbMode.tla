-------------------------------- MODULE UsbMode --------------------------------
(***************************************************************************)
(* The server thread's life and USB mode: vcm_wifi_serve with its listener *)
(* (wifi_service.c), and the UI thread that switches USB mode, shows the   *)
(* connection and shuts the application down (paf_main.cpp).  The threads  *)
(* share four volatile flags and no lock, so an action is one access to    *)
(* them together with the local work around it.  What a request does to    *)
(* the transfer queue is SyncQueue; here a request is over in one step,    *)
(* but for the USB catalogue, whose end writes a shared flag.              *)
(***************************************************************************)
EXTENDS Naturals

CONSTANT MaxLate   \* bound: late counts no further

ASSUME LateAssumption == MaxLate \in Nat /\ MaxLate > 1

VARIABLES
  \* g_usb_mode_enabled, g_usb_catalog_served, g_stop, g_listening
  mode, served, stop, listening,
  \* the server thread: its place, its socket ("none" after an open failed),
  \* its loopback_only and where its client comes from
  srv, bound, loopback_only, peer,
  \* the UI thread: its place, whether g_usb_dialog_slot is set,
  \* g_usb_cancel_pending, g_usb_connected and g_usb_lock_mask
  ui, dialog, cancel_pending, connected, locks,
  \* the USB cable
  link,
  \* history: remote clients accepted since USB mode was switched on
  late

flags == <<mode, served, stop, listening>>
server == <<srv, bound, loopback_only, peer>>
screen == <<ui, dialog, cancel_pending, connected, locks>>
vars == <<flags, server, screen, link, late>>

Init ==
  /\ mode = FALSE /\ served = FALSE /\ stop = FALSE /\ listening = FALSE
  /\ srv \in {"boot", "none"}          \* started, or Start failed
  /\ bound = "none" /\ loopback_only = FALSE /\ peer = "none"
  /\ ui = "run" /\ dialog = FALSE /\ cancel_pending = FALSE /\ connected = FALSE
  /\ locks = {} /\ link \in BOOLEAN /\ late = 0

-----------------------------------------------------------------------------
(* The server thread.                                                      *)

\* vcm_wifi_serve begins by clearing the flags.
Boot ==
  /\ srv = "boot"
  /\ stop' = FALSE /\ listening' = FALSE /\ srv' = "setup"
  /\ UNCHANGED <<mode, served, bound, loopback_only, peer, screen, link, late>>

Socket(loopback) == IF loopback THEN "loopback" ELSE "any"

\* open_listener(want): a socket bound to the loopback address or to any.
open_listener(want) ==
  /\ bound' = Socket(want) /\ loopback_only' = want /\ listening' = TRUE
  /\ UNCHANGED <<mode, served, stop, peer, screen, link, late>>

\* The serve function returns and finished_ is set.
Finished ==
  /\ srv' = "finished" /\ listening' = FALSE /\ bound' = "none"
  /\ UNCHANGED <<mode, served, stop, loopback_only, peer, screen, link, late>>

\* Directories, network module, netctl and the first listener.
Setup ==
  /\ srv = "setup"
  /\ (open_listener(mode) /\ srv' = "loop") \/ Finished

\* while (!g_stop).
LoopEnds == srv = "loop" /\ stop /\ Finished

Stale_OnlyLost == bound = "none"
Stale == mode # loopback_only \/ bound = "none"

SwitchListener ==
  /\ srv = "loop" /\ ~stop /\ Stale
  /\ open_listener(mode) /\ srv' = "accept"

SwitchFails ==
  /\ srv = "loop" /\ ~stop /\ Stale
  /\ bound' = "none" /\ listening' = FALSE
  /\ UNCHANGED <<mode, served, stop, srv, loopback_only, peer, screen, link, late>>

KeepListener ==
  /\ srv = "loop" /\ ~stop /\ ~Stale
  /\ srv' = "accept"
  /\ UNCHANGED <<flags, bound, loopback_only, peer, screen, link, late>>

\* A socket bound to 127.0.0.1 has local clients only.
Accept(p) ==
  /\ srv = "accept"
  /\ bound = "any" \/ (bound = "loopback" /\ p = "local")
  /\ srv' = "handle" /\ peer' = p
  /\ late' = IF p = "remote" /\ mode /\ late < MaxLate THEN late + 1 ELSE late
  /\ UNCHANGED <<flags, bound, loopback_only, screen, link>>

NoClient ==
  /\ srv = "accept" /\ bound # "none"
  /\ srv' = "loop"
  /\ UNCHANGED <<flags, bound, loopback_only, peer, screen, link, late>>

\* Any other error of accept ends the loop.
AcceptFails == srv = "accept" /\ Finished

\* Every request but a USB catalogue, those that are refused included.
Answer_AcceptsNext ==
  /\ srv = "handle"
  /\ srv' = "accept" /\ peer' = "none"
  /\ UNCHANGED <<flags, bound, loopback_only, screen, link, late>>
Answer ==
  /\ srv = "handle"
  /\ srv' = "loop" /\ peer' = "none"
  /\ UNCHANGED <<flags, bound, loopback_only, screen, link, late>>

CatalogRequest ==
  /\ srv = "handle" /\ peer = "local" /\ mode
  /\ srv' = "catalog"
  /\ UNCHANGED <<flags, bound, loopback_only, peer, screen, link, late>>

\* send_usb_catalog; the snapshot, the space query or a send may fail.
send_usb_catalog(sent) ==
  /\ srv = "catalog"
  /\ served' = IF sent THEN TRUE ELSE served
  /\ srv' = "loop" /\ peer' = "none"
  /\ UNCHANGED <<mode, stop, listening, bound, loopback_only, screen, link, late>>

Serve ==
  \/ Boot \/ Setup \/ LoopEnds \/ SwitchListener \/ SwitchFails \/ KeepListener
  \/ NoClient \/ AcceptFails \/ Answer \/ CatalogRequest
  \/ \E p \in {"local", "remote"} : Accept(p)
  \/ \E sent \in BOOLEAN : send_usb_catalog(sent)

-----------------------------------------------------------------------------
(* The UI thread.                                                          *)

\* DisableUsbMode; the dialog is closed and the locks taken are released.
DisableUsbMode ==
  /\ mode' = FALSE /\ served' = FALSE
  /\ dialog' = FALSE /\ cancel_pending' = FALSE /\ connected' = FALSE /\ locks' = {}

\* Each of the two shell locks may be refused.
UsbModePressed(taken) ==
  /\ ui = "run" /\ ~dialog
  /\ mode' = TRUE /\ served' = FALSE /\ late' = 0
  /\ dialog' = TRUE /\ cancel_pending' = FALSE /\ connected' = FALSE /\ locks' = taken
  /\ UNCHANGED <<stop, listening, server, ui, link>>

\* Dialog::Show failed after the locks were taken.
ShowFails(taken) ==
  /\ ui = "run" /\ ~dialog
  /\ DisableUsbMode
  /\ UNCHANGED <<stop, listening, server, ui, link, late>>

UsbDialogAction ==
  /\ ui = "run" /\ dialog
  /\ cancel_pending' = TRUE
  /\ UNCHANGED <<flags, server, ui, dialog, connected, locks, link, late>>

\* PollImport while a cancel is pending.
CancelUsbMode ==
  /\ ui = "run" /\ cancel_pending
  /\ DisableUsbMode
  /\ UNCHANGED <<stop, listening, server, ui, link, late>>

UpdateUsbConnection_ServedOnly ==
  /\ ui = "run" /\ ~cancel_pending /\ dialog
  /\ connected' = served
  /\ UNCHANGED <<flags, server, ui, dialog, cancel_pending, locks, link, late>>
UpdateUsbConnection ==
  /\ ui = "run" /\ ~cancel_pending /\ dialog
  /\ served' = (served /\ link)
  /\ connected' = (served /\ link)
  /\ UNCHANGED <<mode, stop, listening, server, ui, dialog, cancel_pending, locks, link, late>>

\* Run returned: USB mode is left and the server is told to stop.
Exit ==
  /\ ui = "run"
  /\ DisableUsbMode
  /\ stop' = TRUE
  /\ ui' = IF srv = "none" THEN "exited" ELSE "join"
  /\ UNCHANGED <<listening, server, link, late>>

Join ==
  /\ ui = "join" /\ srv = "finished"
  /\ ui' = "exited"
  /\ UNCHANGED <<flags, server, dialog, cancel_pending, connected, locks, link, late>>

\* The cable is plugged or pulled.
Cable == link' = ~link /\ UNCHANGED <<flags, server, screen, late>>

Screen ==
  \/ \E taken \in SUBSET {"usb", "ps"} : UsbModePressed(taken) \/ ShowFails(taken)
  \/ UsbDialogAction \/ CancelUsbMode \/ UpdateUsbConnection \/ Exit \/ Join

Next == Serve \/ Screen \/ Cable

Spec == Init /\ [][Next]_vars

\* Both threads are scheduled; a listener that is opened again and again
\* opens in the end; clients, the user and the cable owe nothing.
Fairness ==
  /\ WF_vars(Serve) /\ SF_vars(SwitchListener)
  /\ WF_vars(CancelUsbMode) /\ WF_vars(UpdateUsbConnection) /\ WF_vars(Join)

FairSpec == Spec /\ Fairness

-----------------------------------------------------------------------------
(* Properties.                                                             *)

(* Every variable has its type, and the thread never calls accept on a      *)
(* socket that failed to open: a switch that failed is tried again even if  *)
(* USB mode was switched back meanwhile, where a plain comparison of the    *)
(* two modes would let accept fail and end the service.                     *)
TypeOK ==
  /\ mode \in BOOLEAN /\ served \in BOOLEAN /\ stop \in BOOLEAN /\ listening \in BOOLEAN
  /\ srv \in {"none", "boot", "setup", "loop", "accept", "handle", "catalog", "finished"}
  /\ bound \in {"none", "any", "loopback"} /\ loopback_only \in BOOLEAN
  /\ peer \in {"none", "local", "remote"}
  /\ ui \in {"run", "join", "exited"} /\ dialog \in BOOLEAN /\ cancel_pending \in BOOLEAN
  /\ connected \in BOOLEAN /\ locks \subseteq {"usb", "ps"}
  /\ link \in BOOLEAN /\ late \in 0 .. MaxLate
  /\ srv \in {"accept", "handle", "catalog"} => bound = Socket(loopback_only) /\ listening

(* USB mode closes the service to the network.  The flag is read once per   *)
(* turn of the loop, before accept, so the race lets one remote client in   *)
(* after the switch, and never a second.                                    *)
OneLateClient == late <= 1

(* The PS button and the USB connection are locked only while the USB       *)
(* dialog is up, also when it could not be shown and on the way out, and    *)
(* "Connected" is shown only in USB mode.                                   *)
LocksFollowDialog == (~dialog => locks = {}) /\ (connected => dialog /\ mode)

(* The listener follows USB mode: as long as the application and the        *)
(* service run, a listener of the wrong kind, or none, is replaced.         *)
ListenerFollowsMode ==
  (srv # "none" /\ ui = "run" /\ bound # Socket(mode)) ~>
    (bound = Socket(mode) \/ ui # "run" \/ srv = "finished")

(* With the cable pulled the screen stops saying "Connected", whatever a    *)
(* catalogue that is still being sent does to the flag.                     *)
PulledCableIsShown == (connected /\ ~link) ~> (~connected \/ link)

(* A stop that arrives after vcm_wifi_serve has begun ends it.              *)
StopIsObeyed == (stop /\ srv \notin {"none", "boot"}) ~> srv = "finished"
=============================================================================
