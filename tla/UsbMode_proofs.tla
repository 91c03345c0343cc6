----------------------------- MODULE UsbMode_proofs -----------------------------
(***************************************************************************)
(* Proofs about UsbMode.  That at most one remote client gets in after USB *)
(* mode was switched on needs to know which listener accept may see: the   *)
(* socket is of the kind loopback_only says unless it is closed, and where *)
(* accept sees the open one in USB mode, nobody got in yet.                *)
(***************************************************************************)
EXTENDS UsbMode, TLAPS

(* The Boolean variables; and the others, with what is true of the socket. *)
FlagTypes ==
  /\ mode \in BOOLEAN /\ served \in BOOLEAN /\ stop \in BOOLEAN /\ listening \in BOOLEAN
  /\ loopback_only \in BOOLEAN /\ dialog \in BOOLEAN /\ cancel_pending \in BOOLEAN
  /\ connected \in BOOLEAN /\ link \in BOOLEAN
PlaceTypes ==
  /\ srv \in {"none", "boot", "setup", "loop", "accept", "handle", "catalog", "finished"}
  /\ bound \in {"none", "any", "loopback"}
  /\ peer \in {"none", "local", "remote"}
  /\ ui \in {"run", "join", "exited"}
  /\ locks \subseteq {"usb", "ps"} /\ late \in 0 .. MaxLate

(* An open socket is of the kind loopback_only says, and it is open where   *)
(* the thread accepts and serves.                                           *)
SocketInv ==
  /\ bound = "none" \/ bound = Socket(loopback_only)
  /\ srv \in {"accept", "handle", "catalog"} => bound # "none"
  /\ bound # "none" => listening /\ srv \notin {"none", "boot", "setup"}

(* Where accept can still let a remote client in, none got in before.      *)
LateInv == (mode /\ srv = "accept" /\ bound = "any" => late = 0) /\ late <= 1

(* USB mode is on exactly while its dialog is up.                          *)
DialogInv == (mode <=> dialog) /\ (connected => dialog) /\ (~dialog => locks = {})

Inv == FlagTypes /\ PlaceTypes /\ SocketInv /\ LateInv /\ DialogInv
-----------------------------------------------------------------------------
(* The application before its worker thread has run.                       *)
LEMMA InitInv == Init => Inv
<1> SUFFICES ASSUME Init PROVE Inv
  OBVIOUS
<1> USE DEF Init
<1>1. FlagTypes
  BY DEF FlagTypes
<1>2. PlaceTypes
  BY LateAssumption DEF PlaceTypes
<1>3. SocketInv /\ LateInv /\ DialogInv
  BY DEF SocketInv, LateInv, DialogInv
<1> QED
  BY <1>1, <1>2, <1>3 DEF Inv

(* The steps of the server thread; Setup, LoopEnds and AcceptFails share    *)
(* the end of vcm_wifi_serve.                                              *)
LEMMA ServeInv ==
  ASSUME Inv, Serve
  PROVE  Inv'
<1> USE DEF Inv, flags, server, screen
<1>1. CASE Boot
  <2>1. FlagTypes'
    BY <1>1, Zenon DEF FlagTypes, Boot
  <2>2. PlaceTypes' /\ SocketInv'
    BY <1>1, LateAssumption DEF FlagTypes, PlaceTypes, SocketInv, Socket, Boot
  <2>3. LateInv' /\ DialogInv'
    BY <1>1, LateAssumption DEF FlagTypes, PlaceTypes, SocketInv, Socket, LateInv, DialogInv, Boot
  <2> QED
    BY <2>1, <2>2, <2>3
<1>2. CASE srv = "setup" /\ open_listener(mode) /\ srv' = "loop"
  <2>1. FlagTypes'
    BY <1>2, Zenon DEF FlagTypes, open_listener
  <2>2. PlaceTypes' /\ SocketInv'
    BY <1>2, LateAssumption DEF FlagTypes, PlaceTypes, SocketInv, Socket, open_listener
  <2>3. LateInv' /\ DialogInv'
    BY <1>2, LateAssumption DEF FlagTypes, PlaceTypes, SocketInv, Socket, LateInv, DialogInv, open_listener
  <2> QED
    BY <2>1, <2>2, <2>3
<1>3. CASE srv \in {"setup", "loop", "accept"} /\ Finished
  <2>1. FlagTypes'
    BY <1>3, Zenon DEF FlagTypes, Finished
  <2>2. PlaceTypes' /\ SocketInv'
    BY <1>3, LateAssumption DEF FlagTypes, PlaceTypes, SocketInv, Socket, Finished
  <2>3. LateInv' /\ DialogInv'
    BY <1>3, LateAssumption DEF FlagTypes, PlaceTypes, SocketInv, Socket, LateInv, DialogInv, Finished
  <2> QED
    BY <2>1, <2>2, <2>3
<1>4. CASE SwitchListener
  <2>1. FlagTypes'
    BY <1>4, Zenon DEF FlagTypes, SwitchListener, open_listener
  <2>2. PlaceTypes' /\ SocketInv'
    BY <1>4, LateAssumption DEF FlagTypes, PlaceTypes, SocketInv, Socket, SwitchListener, open_listener
  <2>3. LateInv' /\ DialogInv'
    BY <1>4, LateAssumption DEF FlagTypes, PlaceTypes, SocketInv, Socket, LateInv, DialogInv, SwitchListener, open_listener
  <2> QED
    BY <2>1, <2>2, <2>3
<1>5. CASE SwitchFails
  <2>1. FlagTypes'
    BY <1>5, Zenon DEF FlagTypes, SwitchFails
  <2>2. PlaceTypes' /\ SocketInv'
    BY <1>5, LateAssumption DEF FlagTypes, PlaceTypes, SocketInv, Socket, SwitchFails
  <2>3. LateInv' /\ DialogInv'
    BY <1>5, LateAssumption DEF FlagTypes, PlaceTypes, SocketInv, Socket, LateInv, DialogInv, SwitchFails
  <2> QED
    BY <2>1, <2>2, <2>3
<1>6. CASE KeepListener
  <2>1. FlagTypes'
    BY <1>6, Zenon DEF FlagTypes, KeepListener, Stale
  <2>2. PlaceTypes' /\ SocketInv'
    BY <1>6, LateAssumption DEF FlagTypes, PlaceTypes, SocketInv, Socket, KeepListener, Stale
  <2>3. LateInv' /\ DialogInv'
    BY <1>6, LateAssumption DEF FlagTypes, PlaceTypes, SocketInv, Socket, LateInv, DialogInv, KeepListener, Stale
  <2> QED
    BY <2>1, <2>2, <2>3
<1>7. CASE NoClient
  <2>1. FlagTypes'
    BY <1>7, Zenon DEF FlagTypes, NoClient
  <2>2. PlaceTypes' /\ SocketInv'
    BY <1>7, LateAssumption DEF FlagTypes, PlaceTypes, SocketInv, Socket, NoClient
  <2>3. LateInv' /\ DialogInv'
    BY <1>7, LateAssumption DEF FlagTypes, PlaceTypes, SocketInv, Socket, LateInv, DialogInv, NoClient
  <2> QED
    BY <2>1, <2>2, <2>3
<1>8. CASE Answer
  <2>1. FlagTypes'
    BY <1>8, Zenon DEF FlagTypes, Answer
  <2>2. PlaceTypes' /\ SocketInv'
    BY <1>8, LateAssumption DEF FlagTypes, PlaceTypes, SocketInv, Socket, Answer
  <2>3. LateInv' /\ DialogInv'
    BY <1>8, LateAssumption DEF FlagTypes, PlaceTypes, SocketInv, Socket, LateInv, DialogInv, Answer
  <2> QED
    BY <2>1, <2>2, <2>3
<1>9. CASE CatalogRequest
  <2>1. FlagTypes'
    BY <1>9, Zenon DEF FlagTypes, CatalogRequest
  <2>2. PlaceTypes' /\ SocketInv'
    BY <1>9, LateAssumption DEF FlagTypes, PlaceTypes, SocketInv, Socket, CatalogRequest
  <2>3. LateInv' /\ DialogInv'
    BY <1>9, LateAssumption DEF FlagTypes, PlaceTypes, SocketInv, Socket, LateInv, DialogInv, CatalogRequest
  <2> QED
    BY <2>1, <2>2, <2>3
<1>10. CASE \E p \in {"local", "remote"} : Accept(p)
  <2>1. FlagTypes'
    BY <1>10, Zenon DEF FlagTypes, Accept
  <2>2. PlaceTypes' /\ SocketInv'
    BY <1>10, LateAssumption DEF FlagTypes, PlaceTypes, SocketInv, Socket, Accept
  <2>3. LateInv' /\ DialogInv'
    BY <1>10, LateAssumption DEF FlagTypes, PlaceTypes, SocketInv, Socket, LateInv, DialogInv, Accept
  <2> QED
    BY <2>1, <2>2, <2>3
<1>11. CASE \E sent \in BOOLEAN : send_usb_catalog(sent)
  <2>1. FlagTypes'
    BY <1>11, Zenon DEF FlagTypes, send_usb_catalog
  <2>2. PlaceTypes' /\ SocketInv'
    BY <1>11, LateAssumption DEF FlagTypes, PlaceTypes, SocketInv, Socket, send_usb_catalog
  <2>3. LateInv' /\ DialogInv'
    BY <1>11, LateAssumption DEF FlagTypes, PlaceTypes, SocketInv, Socket, LateInv, DialogInv, send_usb_catalog
  <2> QED
    BY <2>1, <2>2, <2>3
<1> QED
  BY <1>1, <1>2, <1>3, <1>4, <1>5, <1>6, <1>7, <1>8, <1>9, <1>10, <1>11 DEF Serve, Setup, LoopEnds, AcceptFails

(* The steps of the UI thread.                                             *)
LEMMA ScreenInv ==
  ASSUME Inv, Screen
  PROVE  Inv'
<1> USE DEF Inv, flags, server, screen
<1>1. CASE \E taken \in SUBSET {"usb", "ps"} : UsbModePressed(taken)
  <2>1. FlagTypes'
    BY <1>1, Zenon DEF FlagTypes, UsbModePressed
  <2>2. PlaceTypes' /\ SocketInv'
    BY <1>1, LateAssumption DEF FlagTypes, PlaceTypes, SocketInv, Socket, UsbModePressed
  <2>3. LateInv' /\ DialogInv'
    BY <1>1, LateAssumption DEF FlagTypes, PlaceTypes, SocketInv, Socket, LateInv, DialogInv, UsbModePressed
  <2> QED
    BY <2>1, <2>2, <2>3
<1>2. CASE \E taken \in SUBSET {"usb", "ps"} : ShowFails(taken)
  <2>1. FlagTypes'
    BY <1>2, Zenon DEF FlagTypes, ShowFails, DisableUsbMode
  <2>2. PlaceTypes' /\ SocketInv'
    BY <1>2, LateAssumption DEF FlagTypes, PlaceTypes, SocketInv, Socket, ShowFails, DisableUsbMode
  <2>3. LateInv' /\ DialogInv'
    BY <1>2, LateAssumption DEF FlagTypes, PlaceTypes, SocketInv, Socket, LateInv, DialogInv, ShowFails, DisableUsbMode
  <2> QED
    BY <2>1, <2>2, <2>3
<1>3. CASE UsbDialogAction
  <2>1. FlagTypes'
    BY <1>3, Zenon DEF FlagTypes, UsbDialogAction
  <2>2. PlaceTypes' /\ SocketInv'
    BY <1>3, LateAssumption DEF FlagTypes, PlaceTypes, SocketInv, Socket, UsbDialogAction
  <2>3. LateInv' /\ DialogInv'
    BY <1>3, LateAssumption DEF FlagTypes, PlaceTypes, SocketInv, Socket, LateInv, DialogInv, UsbDialogAction
  <2> QED
    BY <2>1, <2>2, <2>3
<1>4. CASE UpdateUsbConnection
  <2>1. FlagTypes'
    BY <1>4, Zenon DEF FlagTypes, UpdateUsbConnection
  <2>2. PlaceTypes' /\ SocketInv'
    BY <1>4, LateAssumption DEF FlagTypes, PlaceTypes, SocketInv, Socket, UpdateUsbConnection
  <2>3. LateInv' /\ DialogInv'
    BY <1>4, LateAssumption DEF FlagTypes, PlaceTypes, SocketInv, Socket, LateInv, DialogInv, UpdateUsbConnection
  <2> QED
    BY <2>1, <2>2, <2>3
<1>5. CASE CancelUsbMode
  <2>1. FlagTypes'
    BY <1>5, Zenon DEF FlagTypes, CancelUsbMode, DisableUsbMode
  <2>2. PlaceTypes' /\ SocketInv'
    BY <1>5, LateAssumption DEF FlagTypes, PlaceTypes, SocketInv, Socket, CancelUsbMode, DisableUsbMode
  <2>3. LateInv' /\ DialogInv'
    BY <1>5, LateAssumption DEF FlagTypes, PlaceTypes, SocketInv, Socket, LateInv, DialogInv, CancelUsbMode, DisableUsbMode
  <2> QED
    BY <2>1, <2>2, <2>3
<1>6. CASE Exit
  <2>1. FlagTypes'
    BY <1>6, Zenon DEF FlagTypes, Exit, DisableUsbMode
  <2>2. PlaceTypes' /\ SocketInv'
    BY <1>6, LateAssumption DEF FlagTypes, PlaceTypes, SocketInv, Socket, Exit, DisableUsbMode
  <2>3. LateInv' /\ DialogInv'
    BY <1>6, LateAssumption DEF FlagTypes, PlaceTypes, SocketInv, Socket, LateInv, DialogInv, Exit, DisableUsbMode
  <2> QED
    BY <2>1, <2>2, <2>3
<1>7. CASE Join
  <2>1. FlagTypes'
    BY <1>7, Zenon DEF FlagTypes, Join
  <2>2. PlaceTypes' /\ SocketInv'
    BY <1>7, LateAssumption DEF FlagTypes, PlaceTypes, SocketInv, Socket, Join
  <2>3. LateInv' /\ DialogInv'
    BY <1>7, LateAssumption DEF FlagTypes, PlaceTypes, SocketInv, Socket, LateInv, DialogInv, Join
  <2> QED
    BY <2>1, <2>2, <2>3
<1> QED
  BY <1>1, <1>2, <1>3, <1>4, <1>5, <1>6, <1>7 DEF Screen

(* A step that touches the cable only, or nothing.                         *)
LEMMA CableInv ==
  ASSUME Inv, Cable \/ UNCHANGED vars
  PROVE  Inv'
<1> USE DEF Inv, flags, server, screen, Cable, vars
<1>1. FlagTypes'
  BY Zenon DEF FlagTypes
<1>2. PlaceTypes'
  BY DEF PlaceTypes
<1>3. SocketInv' /\ LateInv' /\ DialogInv'
  BY DEF SocketInv, LateInv, DialogInv, Socket
<1> QED
  BY <1>1, <1>2, <1>3

(* The strengthening is an invariant of the specification.                 *)
THEOREM Invariance == Spec => []Inv
<1>1. Inv /\ [Next]_vars => Inv'
  BY ServeInv, ScreenInv, CableInv DEF Next
<1> QED
  BY <1>1, InitInv, PTL DEF Spec

(* Types, and accept is never called on a socket that failed to open.      *)
THEOREM TypeCorrect == Spec => []TypeOK
<1>1. Inv => TypeOK
  <2> SUFFICES ASSUME Inv PROVE TypeOK
    OBVIOUS
  <2>1. srv \in {"accept", "handle", "catalog"} => bound = Socket(loopback_only) /\ listening
    BY DEF Inv, SocketInv
  <2> QED
    BY <2>1, Zenon DEF Inv, FlagTypes, PlaceTypes, TypeOK
<1> QED
  BY <1>1, Invariance, PTL

(* After USB mode was switched on, at most one remote client is accepted,   *)
(* however the two threads interleave.                                      *)
THEOREM RaceIsBounded == Spec => []OneLateClient
<1>1. Inv => OneLateClient
  BY DEF Inv, LateInv, OneLateClient
<1> QED
  BY <1>1, Invariance, PTL

(* The shell locks are held only while the USB dialog is up.                *)
THEOREM LocksReleased == Spec => []LocksFollowDialog
<1>1. Inv => LocksFollowDialog
  BY DEF Inv, DialogInv, LocksFollowDialog
<1> QED
  BY <1>1, Invariance, PTL
=============================================================================
