--------------------------- MODULE DesktopJobs_proofs ---------------------------
(***************************************************************************)
(* Proofs about DesktopJobs for any number of calls and files.  The        *)
(* argument is about the two locks: a call is past its "with" statement    *)
(* exactly when it holds its lock, _shutdown holds them exactly while it   *)
(* cleans up, and nothing that uses files begins once _closing is set.     *)
(***************************************************************************)
EXTENDS DesktopJobs, FiniteSetTheorems, TLAPS

\* Where a call of each kind can be, and where it holds its lock.
CopyHeld == {"clear", "copy", "download"}
SendHeld == {"clear", "prepare", "usb", "wifi", "upload", "sync", "poll", "items", "undo"}
ConvertHeld == {"clear", "reset", "convert", "running"}
Outside == {"idle", "pick", "wait", "done", "error"}
Held(j) == IF j \in Copy THEN CopyHeld ELSE IF j \in Send THEN SendHeld ELSE ConvertHeld

Places == CopyHeld \cup SendHeld \cup ConvertHeld \cup Outside

PlacesOK ==
  /\ pc \in [Jobs -> Places]
  /\ \A j \in Jobs : pc[j] \in Held(j) \cup Outside
  /\ lockT \in Transfers \cup {Nobody, Closer} /\ lockC \in Convert \cup {Nobody, Closer}

TransferLockOK == \A j \in Transfers : lockT = j <=> pc[j] \in Held(j)
ConversionLockOK == \A j \in Convert : lockC = j <=> pc[j] \in Held(j)

CloserOK ==
  /\ lockT = Closer <=> shut = "cleanup"
  /\ lockC = Closer <=> shut \in {"second", "cleanup"}
  /\ closing <=> shut # "open"
  /\ cleaned <=> shut = "closed"

CancelOK ==
  /\ asked \subseteq Transfers
  /\ \A j \in asked : lockT = j /\ pc[j] # "clear" /\ stopT

Working == {"running", "usb", "wifi", "upload", "download"}
FilesOK == cleaned => temp = {} /\ \A j \in Jobs : pc[j] \notin Working

Inv == /\ PlacesOK /\ TransferLockOK /\ ConversionLockOK
       /\ CloserOK /\ CancelOK /\ FilesOK

-----------------------------------------------------------------------------
(* Facts about the places.                                                 *)

(* No call is of two kinds and no place outside a lock is inside it.        *)
LEMMA HeldFacts ==
  /\ \A j \in Jobs : Held(j) \cap Outside = {} /\ "clear" \in Held(j)
  /\ \A j \in Copy : j \notin Send /\ j \notin Convert /\ Held(j) = CopyHeld
  /\ \A j \in Send : j \notin Copy /\ j \notin Convert /\ Held(j) = SendHeld
  /\ \A j \in Convert : j \notin Copy /\ j \notin Send /\ Held(j) = ConvertHeld
  /\ \A j \in Jobs : j # Nobody /\ j # Closer
  /\ Nobody # Closer
  BY JobsAssumption DEF Jobs, Transfers, Held, CopyHeld, SendHeld, ConvertHeld, Outside

(* A call that holds its lock goes on inside the "with" block.              *)
LEMMA Step ==
  ASSUME Inv, NEW j \in Jobs, NEW place \in Held(j) \ {"clear"},
         pc[j] \in Held(j), pc' = [pc EXCEPT ![j] = place],
         UNCHANGED <<locks, pressed, shut, closing, cleaned>>,
         (stopT' = stopT) \/ (j \in Transfers /\ pc[j] = "clear"),
         cleaned => place \notin Working /\ temp' = temp
  PROVE  Inv'
<1>1. PlacesOK'
  <2>1. place \in Places
    BY DEF Held, Places
  <2>2. QED BY <2>1 DEF Inv, PlacesOK, locks
<1>2. TransferLockOK' /\ ConversionLockOK'
  BY HeldFacts DEF Inv, PlacesOK, TransferLockOK, ConversionLockOK, locks, Transfers, Jobs
<1>3. CloserOK'
  BY DEF Inv, CloserOK, locks
<1>4. CancelOK'
  <2>1. asked' = asked /\ lockT' = lockT /\ pc' = [pc EXCEPT ![j] = place]
    BY DEF locks, pressed
  <2>2. ASSUME NEW k \in asked PROVE lockT = k /\ pc'[k] # "clear" /\ stopT'
    <3>1. k \in Transfers /\ lockT = k /\ pc[k] # "clear" /\ stopT
      BY DEF Inv, CancelOK
    <3>2. pc'[k] # "clear"
      BY <2>1, <3>1 DEF Inv, PlacesOK, Transfers, Jobs
    <3>3. ~(j \in Transfers /\ pc[j] = "clear")
      BY <3>1 DEF Inv, TransferLockOK
    <3>4. QED BY <3>1, <3>2, <3>3
  <2>3. QED BY <2>1, <2>2 DEF Inv, CancelOK
<1>5. FilesOK'
  BY DEF Inv, PlacesOK, FilesOK
<1>6. QED BY <1>1, <1>2, <1>3, <1>4, <1>5 DEF Inv

(* The same for a step written with GoTo.                                   *)
LEMMA Move ==
  ASSUME Inv, NEW j \in Jobs, NEW place \in Held(j) \ {"clear"}, NEW p,
         pc[j] \in Held(j), GoTo(j, place, p), UNCHANGED <<shut, closing, cleaned>>,
         (stopT' = stopT) \/ (j \in Transfers /\ pc[j] = "clear"),
         cleaned => place \notin Working /\ temp' = temp
  PROVE  Inv'
  BY Step DEF GoTo

(* A call that waits or picks a folder goes on outside the "with" block.    *)
LEMMA Approach ==
  ASSUME Inv, NEW j \in Jobs, NEW place \in {"pick", "wait"}, NEW p,
         pc[j] \in Outside, GoTo(j, place, p),
         UNCHANGED <<shut, closing, cleaned, stopT, temp>>
  PROVE  Inv'
<1>1. PlacesOK'
  <2>1. place \in Places /\ place \in Outside
    BY DEF Outside, Places
  <2>2. QED BY <2>1 DEF Inv, PlacesOK, GoTo, locks
<1>2. TransferLockOK' /\ ConversionLockOK'
  BY HeldFacts DEF Inv, PlacesOK, TransferLockOK, ConversionLockOK, GoTo, locks, Transfers, Jobs, Outside
<1>3. CloserOK'
  BY DEF Inv, CloserOK, GoTo, locks
<1>4. CancelOK'
  BY DEF Inv, PlacesOK, CancelOK, GoTo, locks, pressed, Transfers, Jobs
<1>5. FilesOK'
  BY DEF Inv, PlacesOK, FilesOK, GoTo, Working
<1>6. QED BY <1>1, <1>2, <1>3, <1>4, <1>5 DEF Inv

(* A call returns or raises, with or without the lock.                      *)
LEMMA Leaves ==
  ASSUME Inv, NEW j \in Jobs, NEW how \in Ended, Leave(j, how),
         UNCHANGED <<shut, closing, cleaned, stopT, temp>>
  PROVE  Inv'
<1>1. PlacesOK'
  <2>1. how \in Places /\ how \in Outside
    BY DEF Outside, Ended, Places
  <2>2. QED BY <2>1 DEF Inv, PlacesOK, Leave
<1>2. TransferLockOK' /\ ConversionLockOK'
  BY HeldFacts DEF Inv, PlacesOK, TransferLockOK, ConversionLockOK, Leave, Transfers, Jobs, Outside, Ended
<1>3. CloserOK'
  BY HeldFacts DEF Inv, CloserOK, Leave
<1>4. CancelOK'
  BY DEF Inv, PlacesOK, CancelOK, Leave, Transfers, Jobs, Ended
<1>5. FilesOK'
  BY DEF Inv, PlacesOK, FilesOK, Leave, Working, Ended
<1>6. QED BY <1>1, <1>2, <1>3, <1>4, <1>5 DEF Inv

(* A step that leaves calls, locks, events, files and _shutdown alone.      *)
LEMMA Elsewhere ==
  ASSUME Inv, UNCHANGED <<pc, locks, asked, stopT, closing, cleaned, temp, shut>>
  PROVE  Inv'
  BY DEF Inv, PlacesOK, TransferLockOK, ConversionLockOK, CloserOK, CancelOK, FilesOK, locks

-----------------------------------------------------------------------------
(* One lemma for each kind of call.                                        *)

(* Taking a lock that is free.                                             *)
LEMMA LocksTaken ==
  ASSUME Inv, NEW j \in Jobs, pc[j] = "wait", pc' = [pc EXCEPT ![j] = "clear"],
         \/ j \in Transfers /\ lockT = Nobody /\ lockT' = j /\ lockC' = lockC
         \/ j \in Convert /\ lockC = Nobody /\ lockC' = j /\ lockT' = lockT,
         UNCHANGED <<pressed, flags, files, shut>>
  PROVE  Inv'
<1>1. PlacesOK'
  <2>1. "clear" \in Places /\ "clear" \in Held(j)
    BY HeldFacts DEF Places, CopyHeld
  <2>2. QED BY <2>1 DEF Inv, PlacesOK
<1>2. TransferLockOK' /\ ConversionLockOK'
  BY HeldFacts DEF Inv, PlacesOK, TransferLockOK, ConversionLockOK, Transfers, Jobs, Outside
<1>3. CloserOK'
  BY HeldFacts DEF Inv, CloserOK, flags, files
<1>4. CancelOK'
  <2>1. ASSUME NEW k \in asked PROVE k # j /\ lockT' = k /\ pc'[k] # "clear" /\ stopT'
    <3>1. k \in Transfers /\ lockT = k /\ pc[k] # "clear" /\ stopT
      BY DEF Inv, CancelOK
    <3>2. k # j /\ lockT # Nobody
      BY <3>1, HeldFacts DEF Inv, TransferLockOK, Outside, Transfers, Jobs
    <3>3. QED BY <3>1, <3>2 DEF Inv, PlacesOK, Transfers, Jobs, flags
  <2>2. QED BY <2>1 DEF Inv, CancelOK, pressed
<1>5. FilesOK'
  BY DEF Inv, PlacesOK, FilesOK, Working, files
<1>6. QED BY <1>1, <1>2, <1>3, <1>4, <1>5 DEF Inv

(* convert_files.                                                          *)
LEMMA ConvertKeeps ==
  ASSUME Inv, NEW j \in Convert, convert_files(j)
  PROVE  Inv'
<1> USE DEF Jobs
<1>0. Held(j) = ConvertHeld /\ j \notin Transfers
  BY HeldFacts DEF Transfers
<1>1. CASE TakeConversionLock(j)
  BY <1>1, LocksTaken DEF TakeConversionLock
<1>2. CASE TestClosing(j)
  BY <1>0, <1>2, Move DEF TestClosing, ConvertHeld, Working, flags, files
<1>3. CASE ClearConversionCancel(j)
  BY <1>0, <1>3, Move DEF ClearConversionCancel, ConvertHeld, Working, files
<1>4. CASE ConvertStarts(j)
  <2>1. ~cleaned
    BY <1>4 DEF ConvertStarts, Inv, CloserOK
  <2>2. QED BY <1>0, <1>4, <2>1, Move DEF ConvertStarts, ConvertHeld, flags
<1>5. CASE ConvertSkips(j)
  BY <1>0, <1>5, Move DEF ConvertSkips, ConvertHeld, Working, flags, files
<1>6. CASE ConvertReturns(j)
  BY <1>6, Leaves DEF ConvertReturns, Ended, flags, files
<1>7. ASSUME NEW ok \in BOOLEAN, ConvertEnds(j, ok) PROVE Inv'
  <2>1. ~cleaned
    BY <1>7 DEF ConvertEnds, Inv, FilesOK, Working
  <2>2. QED BY <1>0, <1>7, <2>1, Move DEF ConvertEnds, ConvertHeld, flags
<1>8. QED BY <1>1, <1>2, <1>3, <1>4, <1>5, <1>6, <1>7 DEF convert_files

(* copy_from_vita.                                                         *)
LEMMA CopyKeeps ==
  ASSUME Inv, NEW j \in Copy, copy_from_vita(j)
  PROVE  Inv'
<1> USE DEF Jobs
<1>0. Held(j) = CopyHeld /\ j \in Transfers /\ j \notin Send
  BY HeldFacts DEF Transfers
<1>1. CASE TakeTransferLock(j)
  BY <1>0, <1>1, LocksTaken DEF TakeTransferLock
<1>2. CASE ClearTransferCancel(j)
  <2>1. stopT' = FALSE /\ GoTo(j, "copy", First) /\ pc[j] = "clear"
    BY <1>0, <1>2 DEF ClearTransferCancel
  <2>2. QED BY <1>0, <1>2, <2>1, Move DEF ClearTransferCancel, CopyHeld, Working, files
<1>3. CASE CopyChecks(j)
  <2>1. CASE stopT \/ closing
    BY <1>3, <2>1, Leaves DEF CopyChecks, Ended, flags, files
  <2>2. CASE ~(stopT \/ closing)
    <3>1. ~cleaned
      BY <2>2 DEF Inv, CloserOK
    <3>2. QED BY <1>0, <1>3, <2>2, <3>1, Move DEF CopyChecks, CopyHeld, flags, files
  <2>3. QED BY <2>1, <2>2
<1>4. CASE CopyArrives(j)
  <2>1. ~cleaned
    BY <1>4 DEF CopyArrives, Inv, FilesOK, Working
  <2>2. QED BY <1>0, <1>4, <2>1, Move DEF CopyArrives, CopyHeld, flags, files
<1>5. CASE CopyFails(j)
  <2>1. CASE stopT
    BY <1>5, <2>1, Leaves DEF CopyFails, Ended, flags, files
  <2>2. CASE ~stopT
    BY <1>0, <1>5, <2>2, Move DEF CopyFails, CopyHeld, Working, flags, files
  <2>3. QED BY <2>1, <2>2
<1>6. CASE CopyReturns(j)
  BY <1>6, Leaves DEF CopyReturns, Ended, flags, files
<1>7. QED BY <1>1, <1>2, <1>3, <1>4, <1>5, <1>6 DEF copy_from_vita

(* send_files.                                                             *)
LEMMA SendKeeps ==
  ASSUME Inv, NEW j \in Send, send_files(j)
  PROVE  Inv'
<1> USE DEF Jobs
<1>0. Held(j) = SendHeld /\ j \in Transfers
  BY HeldFacts DEF Transfers
<1>1. CASE TakeTransferLock(j)
  BY <1>0, <1>1, LocksTaken DEF TakeTransferLock
<1>2. CASE ClearTransferCancel(j)
  BY <1>0, <1>2, Move DEF ClearTransferCancel, SendHeld, Working, files
<1>3. ASSUME NEW ok \in BOOLEAN, SendPrepares(j, ok) PROVE Inv'
  <2>1. CASE closing \/ ~ok
    BY <1>3, <2>1, Leaves DEF SendPrepares, Ended, flags, files
  <2>2. CASE ~(closing \/ ~ok)
    <3>1. ~cleaned
      BY <2>2 DEF Inv, CloserOK
    <3>2. QED BY <1>0, <1>3, <2>2, <3>1, Move DEF SendPrepares, SendHeld, flags, files
  <2>3. QED BY <2>1, <2>2
<1>4. CASE PublishRefused(j)
  BY <1>4, Leaves DEF PublishRefused, Ended, flags, files
<1>5. CASE PublishUnanswered(j)
  <2>1. CASE pc[j] = "usb"
    <3>1. ~cleaned
      BY <2>1 DEF Inv, FilesOK, Working
    <3>2. QED BY <1>0, <1>5, <2>1, <3>1, Move DEF PublishUnanswered, PublishFails, SendHeld, flags, files
  <2>2. CASE pc[j] # "usb"
    BY <1>5, <2>2, Leaves DEF PublishUnanswered, PublishFails, Ended, flags, files
  <2>3. QED BY <2>1, <2>2
<1>6. CASE PublishAnswered(j) \/ PublishMisreported(j)
  <2>1. pc' = [pc EXCEPT ![j] = "upload"] /\ pc[j] \in {"usb", "wifi"}
        /\ UNCHANGED <<locks, pressed, flags, files, shut>>
    BY <1>6 DEF PublishAnswered, PublishMisreported
  <2>2. ~cleaned
    BY <2>1 DEF Inv, FilesOK, Working
  <2>3. QED BY <1>0, <2>1, <2>2, Step DEF SendHeld, Working, flags, files
<1>7. CASE UploadConfirmed(j) \/ UploadRaises(j)
  <2>1. ~cleaned
    BY <1>7 DEF UploadConfirmed, UploadRaises, Inv, FilesOK, Working
  <2>2. QED BY <1>0, <1>7, <2>1, Move DEF UploadConfirmed, UploadRaises, SendHeld, flags, files
<1>8. CASE SyncAccepted(j) \/ SyncRaises(j)
  BY <1>0, <1>8, Move DEF SyncAccepted, SyncRaises, SendHeld, Working, flags, files
<1>9. CASE PollReads(j)
  BY <1>0, <1>9, Step DEF PollReads, SendHeld, Working, flags, files
<1>10. CASE PollRaises(j)
  BY <1>0, <1>10, Move DEF PollRaises, SendHeld, Working, flags, files
<1>11. CASE PollDecides(j)
  <2>1. CASE seen.settled /\ ~seen.syncing
    BY <1>11, <2>1, Leaves DEF PollDecides, Ended, flags, files
  <2>2. CASE ~(seen.settled /\ ~seen.syncing)
    BY <1>0, <1>11, <2>2, Move DEF PollDecides, SendHeld, Working, flags, files
  <2>3. QED BY <2>1, <2>2
<1>12. CASE SendUndoes(j)
  BY <1>12, Leaves DEF SendUndoes, Ended, flags, files
<1>13. QED
  BY <1>1, <1>2, <1>3, <1>4, <1>5, <1>6, <1>7, <1>8, <1>9, <1>10, <1>11, <1>12 DEF send_files

(* _shutdown.                                                              *)
LEMMA ShutdownKeeps ==
  ASSUME Inv, _shutdown
  PROVE  Inv'
<1>1. CASE ShutdownCloses \/ ShutdownStopsConversion \/ ShutdownStopsTransfer
  <2>1. UNCHANGED <<pc, lockC, lockT, asked, temp, cleaned>> /\ (stopT => stopT')
    BY <1>1 DEF ShutdownCloses, ShutdownStopsConversion, ShutdownStopsTransfer,
                calls, locks, pressed, files
  <2>2. CloserOK'
    BY <1>1, <2>1 DEF ShutdownCloses, ShutdownStopsConversion, ShutdownStopsTransfer, Inv, CloserOK
  <2>3. QED
    BY <2>1, <2>2 DEF Inv, PlacesOK, TransferLockOK, ConversionLockOK, CancelOK, FilesOK
<1>2. CASE ShutdownLocks
  <2>1. PlacesOK' /\ TransferLockOK' /\ ConversionLockOK' /\ FilesOK'
    BY <1>2, HeldFacts DEF ShutdownLocks, Inv, PlacesOK, TransferLockOK, ConversionLockOK,
                           FilesOK, files, Transfers, Jobs
  <2>2. CloserOK'
    BY <1>2, HeldFacts DEF ShutdownLocks, Inv, CloserOK, flags, files
  <2>3. CancelOK'
    BY <1>2, HeldFacts DEF ShutdownLocks, Inv, CancelOK, flags, pressed, Transfers, Jobs
  <2>4. QED BY <2>1, <2>2, <2>3 DEF Inv
<1>3. CASE ShutdownCleans
  <2>1. lockT = Closer /\ lockC = Closer
    BY <1>3 DEF ShutdownCleans, Inv, CloserOK
  <2>2. \A j \in Jobs : pc[j] \notin Held(j)
    BY <2>1, HeldFacts DEF Inv, TransferLockOK, ConversionLockOK, Transfers, Jobs
  <2>3. \A j \in Jobs : pc[j] \in Outside
    BY <2>2 DEF Inv, PlacesOK
  <2>4. PlacesOK' /\ TransferLockOK' /\ ConversionLockOK'
    BY <1>3, <2>2, HeldFacts DEF ShutdownCleans, Inv, PlacesOK, TransferLockOK,
                                 ConversionLockOK, Transfers, Jobs
  <2>5. CloserOK'
    BY <1>3, HeldFacts DEF ShutdownCleans, Inv, CloserOK, flags
  <2>6. asked = {}
    BY <2>1, HeldFacts DEF Inv, CancelOK, Transfers, Jobs
  <2>7. FilesOK' /\ CancelOK'
    BY <1>3, <2>3, <2>6 DEF ShutdownCleans, FilesOK, CancelOK, Outside, Working, pressed
  <2>8. QED BY <2>4, <2>5, <2>7 DEF Inv
<1>4. QED BY <1>1, <1>2, <1>3 DEF _shutdown

(* The Cancel button of a transfer.                                        *)
LEMMA CancelKeeps ==
  ASSUME Inv, NEW j \in Jobs, cancel_transfer(j)
  PROVE  Inv'
<1>1. UNCHANGED <<pc, lockC, lockT, closing, temp, cleaned, shut>> /\ stopT' = TRUE
  BY DEF cancel_transfer, locks, files
<1>2. CancelOK'
  BY <1>1 DEF cancel_transfer, Inv, CancelOK
<1>3. QED
  BY <1>1, <1>2 DEF Inv, PlacesOK, TransferLockOK, ConversionLockOK, CloserOK, FilesOK

-----------------------------------------------------------------------------
(* The Vita's queue, as a call of send_files leaves it.                    *)

\* Where the queue of a call has been published, and where it was synced.
Published == {"upload", "sync", "poll", "items", "undo"}
Synced == {"poll", "items"}

\* What the two transfers of USB and Wi-Fi, and the Vita, may be.
QueueType ==
  /\ vita \in Queue /\ via \in [Jobs -> {"usb", "wifi"}]

\* The file a call is at; behind the last one it uses none.
Positions == {p \in Place : p.part = "m4t" => p.item \in Sidecars}
AtFile == {"prepare", "usb", "wifi", "upload", "download", "running"}
PositionOK ==
  /\ pos \in [Jobs -> Positions]
  /\ \A j \in Jobs : pc[j] \in AtFile => pos[j].item <= N

\* The queue is free, or becomes so with the import under way.
Freed == Replaceable \/ (vita.cancelled /\ vita.syncing)

\* Nothing of the queue is left to be uploaded; when the Vita has closed it,
\* nothing is left to be imported either, unless it was cancelled.
Closed ==
  \A i \in DOMAIN vita.items :
    /\ State(i) \in {"received", "importing", "imported", "failed"}
    /\ ~vita.syncing => State(i) \in {"imported", "failed"} \/ vita.cancelled

\* What is true of the queue when the call j is at this place: which call it is
\* of, and how the counters read last relate to it.
QueueAt(j, place) ==
  /\ place # "pick"
  /\ "publish" \notin lost /\ place \in Published /\ via[j] = "usb" => mode = "usb" /\ vita.id = j
  /\ "publish" \notin lost /\ place = "items" => vita.id = j
  /\ place = "items" /\ vita.syncing => seen.syncing
  /\ place = "items" /\ vita.id = j /\ seen.settled => Counted >= Len(vita.items)
  /\ place \in Synced /\ vita.id = j => Closed
  /\ "answer" \notin lost /\ vita.id = j => place \in Published \cup Ended
  /\ lost = {} /\ place \in Ended /\ vita.id = j => Freed

QueueInv == QueueType /\ \A j \in Send : QueueAt(j, pc[j])

(* The transfer lock: while one call of send_files is past its "with"       *)
(* statement the others are outside theirs.                                 *)
LEMMA OneSender ==
  ASSUME Inv, NEW j \in Send, pc[j] \in SendHeld, NEW k \in Send, k # j
  PROVE  pc[k] \in Outside /\ pc[k] \notin Published \cup Synced
<1>1. pc[k] \notin SendHeld
  BY HeldFacts DEF Inv, TransferLockOK, Transfers
<1>2. pc[k] \in Outside
  BY <1>1, HeldFacts DEF Inv, PlacesOK, Jobs
<1> QED
  BY <1>2 DEF Outside, Published, Synced

(* A step of a call that holds the lock: the other calls are outside, and   *)
(* the queue is its own unless a publish went wrong.                        *)
LEMMA SenderSteps ==
  ASSUME Inv, QueueInv, NEW j \in Send, pc[j] \in SendHeld, NEW place,
         pc' = [pc EXCEPT ![j] = place], lost \subseteq lost', QueueType',
         \/ vita' = vita
         \/ vita'.id = j
         \/ vita'.id = vita.id /\ lost' # {},
         QueueAt(j, place)'
  PROVE  QueueInv'
<1>1. pc'[j] = place /\ \A k \in Send : k # j => pc'[k] = pc[k]
  BY DEF Inv, PlacesOK, Jobs
<1>2. QueueAt(j, pc[j])'
  BY <1>1
<1>3. ASSUME NEW k \in Send, k # j PROVE QueueAt(k, pc[k])'
  <2>1. pc'[k] = pc[k] /\ pc[k] \in Outside /\ pc[k] \notin Published \cup Synced
    BY <1>1, <1>3, OneSender
  <2>2. pc[k] # "items" /\ pc[k] # "pick"
    BY <2>1 DEF QueueInv, QueueAt, Synced
  <2>3. /\ "answer" \notin lost /\ vita.id = k => pc[k] \in Published \cup Ended
        /\ lost = {} /\ pc[k] \in Ended /\ vita.id = k => Freed
    BY DEF QueueInv, QueueAt
  <2>4. "answer" \notin lost' /\ vita'.id = k => pc[k] \in Published \cup Ended
    BY <1>3, <2>3
  <2>5. lost' = {} /\ pc[k] \in Ended /\ vita'.id = k => Freed'
    <3>1. ASSUME lost' = {}, pc[k] \in Ended, vita'.id = k PROVE Freed'
      <4>1. vita' = vita /\ lost = {}
        BY <1>3, <3>1
      <4> QED
        BY <2>3, <3>1, <4>1 DEF Freed, Replaceable, Counted, State
    <3> QED
      BY <3>1
  <2> QED
    BY <2>1, <2>2, <2>4, <2>5 DEF QueueAt
<1> QED
  BY <1>2, <1>3 DEF QueueInv

(* A step that leaves the calls of send_files and the queue alone.          *)
LEMMA QueueElsewhere ==
  ASSUME Inv, QueueInv, \A k \in Send : pc'[k] = pc[k] /\ via'[k] = via[k],
         via' \in [Jobs -> {"usb", "wifi"}], UNCHANGED <<vita, mode, lost, seen>>
  PROVE  QueueInv'
<1>1. QueueType'
  BY DEF QueueInv, QueueType, Queue, Item
<1>2. ASSUME NEW k \in Send PROVE QueueAt(k, pc[k])'
  <2>1. QueueAt(k, pc[k])
    BY DEF QueueInv
  <2>2. pc'[k] = pc[k] /\ via'[k] = via[k] /\ vita' = vita /\ mode' = mode /\ lost' = lost /\ seen' = seen
    OBVIOUS
  <2> QED
    BY <2>1, <2>2 DEF QueueAt, Freed, Replaceable, Counted, Closed, State
<1> QED
  BY <1>1, <1>2 DEF QueueInv

(* A call that begins or waits for its lock has published nothing.          *)
LEMMA SenderWaits ==
  ASSUME Inv, QueueInv, NEW j \in Send, pc[j] \in {"idle", "wait"},
         NEW place \in {"wait", "clear"}, pc' = [pc EXCEPT ![j] = place],
         UNCHANGED <<via, vita, mode, lost, seen>>
  PROVE  QueueInv'
<1>1. QueueType'
  BY DEF QueueInv, QueueType, Queue, Item
<1>2. ASSUME NEW k \in Send PROVE QueueAt(k, pc[k])'
  <2>1. QueueAt(k, pc[k])
    BY DEF QueueInv
  <2>2. via' = via /\ vita' = vita /\ mode' = mode /\ lost' = lost /\ seen' = seen
    OBVIOUS
  <2>3. pc'[k] = IF k = j THEN place ELSE pc[k]
    BY DEF Inv, PlacesOK, Jobs
  <2>4. CASE k # j
    <3>1. pc'[k] = pc[k]
      BY <2>3, <2>4
    <3> QED
      BY <2>1, <2>2, <3>1 DEF QueueAt, Freed, Replaceable, Counted, Closed, State
  <2>5. CASE k = j
    <3>1. pc'[k] = place /\ place \notin Published \cup Ended \cup Synced /\ pc[k] \notin Published \cup Ended
      BY <2>3, <2>5 DEF Published, Ended, Synced
    <3> QED
      BY <2>1, <2>2, <3>1 DEF QueueAt, Synced
  <2> QED
    BY <2>4, <2>5
<1> QED
  BY <1>1, <1>2 DEF QueueInv

(* The call goes on and leaves the queue alone.                             *)
LEMMA SenderMoves ==
  ASSUME Inv, QueueInv, NEW j \in Send, pc[j] \in SendHeld, NEW place, NEW p, GoTo(j, place, p),
         UNCHANGED <<vita, mode, lost>>,
         place \in Published <=> pc[j] \in Published,
         place \notin Ended, place \notin {"items", "pick"}, place = "poll" => pc[j] \in Synced
  PROVE  QueueInv'
<1>1. pc' = [pc EXCEPT ![j] = place] /\ via' = via /\ seen' = seen
  BY DEF GoTo
<1>2. QueueType'
  BY <1>1 DEF QueueInv, QueueType, Queue, Item
<1>3. QueueAt(j, pc[j]) /\ pc[j] \notin Ended
  BY DEF QueueInv, SendHeld, Ended
<1>4. vita' = vita /\ mode' = mode /\ lost' = lost
  OBVIOUS
<1>5. QueueAt(j, place)'
  BY <1>1, <1>3, <1>4 DEF QueueAt, Synced, Closed, State
<1> QED
  BY <1>1, <1>2, <1>4, <1>5, SenderSteps

(* The call changes the queue that its requests match.                      *)
LEMMA SenderChanges ==
  ASSUME Inv, QueueInv, NEW j \in Send, pc[j] \in {"upload", "sync"},
         NEW place \in Published \ {"items"}, NEW p, GoTo(j, place, p),
         UNCHANGED <<mode, lost>>, Matches(j), vita' \in Queue, vita'.id = vita.id,
         place = "poll" => Closed'
  PROVE  QueueInv'
<1>1. pc' = [pc EXCEPT ![j] = place] /\ via' = via /\ seen' = seen
  BY DEF GoTo
<1>2. QueueType'
  BY <1>1 DEF QueueInv, QueueType
<1>3. QueueAt(j, pc[j]) /\ pc[j] \in Published /\ pc[j] \in SendHeld
  BY DEF QueueInv, Published, SendHeld
<1>4. mode' = mode /\ lost' = lost
  OBVIOUS
<1>5. vita.id = j \/ lost # {}
  BY <1>3 DEF Matches, QueueAt
<1>6. place \notin Ended /\ place # "pick"
  BY DEF Published, Ended
<1>7. QueueAt(j, place)'
  BY <1>1, <1>3, <1>4, <1>6 DEF QueueAt, Synced
<1> QED
  BY <1>1, <1>2, <1>3, <1>4, <1>5, <1>7, SenderSteps

(* The call ends, and the queue is free if it is its own.                   *)
LEMMA SenderLeaves ==
  ASSUME Inv, QueueInv, NEW j \in Send, pc[j] \in SendHeld, NEW how \in Ended, Leave(j, how),
         lost \subseteq lost', vita' \in Queue,
         \/ vita' = vita
         \/ vita'.id = j
         \/ vita'.id = vita.id /\ lost' # {},
         lost' = {} /\ vita'.id = j => Freed'
  PROVE  QueueInv'
<1>1. pc' = [pc EXCEPT ![j] = how] /\ via' = [via EXCEPT ![j] = "wifi"]
  BY DEF Leave
<1>2. QueueType'
  BY <1>1 DEF QueueInv, QueueType
<1>3. how \notin Published \cup Synced /\ how # "items"
  BY DEF Ended, Published, Synced
<1>4. QueueAt(j, how)'
  BY <1>3 DEF QueueAt, Ended
<1> QED
  BY <1>1, <1>2, <1>4, SenderSteps

(* What the Vita stores of a queue.                                         *)
LEMMA FreshType == \A id \in Send \cup Others : Fresh(id) \in Queue /\ Fresh(id).id = id
<1> SUFFICES ASSUME NEW id \in Send \cup Others PROVE Fresh(id) \in Queue /\ Fresh(id).id = id
  OBVIOUS
<1>1. N \in Nat
  BY JobsAssumption
<1>2. [state |-> "waiting", ready |-> {}] \in Item
  BY DEF Item, ItemStates
<1>3. [i \in 1 .. N |-> [state |-> "waiting", ready |-> {}]] \in Seq(Item)
  BY <1>1, <1>2
<1> QED
  BY <1>3 DEF Fresh, Queue

LEMMA ItemSet ==
  ASSUME vita \in Queue, NEW i \in DOMAIN vita.items, NEW item \in Item
  PROVE  /\ WithItem(i, item) \in Queue
         /\ WithItem(i, item) = [id |-> vita.id, items |-> [vita.items EXCEPT ![i] = item],
                                 failed |-> vita.failed, syncing |-> vita.syncing, cancelled |-> vita.cancelled]
         /\ [vita.items EXCEPT ![i] = item] \in Seq(Item)
<1>1. [vita.items EXCEPT ![i] = item] \in Seq(Item)
  BY DEF Queue
<1>2. WithItem(i, item) = [id |-> vita.id, items |-> [vita.items EXCEPT ![i] = item],
                           failed |-> vita.failed, syncing |-> vita.syncing, cancelled |-> vita.cancelled]
  BY DEF WithItem, Queue
<1> QED
  BY <1>1, <1>2 DEF Queue

LEMMA StateSet ==
  ASSUME vita \in Queue, NEW i \in DOMAIN vita.items, NEW state \in ItemStates
  PROVE  /\ WithState(i, state) \in Queue
         /\ WithState(i, state).id = vita.id /\ WithState(i, state).failed = vita.failed
         /\ WithState(i, state).syncing = vita.syncing /\ WithState(i, state).cancelled = vita.cancelled
         /\ DOMAIN WithState(i, state).items = DOMAIN vita.items
         /\ Len(WithState(i, state).items) = Len(vita.items)
         /\ WithState(i, state).items[i].state = state
         /\ \A k \in DOMAIN vita.items : k # i => WithState(i, state).items[k] = vita.items[k]
<1> DEFINE item == [state |-> state, ready |-> vita.items[i].ready]
<1>1. vita.items \in Seq(Item) /\ vita.items[i] \in Item
  BY DEF Queue
<1>2. item \in Item
  BY <1>1 DEF Item
<1>3. WithState(i, state) = WithItem(i, item)
  BY DEF WithState
<1> HIDE DEF item
<1>4. /\ WithItem(i, item) \in Queue
      /\ WithItem(i, item) = [id |-> vita.id, items |-> [vita.items EXCEPT ![i] = item],
                              failed |-> vita.failed, syncing |-> vita.syncing, cancelled |-> vita.cancelled]
  BY <1>2, ItemSet
<1>5. item.state = state
  BY DEF item
<1>6. Len([vita.items EXCEPT ![i] = item]) = Len(vita.items)
  BY <1>1
<1> QED
  BY <1>1, <1>3, <1>4, <1>5, <1>6

(* An upload, a rejected one and the start of the import keep the queue's   *)
(* identity; with the start everything is received or failed.               *)
LEMMA RequestKeeps ==
  ASSUME QueueType, NEW j \in Send, NEW p \in Positions, Receives(j, p) \/ Rejects(j, p) \/ Syncs(j)
  PROVE  Matches(j) /\ vita' \in Queue /\ vita'.id = vita.id /\ (Syncs(j) => Closed')
<1>0. vita \in Queue
  BY DEF QueueType
<1>1. CASE Receives(j, p)
  <2> DEFINE ready == vita.items[p.item].ready \cup {p.part}
             whole == "media" \in ready /\ (p.item \in Sidecars => "m4t" \in ready)
             item == [state |-> IF whole THEN "received" ELSE "receiving", ready |-> ready]
  <2>1. Matches(j) /\ p.item \in DOMAIN vita.items /\ vita' = WithItem(p.item, item) /\ ~vita.syncing
    BY <1>1 DEF Receives, Wanted
  <2>2. vita.items[p.item] \in Item /\ p.part \in {"media", "m4t"}
    BY <1>0, <2>1 DEF Queue, Positions, Place
  <2>3. ready \in SUBSET {"media", "m4t"}
    BY <2>2 DEF Item
  <2>4. item \in Item
    BY <2>3 DEF Item, ItemStates
  <2> HIDE DEF item, whole, ready
  <2>5. vita' \in Queue /\ vita'.id = vita.id /\ vita'.syncing = vita.syncing
    BY <1>0, <2>1, <2>4, ItemSet
  <2>6. ~Syncs(j)
    BY <1>0, <2>1, <2>5 DEF Syncs, Queue
  <2> QED
    BY <2>1, <2>5, <2>6
<1>2. CASE Rejects(j, p)
  <2>1. Matches(j) /\ p.item \in DOMAIN vita.items /\ ~vita.syncing
        /\ vita' = [WithState(p.item, "failed") EXCEPT !.failed = vita.failed + 1]
    BY <1>2 DEF Rejects, Wanted
  <2>2. WithState(p.item, "failed") \in Queue /\ WithState(p.item, "failed").id = vita.id
        /\ WithState(p.item, "failed").syncing = vita.syncing
    BY <1>0, <2>1, StateSet DEF ItemStates
  <2>3. vita.failed + 1 \in Nat
    BY <1>0 DEF Queue
  <2>4. vita' \in Queue /\ vita'.id = vita.id /\ vita'.syncing = vita.syncing
    BY <2>1, <2>2, <2>3 DEF Queue
  <2>5. ~Syncs(j)
    BY <1>0, <2>1, <2>4 DEF Syncs, Queue
  <2> QED
    BY <2>1, <2>4, <2>5
<1>3. CASE Syncs(j)
  <2>1. Matches(j) /\ vita' = [vita EXCEPT !.syncing = TRUE]
        /\ \A i \in DOMAIN vita.items : vita.items[i].state \in {"received", "failed"}
    BY <1>3 DEF Syncs, State
  <2>2. vita' \in Queue /\ vita'.id = vita.id /\ vita'.syncing /\ vita'.items = vita.items
    BY <1>0, <2>1 DEF Queue
  <2>3. Closed'
    BY <2>1, <2>2 DEF Closed, State
  <2> QED
    BY <2>1, <2>2, <2>3
<1> QED
  BY <1>1, <1>2, <1>3

(* The next file, or the place behind the last.                             *)
LEMMA NextPositions ==
  /\ First \in Positions /\ First.item <= N
  /\ \A p \in Positions : p.item <= N =>
       /\ NextItem(p) \in Positions /\ NextItem(p).item = p.item + 1
       /\ NextFile(p) \in Positions /\ (NextFile(p).part = "m4t" => NextFile(p).item <= N)
<1>0. N \in Nat \ {0} /\ Sidecars \subseteq 1 .. N
  BY JobsAssumption
<1>1. First \in Positions /\ First.item <= N
  BY <1>0 DEF First, Positions, Place
<1>2. ASSUME NEW p \in Positions, p.item <= N
      PROVE  /\ NextItem(p) \in Positions /\ NextItem(p).item = p.item + 1
             /\ NextFile(p) \in Positions /\ (NextFile(p).part = "m4t" => NextFile(p).item <= N)
  <2>1. p.item \in 1 .. N /\ p.item + 1 \in 1 .. N + 1
    BY <1>0, <1>2 DEF Positions, Place
  <2>2. NextItem(p) \in Positions /\ NextItem(p).item = p.item + 1 /\ NextItem(p).part = "media"
    BY <2>1 DEF NextItem, Positions, Place
  <2>3. CASE p.part = "media" /\ p.item \in Sidecars
    BY <1>0, <1>2, <2>1, <2>2, <2>3 DEF NextFile, Positions, Place
  <2>4. CASE ~(p.part = "media" /\ p.item \in Sidecars)
    BY <2>2, <2>4 DEF NextFile
  <2> QED
    BY <2>2, <2>3, <2>4
<1> QED
  BY <1>1, <1>2

(* Every call is at a file, at a file's sidecar or behind the last file,    *)
(* where it uses none.                                                      *)
LEMMA PositionKeeps == Inv /\ PositionOK /\ [Next]_vars => PositionOK'
<1> SUFFICES ASSUME Inv, PositionOK, [Next]_vars PROVE PositionOK'
  OBVIOUS
<1>0. N \in Nat \ {0} /\ pc \in [Jobs -> Places]
  BY JobsAssumption DEF Inv, PlacesOK
<1>1. First \in Positions /\ First.item <= N
  BY NextPositions
<1>2. ASSUME NEW j \in Jobs
      PROVE  /\ pos[j] \in Positions /\ pos[j].item \in Nat
             /\ pc[j] \in AtFile \/ pos[j].item <= N =>
                  /\ pos[j].item <= N
                  /\ NextItem(pos[j]) \in Positions /\ NextItem(pos[j]).item = pos[j].item + 1
                  /\ NextFile(pos[j]) \in Positions
                  /\ NextFile(pos[j]).part = "m4t" => NextFile(pos[j]).item <= N
  <2>1. pos[j] \in Positions /\ (pc[j] \in AtFile => pos[j].item <= N)
    BY DEF PositionOK
  <2>2. pos[j].item \in Nat
    BY <1>0, <2>1 DEF Positions, Place
  <2> QED
    BY <2>1, <2>2, NextPositions
<1>3. ASSUME NEW j \in Jobs, NEW place, NEW p \in Positions, GoTo(j, place, p), place \in AtFile => p.item <= N
      PROVE  PositionOK'
  BY <1>0, <1>3 DEF GoTo, PositionOK
<1>4. ASSUME NEW j \in Jobs, NEW how, Leave(j, how) PROVE PositionOK'
  BY <1>0, <1>1, <1>4 DEF Leave, PositionOK
<1>5. CASE UNCHANGED <<pc, pos>>
  BY <1>5 DEF PositionOK
<1>6. ASSUME NEW j \in Jobs, NEW place, pc' = [pc EXCEPT ![j] = place], UNCHANGED pos,
             place \in AtFile => pos[j].item <= N
      PROVE  PositionOK'
  BY <1>0, <1>6 DEF PositionOK
<1>7. ASSUME NEW j \in Jobs, Run(j) PROVE PositionOK'
  <2>1. CASE convert_files(j)
    <3>1. CASE TakeConversionLock(j)
      BY <1>6, <3>1 DEF TakeConversionLock, AtFile
    <3>2. CASE TestClosing(j) \/ ClearConversionCancel(j)
      BY <1>1, <1>3, <3>2 DEF TestClosing, ClearConversionCancel
    <3>3. CASE ConvertStarts(j) \/ ConvertSkips(j)
      BY <1>2, <1>3, <3>3 DEF ConvertStarts, ConvertSkips, AtFile
    <3>4. CASE ConvertReturns(j)
      BY <1>4, <3>4 DEF ConvertReturns
    <3>5. ASSUME NEW ok \in BOOLEAN, ConvertEnds(j, ok) PROVE PositionOK'
      BY <1>2, <1>3, <3>5 DEF ConvertEnds, AtFile
    <3> QED
      BY <2>1, <3>1, <3>2, <3>3, <3>4, <3>5 DEF convert_files
  <2>2. CASE copy_from_vita(j)
    <3>1. CASE TakeTransferLock(j)
      BY <1>6, <3>1 DEF TakeTransferLock, AtFile
    <3>2. CASE ClearTransferCancel(j)
      BY <1>1, <1>3, <3>2 DEF ClearTransferCancel
    <3>3. CASE CopyChecks(j) \/ CopyFails(j) \/ CopyReturns(j)
      BY <1>2, <1>3, <1>4, <3>3 DEF CopyChecks, CopyFails, CopyReturns, AtFile
    <3>4. CASE CopyArrives(j)
      <4>1. pc[j] \in AtFile
        BY <3>4 DEF CopyArrives, AtFile
      <4> QED
        BY <1>2, <1>3, <3>4, <4>1 DEF CopyArrives, AtFile
    <3> QED
      BY <2>2, <3>1, <3>2, <3>3, <3>4 DEF copy_from_vita
  <2>3. CASE send_files(j)
    <3>1. CASE TakeTransferLock(j) \/ PublishAnswered(j) \/ PublishMisreported(j) \/ PollReads(j)
      BY <1>2, <1>6, <3>1 DEF TakeTransferLock, PublishAnswered, PublishMisreported, PollReads, AtFile
    <3>2. CASE ClearTransferCancel(j)
      BY <1>1, <1>3, <3>2 DEF ClearTransferCancel
    <3>3. ASSUME NEW ok \in BOOLEAN, SendPrepares(j, ok) PROVE PositionOK'
      <4>1. CASE closing \/ ~ok
        BY <1>4, <3>3, <4>1 DEF SendPrepares
      <4>2. CASE ~(closing \/ ~ok) /\ pos[j].item < N
        <5>1. pos[j].item <= N /\ pos[j].item + 1 <= N
          BY <1>0, <1>2, <4>2
        <5> QED
          BY <1>2, <1>3, <3>3, <4>2, <5>1 DEF SendPrepares
      <4>3. CASE ~(closing \/ ~ok) /\ ~(pos[j].item < N)
        BY <1>1, <1>3, <3>3, <4>3 DEF SendPrepares
      <4> QED
        BY <4>1, <4>2, <4>3
    <3>4. CASE PublishRefused(j) \/ SendUndoes(j)
      BY <1>4, <3>4 DEF PublishRefused, SendUndoes
    <3>5. CASE PublishUnanswered(j)
      BY <1>1, <1>3, <1>4, <3>5 DEF PublishUnanswered, PublishFails
    <3>6. CASE UploadConfirmed(j)
      <4>1. pc[j] \in AtFile /\ GoTo(j, IF NextFile(pos[j]).item > N THEN "sync" ELSE "upload", NextFile(pos[j]))
        BY <3>6 DEF UploadConfirmed, AtFile
      <4>2. NextFile(pos[j]) \in Positions
        BY <1>2, <4>1
      <4>3. NextFile(pos[j]).item > N \/ NextFile(pos[j]).item <= N
        BY <1>0, <4>2 DEF Positions, Place
      <4> QED
        BY <1>3, <4>1, <4>2, <4>3 DEF AtFile
    <3>7. CASE UploadRaises(j) \/ SyncAccepted(j) \/ SyncRaises(j) \/ PollRaises(j)
      BY <1>1, <1>3, <3>7 DEF UploadRaises, SyncAccepted, SyncRaises, PollRaises
    <3>8. CASE PollDecides(j)
      BY <1>1, <1>3, <1>4, <3>8 DEF PollDecides
    <3> QED
      BY <2>3, <3>1, <3>2, <3>3, <3>4, <3>5, <3>6, <3>7, <3>8 DEF send_files
  <2> QED
    BY <1>7, <2>1, <2>2, <2>3 DEF Run
<1>8. ASSUME NEW j \in Jobs, Call(j) \/ Picks(j) PROVE PositionOK'
  BY <1>1, <1>3, <1>4, <1>8 DEF Call, Picks
<1>9. ASSUME NEW j \in Jobs, cancel_transfer(j) PROVE PositionOK'
  BY <1>5, <1>9 DEF cancel_transfer
<1>10. CASE stop_conversion \/ Vita \/ _shutdown \/ Finished \/ Hangs \/ UNCHANGED vars
  <2>1. UNCHANGED <<pc, pos>>
    BY <1>10 DEF stop_conversion, Vita, VitaImports, _shutdown, ShutdownCloses, ShutdownStopsConversion,
                 ShutdownStopsTransfer, ShutdownLocks, ShutdownCleans, Finished, Hangs, vars, calls
  <2> QED
    BY <1>5, <2>1
<1> QED
  BY <1>7, <1>8, <1>9, <1>10 DEF Next

(* send_files: whatever fails, the queue stays as described.                *)
LEMMA SendersKeep ==
  ASSUME Inv, QueueInv, PositionOK, NEW j \in Send, send_files(j)
  PROVE  QueueInv'
<1>0. j \in Jobs /\ vita \in Queue /\ pos[j] \in Positions /\ QueueAt(j, pc[j]) /\ QueueType
  BY DEF Jobs, QueueInv, QueueType, PositionOK
<1>1. CASE TakeTransferLock(j)
  BY <1>1, SenderWaits DEF TakeTransferLock, world
<1>2. CASE ClearTransferCancel(j)
  <2>1. GoTo(j, "prepare", First) /\ pc[j] = "clear" /\ UNCHANGED <<vita, mode, lost>>
    BY <1>2 DEF ClearTransferCancel, world
  <2> QED
    BY <2>1, SenderMoves DEF Published, SendHeld, Ended
<1>3. ASSUME NEW ok \in BOOLEAN, SendPrepares(j, ok) PROVE QueueInv'
  <2>1. pc[j] = "prepare" /\ UNCHANGED <<vita, mode, lost>>
    BY <1>3 DEF SendPrepares, world
  <2>2. "answer" \notin lost => vita.id # j
    BY <1>0, <2>1 DEF QueueAt, Published, Ended
  <2>3. CASE Leave(j, "error")
    BY <1>0, <2>1, <2>2, <2>3, SenderLeaves DEF Ended, SendHeld
  <2>4. ASSUME NEW place \in {"prepare", "usb", "wifi"}, NEW p, GoTo(j, place, p) PROVE QueueInv'
    BY <2>1, <2>4, SenderMoves DEF Published, SendHeld, Ended
  <2> QED
    BY <1>3, <2>3, <2>4 DEF SendPrepares
<1>4. CASE PublishRefused(j)
  <2>1. pc[j] \in {"usb", "wifi"} /\ UNCHANGED <<vita, mode, lost>> /\ Leave(j, "error")
    BY <1>4 DEF PublishRefused, world
  <2>2. "answer" \notin lost => vita.id # j
    BY <1>0, <2>1 DEF QueueAt, Published, Ended
  <2> QED
    BY <1>0, <2>1, <2>2, SenderLeaves DEF Ended, SendHeld
<1>5. CASE PublishUnanswered(j)
  <2>1. pc[j] \in {"usb", "wifi"} /\ UNCHANGED mode /\ pc[j] \notin Published \cup Ended /\ pc[j] \in SendHeld
    BY <1>5 DEF PublishUnanswered, PublishFails, world, Published, Ended, SendHeld
  <2>2. "answer" \notin lost => vita.id # j
    BY <1>0, <2>1 DEF QueueAt
  <2>3. CASE UNCHANGED <<vita, lost>>
    <3>1. CASE GoTo(j, "wifi", First)
      BY <2>1, <2>3, <3>1, SenderMoves DEF Published, Ended
    <3>2. CASE Leave(j, "error")
      BY <1>0, <2>1, <2>2, <2>3, <3>2, SenderLeaves DEF Ended
    <3> QED
      BY <1>5, <3>1, <3>2 DEF PublishUnanswered, PublishFails
  <2>4. CASE vita' = Fresh(j) /\ lost' = lost \cup {"answer"}
    <3>1. vita' \in Queue /\ vita'.id = j /\ lost' # {} /\ lost \subseteq lost' /\ "answer" \in lost'
      BY <2>4, FreshType
    <3>2. CASE GoTo(j, "wifi", First)
      <4>1. pc' = [pc EXCEPT ![j] = "wifi"] /\ via' = via
        BY <3>2 DEF GoTo
      <4>2. QueueType'
        BY <3>1, <4>1 DEF QueueInv, QueueType
      <4>3. QueueAt(j, "wifi")'
        BY <3>1 DEF QueueAt, Published, Synced, Ended
      <4> QED
        BY <2>1, <3>1, <4>1, <4>2, <4>3, SenderSteps
    <3>3. CASE Leave(j, "error")
      BY <2>1, <3>1, <3>3, SenderLeaves DEF Ended
    <3> QED
      BY <1>5, <3>2, <3>3 DEF PublishUnanswered, PublishFails
  <2> QED
    BY <1>5, <2>3, <2>4 DEF PublishUnanswered
<1>6. CASE PublishAnswered(j) \/ PublishMisreported(j)
  <2>1. /\ pc[j] \in {"usb", "wifi"} /\ pc[j] = mode /\ mode' = mode
        /\ pc' = [pc EXCEPT ![j] = "upload"] /\ via' = [via EXCEPT ![j] = mode]
        /\ lost \subseteq lost'
        /\ \/ vita' = Fresh(j)
           \/ vita' = vita /\ "publish" \in lost'
    BY <1>6 DEF PublishAnswered, PublishMisreported, world
  <2>2. vita' \in Queue /\ (vita' = vita \/ vita'.id = j)
    BY <1>0, <2>1, FreshType
  <2>3. QueueType'
    BY <2>1, <2>2 DEF QueueInv, QueueType
  <2>4. "publish" \notin lost' => vita'.id = j
    BY <2>1, FreshType
  <2>5. via'[j] = mode
    BY <1>0, <2>1 DEF QueueType
  <2>6. QueueAt(j, "upload")'
    BY <2>1, <2>4, <2>5 DEF QueueAt, Published, Synced, Ended
  <2> QED
    BY <2>1, <2>2, <2>3, <2>6, SenderSteps DEF SendHeld
<1>7. CASE UploadConfirmed(j) \/ UploadRaises(j)
  <2>1. pc[j] = "upload" /\ UNCHANGED <<mode, lost>>
    BY <1>7 DEF UploadConfirmed, UploadRaises, world
  <2>2. PICK place \in {"upload", "sync", "undo"}, p \in {First, NextFile(pos[j])} : GoTo(j, place, p)
    BY <1>7 DEF UploadConfirmed, UploadRaises
  <2>3. CASE UNCHANGED vita
    BY <2>1, <2>2, <2>3, SenderMoves DEF Published, Synced, SendHeld, Ended
  <2>4. CASE Receives(j, pos[j]) \/ Rejects(j, pos[j])
    <3>1. Matches(j) /\ vita' \in Queue /\ vita'.id = vita.id
      BY <1>0, <2>4, RequestKeeps
    <3> QED
      BY <2>1, <2>2, <3>1, SenderChanges DEF Published
  <2> QED
    BY <1>7, <2>3, <2>4 DEF UploadConfirmed, UploadRaises
<1>8. CASE SyncAccepted(j) \/ SyncRaises(j)
  <2>1. pc[j] = "sync" /\ UNCHANGED <<mode, lost>>
    BY <1>8 DEF SyncAccepted, SyncRaises, world
  <2>2. CASE Syncs(j)
    <3>1. Matches(j) /\ vita' \in Queue /\ vita'.id = vita.id /\ Closed'
      BY <1>0, <2>2, RequestKeeps
    <3>2. PICK place \in {"poll", "undo"} : GoTo(j, place, First)
      BY <1>8 DEF SyncAccepted, SyncRaises
    <3> QED
      BY <2>1, <3>1, <3>2, SenderChanges DEF Published
  <2>3. CASE UNCHANGED vita /\ GoTo(j, "undo", First)
    BY <2>1, <2>3, SenderMoves DEF Published, SendHeld, Ended
  <2> QED
    BY <1>8, <2>2, <2>3 DEF SyncAccepted, SyncRaises
<1>9. CASE PollReads(j)
  <2>1. /\ pc[j] = "poll" /\ Recognised(j) /\ UNCHANGED <<via, vita, mode, lost>>
        /\ seen' = [settled |-> Counted = Len(vita.items), syncing |-> vita.syncing, cancelled |-> vita.cancelled]
        /\ pc' = [pc EXCEPT ![j] = "items"]
    BY <1>9 DEF PollReads, world
  <2>2. QueueType'
    BY <2>1 DEF QueueInv, QueueType, Queue, Item
  <2>3. "publish" \notin lost => vita.id = j
    BY <1>0, <2>1 DEF QueueAt, Recognised, Published
  <2>4. seen'.syncing = vita.syncing /\ (seen'.settled => Counted = Len(vita.items))
    BY <2>1
  <2>5. Counted' = Counted /\ vita' = vita /\ lost' = lost /\ mode' = mode /\ via' = via
    BY <2>1 DEF Counted, State
  <2>6. vita.id = j => Closed'
    BY <1>0, <2>1 DEF QueueAt, Synced, Closed, State
  <2>7. vita.id = j /\ seen'.settled => Counted' >= Len(vita.items)
    <3>1. Len(vita.items) \in Nat
      BY <1>0 DEF Queue
    <3> QED
      BY <2>4, <2>5, <3>1
  <2>8. QueueAt(j, "items")'
    <3>1. "items" \in Published /\ "items" \notin Ended
      BY DEF Published, Ended
    <3>2. "publish" \notin lost /\ via[j] = "usb" => mode = "usb"
      BY <1>0, <2>1 DEF QueueAt, Published
    <3> QED
      BY <2>3, <2>4, <2>5, <2>6, <2>7, <3>1, <3>2 DEF QueueAt
  <2> QED
    BY <2>1, <2>2, <2>8, SenderSteps DEF SendHeld
<1>10. CASE PollRaises(j)
  <2>1. pc[j] \in {"poll", "items"} /\ UNCHANGED <<vita, mode, lost>> /\ GoTo(j, "undo", First)
    BY <1>10 DEF PollRaises, world
  <2> QED
    BY <2>1, SenderMoves DEF Published, SendHeld, Ended
<1>11. CASE PollDecides(j)
  <2>1. pc[j] = "items" /\ UNCHANGED <<vita, mode, lost>>
    BY <1>11 DEF PollDecides, world
  <2>2. CASE seen.settled /\ ~seen.syncing
    <3>1. Leave(j, "done")
      BY <1>11, <2>2 DEF PollDecides
    <3>2. lost = {} /\ vita.id = j => Freed
      BY <1>0, <2>1, <2>2 DEF QueueAt, Freed, Replaceable
    <3>3. lost' = {} /\ vita'.id = j => Freed'
      BY <2>1, <3>2 DEF Freed, Replaceable, Counted, State
    <3> QED
      BY <1>0, <2>1, <3>1, <3>3, SenderLeaves DEF Ended, SendHeld
  <2>3. CASE ~(seen.settled /\ ~seen.syncing)
    <3>1. PICK place \in {"undo", "poll"} : GoTo(j, place, First)
      BY <1>11, <2>3 DEF PollDecides
    <3> QED
      BY <2>1, <3>1, SenderMoves DEF Published, Synced, SendHeld, Ended
  <2> QED
    BY <2>2, <2>3
<1>12. CASE SendUndoes(j)
  <2>1. pc[j] = "undo" /\ UNCHANGED mode /\ Leave(j, "error")
    BY <1>12 DEF SendUndoes, world
  <2>2. CASE Matches(j) /\ vita' = [vita EXCEPT !.cancelled = TRUE] /\ UNCHANGED lost
    <3>1. vita' \in Queue /\ vita'.id = vita.id /\ vita'.cancelled = TRUE /\ vita'.syncing \in BOOLEAN
      BY <1>0, <2>2 DEF Queue
    <3>2. Freed'
      BY <3>1 DEF Freed, Replaceable
    <3>3. vita.id = j \/ lost # {}
      BY <1>0, <2>1, <2>2 DEF Matches, QueueAt, Published
    <3> QED
      BY <2>1, <2>2, <3>1, <3>2, <3>3, SenderLeaves DEF Ended, SendHeld
  <2>3. CASE ~Matches(j) /\ UNCHANGED <<vita, lost>>
    <3>1. vita.id # j
      BY <2>3 DEF Matches
    <3> QED
      BY <1>0, <2>1, <2>3, <3>1, SenderLeaves DEF Ended, SendHeld
  <2>4. CASE UNCHANGED vita /\ lost' = lost \cup {"cancel"}
    BY <1>0, <2>1, <2>4, SenderLeaves DEF Ended, SendHeld
  <2> QED
    BY <1>12, <2>2, <2>3, <2>4 DEF SendUndoes
<1> QED
  BY <1>1, <1>2, <1>3, <1>4, <1>5, <1>6, <1>7, <1>8, <1>9, <1>10, <1>11, <1>12 DEF send_files

(* What the Vita does to a queue by itself.                                 *)
LEMMA VitaStep ==
  ASSUME Inv, QueueInv, UNCHANGED <<pc, via, seen, mode, lost>>, vita' \in Queue,
         vita'.id = vita.id, Len(vita'.items) = Len(vita.items), vita'.syncing => vita.syncing,
         Counted' \in Nat, Counted \in Nat, Counted' >= Counted,
         Closed => Closed', Freed => Freed'
  PROVE  QueueInv'
<1>1. QueueType'
  BY DEF QueueInv, QueueType
<1>2. Len(vita.items) \in Nat
  BY DEF QueueInv, QueueType, Queue
<1>3. ASSUME NEW k \in Send PROVE QueueAt(k, pc[k])'
  <2>1. QueueAt(k, pc[k])
    BY DEF QueueInv
  <2>2. pc' = pc /\ via' = via /\ seen' = seen /\ mode' = mode /\ lost' = lost
    OBVIOUS
  <2> QED
    BY <1>2, <2>1, <2>2 DEF QueueAt
<1> QED
  BY <1>1, <1>3 DEF QueueInv

(* The second computer gets at the queue over Wi-Fi only, and not between   *)
(* the two status requests of a poll.                                       *)
LEMMA OtherStep ==
  ASSUME Inv, QueueInv, UNCHANGED <<pc, via, seen, mode, lost>>, vita' \in Queue,
         vita'.id \in Others, Reachable
  PROVE  QueueInv'
<1>1. QueueType'
  BY DEF QueueInv, QueueType
<1>2. ASSUME NEW k \in Send PROVE QueueAt(k, pc[k])'
  <2>1. QueueAt(k, pc[k])
    BY DEF QueueInv
  <2>2. pc' = pc /\ via' = via /\ seen' = seen /\ mode' = mode /\ lost' = lost
    OBVIOUS
  <2>3. mode = "wifi" /\ pc[k] # "items" /\ vita'.id # k
    BY JobsAssumption DEF Reachable
  <2> QED
    BY <2>1, <2>2, <2>3 DEF QueueAt
<1> QED
  BY <1>1, <1>2 DEF QueueInv

Imported(items) == {i \in DOMAIN items : items[i].state = "imported"}

LEMMA ImportedFinite ==
  ASSUME NEW items \in Seq(Item)
  PROVE  IsFiniteSet(Imported(items)) /\ Cardinality(Imported(items)) \in Nat
<1>1. Len(items) \in Nat /\ DOMAIN items = 1 .. Len(items)
  OBVIOUS
<1>2. IsFiniteSet(1 .. Len(items))
  BY <1>1, FS_Interval
<1>3. IsFiniteSet(Imported(items))
  BY <1>1, <1>2, FS_Subset DEF Imported
<1> QED
  BY <1>3, FS_CardinalityType

(* More imported items and more failures: the counters do not go back.      *)
LEMMA CountGrows ==
  ASSUME vita \in Queue, vita' \in Queue, Imported(vita.items) \subseteq Imported(vita'.items),
         vita'.failed >= vita.failed
  PROVE  Counted' \in Nat /\ Counted \in Nat /\ Counted' >= Counted
<1> DEFINE S == Imported(vita.items)
           T == Imported(vita'.items)
<1>1. vita.items \in Seq(Item) /\ vita'.items \in Seq(Item) /\ vita.failed \in Nat /\ vita'.failed \in Nat
  BY DEF Queue
<1>2. IsFiniteSet(S) /\ Cardinality(S) \in Nat /\ IsFiniteSet(T) /\ Cardinality(T) \in Nat
  BY <1>1, ImportedFinite
<1>3. Cardinality(S) <= Cardinality(T)
  BY <1>2, FS_Subset
<1>4. Counted = Cardinality(S) + vita.failed
  BY DEF Counted, Imported, State
<1>5. Counted' = Cardinality(T) + vita'.failed
  BY DEF Counted, Imported, State
<1> HIDE DEF S, T
<1> QED
  BY <1>1, <1>2, <1>3, <1>4, <1>5

LEMMA VitaKeepsQueue ==
  ASSUME Inv, QueueInv, Vita
  PROVE  QueueInv'
<1>0. vita \in Queue /\ UNCHANGED <<pc, via, seen, mode, lost>>
      /\ vita.items \in Seq(Item) /\ Len(vita.items) \in Nat /\ DOMAIN vita.items = 1 .. Len(vita.items)
      /\ vita.failed \in Nat /\ vita.syncing \in BOOLEAN /\ vita.cancelled \in BOOLEAN
  <2>1. vita \in Queue /\ UNCHANGED <<pc, via, seen, mode, lost>>
    BY DEF QueueInv, QueueType, Vita, VitaImports, calls, world
  <2>2. vita.items \in Seq(Item) /\ vita.failed \in Nat /\ vita.syncing \in BOOLEAN /\ vita.cancelled \in BOOLEAN
    BY <2>1 DEF Queue
  <2> QED
    BY <2>1, <2>2
<1>1. ASSUME NEW i \in DOMAIN vita.items, VitaTakes(i) PROVE QueueInv'
  <2> DEFINE q == WithState(i, "importing")
  <2>1. vita.syncing /\ ~vita.cancelled /\ vita.items[i].state = "received" /\ vita' = q
    BY <1>1 DEF VitaTakes, State
  <2>2. /\ q \in Queue /\ q.id = vita.id /\ q.failed = vita.failed /\ q.syncing = vita.syncing
        /\ q.cancelled = vita.cancelled /\ DOMAIN q.items = DOMAIN vita.items
        /\ Len(q.items) = Len(vita.items) /\ q.items[i].state = "importing"
        /\ \A k \in DOMAIN vita.items : k # i => q.items[k] = vita.items[k]
    BY <1>0, StateSet DEF ItemStates
  <2> HIDE DEF q
  <2>3. Imported(vita.items) \subseteq Imported(vita'.items)
    BY <2>1, <2>2 DEF Imported
  <2>4. Counted' \in Nat /\ Counted \in Nat /\ Counted' >= Counted
    <3>1. vita'.failed >= vita.failed /\ vita' \in Queue
      BY <1>0, <2>1, <2>2
    <3> QED
      BY <1>0, <2>3, <3>1, CountGrows
  <2>5. ~Freed
    BY <2>1 DEF Freed, Replaceable
  <2>6. Closed => Closed'
    BY <2>1, <2>2 DEF Closed, State
  <2> QED
    BY <1>0, <2>1, <2>2, <2>4, <2>5, <2>6, VitaStep
<1>2. ASSUME NEW i \in DOMAIN vita.items, NEW to \in {"imported", "failed"}, VitaReturns(i, to) PROVE QueueInv'
  <2> DEFINE q == WithState(i, to)
  <2>1. vita.items[i].state = "importing" /\ vita' = [q EXCEPT !.failed = IF to = "failed" THEN @ + 1 ELSE @]
    BY <1>2 DEF VitaReturns, State
  <2>2. /\ q \in Queue /\ q.id = vita.id /\ q.failed = vita.failed /\ q.syncing = vita.syncing
        /\ q.cancelled = vita.cancelled /\ DOMAIN q.items = DOMAIN vita.items
        /\ Len(q.items) = Len(vita.items) /\ q.items[i].state = to
        /\ \A k \in DOMAIN vita.items : k # i => q.items[k] = vita.items[k]
    BY <1>0, StateSet DEF ItemStates
  <2> HIDE DEF q
  <2>3. /\ vita' \in Queue /\ vita'.id = vita.id /\ vita'.syncing = vita.syncing
        /\ vita'.cancelled = vita.cancelled /\ vita'.items = q.items /\ vita'.failed >= vita.failed
    <3> DEFINE n == IF to = "failed" THEN q.failed + 1 ELSE q.failed
    <3>1. vita' = [q EXCEPT !.failed = n]
      BY <2>1
    <3>2. q.failed \in Nat
      BY <2>2 DEF Queue
    <3>3. n \in Nat /\ n >= q.failed
      BY <3>2
    <3> HIDE DEF n
    <3> QED
      BY <2>2, <3>1, <3>3 DEF Queue
  <2>4. Imported(vita.items) \subseteq Imported(vita'.items)
    BY <2>1, <2>2, <2>3 DEF Imported
  <2>5. Counted' \in Nat /\ Counted \in Nat /\ Counted' >= Counted
    BY <1>0, <2>3, <2>4, CountGrows
  <2>6. Freed => Freed'
    BY <1>0, <2>2, <2>3, <2>5 DEF Freed, Replaceable
  <2>7. Closed => Closed'
    BY <2>2, <2>3 DEF Closed, State
  <2> QED
    BY <1>0, <2>2, <2>3, <2>5, <2>6, <2>7, VitaStep
<1>3. CASE VitaCloses \/ VitaCancels
  <2>1. /\ vita' \in Queue /\ vita'.id = vita.id /\ vita'.items = vita.items /\ vita'.failed = vita.failed
        /\ vita'.syncing => vita.syncing
    BY <1>0, <1>3 DEF VitaCloses, VitaCancels, Queue
  <2>2. Counted' \in Nat /\ Counted \in Nat /\ Counted' >= Counted
    <3>1. Imported(vita.items) \subseteq Imported(vita'.items) /\ vita'.failed >= vita.failed
      BY <1>0, <2>1
    <3> QED
      BY <1>0, <2>1, <3>1, CountGrows
  <2>3. /\ VitaCloses => ~vita'.syncing /\ vita'.cancelled = vita.cancelled /\ vita.syncing
        /\ VitaCancels => vita'.cancelled /\ vita'.syncing = vita.syncing
    BY <1>0 DEF VitaCloses, VitaCancels, Queue
  <2>4. Freed => Freed'
    BY <1>0, <1>3, <2>1, <2>2, <2>3 DEF Freed, Replaceable
  <2>5. Closed => Closed'
    <3>1. CASE VitaCloses
      <4>1. \A i \in DOMAIN vita.items :
              vita.items[i].state # "importing" /\ (vita.items[i].state = "received" => vita.cancelled)
        BY <3>1 DEF VitaCloses, State
      <4> QED
        BY <2>1, <2>3, <3>1, <4>1 DEF Closed, State
    <3>2. CASE VitaCancels
      BY <2>1, <2>3, <3>2 DEF Closed, State
    <3> QED
      BY <1>3, <3>1, <3>2
  <2> QED
    BY <1>0, <2>1, <2>2, <2>4, <2>5, VitaStep
<1>4. ASSUME NEW id \in Others, OtherPublishes(id) PROVE QueueInv'
  <2>1. Reachable /\ vita' = Fresh(id)
    BY <1>4 DEF OtherPublishes
  <2>2. vita' \in Queue /\ vita'.id = id
    BY <2>1, FreshType
  <2> QED
    BY <1>0, <2>1, <2>2, OtherStep
<1>5. ASSUME NEW i \in DOMAIN vita.items, NEW to \in {"imported", "failed"}, OtherSettles(i, to) PROVE QueueInv'
  <2> DEFINE q == WithState(i, to)
  <2>1. Reachable /\ vita.id \in Others /\ vita' = [q EXCEPT !.failed = IF to = "failed" THEN @ + 1 ELSE @]
    BY <1>5 DEF OtherSettles
  <2>2. q \in Queue /\ q.id = vita.id
    BY <1>0, StateSet DEF ItemStates
  <2> HIDE DEF q
  <2>3. vita' \in Queue /\ vita'.id = vita.id
    BY <2>1, <2>2 DEF Queue
  <2> QED
    BY <1>0, <2>1, <2>3, OtherStep
<1> QED
  BY <1>1, <1>2, <1>3, <1>4, <1>5 DEF Vita, VitaImports

(* send_files returns a result at the end of a poll only.                   *)
LEMMA OnlyDecides ==
  ASSUME Inv, QueueInv, Next, NEW j \in Send, pc'[j] = "done", pc[j] # "done"
  PROVE  pc[j] = "items" /\ seen.settled /\ ~seen.syncing
<1>0. j \in Jobs /\ pc[j] # "pick" /\ pc \in [Jobs -> Places]
  BY DEF Jobs, QueueInv, QueueAt, Inv, PlacesOK
<1>1. ASSUME NEW k \in Jobs, NEW place, pc' = [pc EXCEPT ![k] = place] PROVE k = j /\ place = "done"
  BY <1>0, <1>1
<1>2. ASSUME NEW k \in Jobs, NEW place, NEW p, GoTo(k, place, p) PROVE k = j /\ place = "done"
  BY <1>1, <1>2 DEF GoTo
<1>3. ASSUME NEW k \in Jobs, NEW how, Leave(k, how) PROVE k = j /\ how = "done"
  BY <1>1, <1>3 DEF Leave
<1>4. CASE UNCHANGED pc
  BY <1>4
<1>5. ASSUME NEW k \in Jobs, Call(k) \/ Picks(k) PROVE FALSE
  BY <1>0, <1>2, <1>3, <1>5 DEF Call, Picks
<1>6. ASSUME NEW k \in Jobs, Run(k) PROVE pc[j] = "items" /\ seen.settled /\ ~seen.syncing
  <2>1. CASE k \in Convert /\ convert_files(k)
    <3>0. k # j
      BY <2>1, HeldFacts
    <3>1. CASE TakeConversionLock(k)
      BY <1>1, <3>0, <3>1 DEF TakeConversionLock
    <3>2. CASE TestClosing(k) \/ ClearConversionCancel(k) \/ ConvertStarts(k) \/ ConvertSkips(k) \/ ConvertReturns(k)
      BY <1>2, <1>3, <3>0, <3>2 DEF TestClosing, ClearConversionCancel, ConvertStarts, ConvertSkips, ConvertReturns
    <3>3. ASSUME NEW ok \in BOOLEAN, ConvertEnds(k, ok) PROVE FALSE
      BY <1>2, <3>0, <3>3 DEF ConvertEnds
    <3> QED
      BY <2>1, <3>1, <3>2, <3>3 DEF convert_files
  <2>2. CASE k \in Copy /\ copy_from_vita(k)
    <3>0. k # j
      BY <2>2, HeldFacts
    <3>1. CASE TakeTransferLock(k)
      BY <1>1, <3>0, <3>1 DEF TakeTransferLock
    <3>2. CASE ClearTransferCancel(k) \/ CopyArrives(k)
      BY <1>2, <3>0, <3>2 DEF ClearTransferCancel, CopyArrives
    <3>3. CASE CopyChecks(k) \/ CopyFails(k) \/ CopyReturns(k)
      BY <1>2, <1>3, <3>0, <3>3 DEF CopyChecks, CopyFails, CopyReturns
    <3> QED
      BY <2>2, <3>1, <3>2, <3>3 DEF copy_from_vita
  <2>3. CASE k \in Send /\ send_files(k)
    <3>1. CASE TakeTransferLock(k) \/ PublishAnswered(k) \/ PublishMisreported(k) \/ PollReads(k)
      BY <1>1, <3>1 DEF TakeTransferLock, PublishAnswered, PublishMisreported, PollReads
    <3>2. CASE ClearTransferCancel(k)
      BY <1>2, <3>2 DEF ClearTransferCancel
    <3>3. ASSUME NEW ok \in BOOLEAN, SendPrepares(k, ok) PROVE FALSE
      BY <1>2, <1>3, <3>3 DEF SendPrepares
    <3>4. CASE PublishRefused(k) \/ SendUndoes(k)
      BY <1>3, <3>4 DEF PublishRefused, SendUndoes
    <3>5. CASE PublishUnanswered(k)
      BY <1>2, <1>3, <3>5 DEF PublishUnanswered, PublishFails
    <3>6. CASE UploadConfirmed(k)
      <4>1. PICK place \in {"sync", "upload"} : GoTo(k, place, NextFile(pos[k]))
        BY <3>6 DEF UploadConfirmed
      <4> QED
        BY <1>2, <4>1
    <3>7. CASE UploadRaises(k) \/ SyncAccepted(k) \/ SyncRaises(k) \/ PollRaises(k)
      BY <1>2, <3>7 DEF UploadRaises, SyncAccepted, SyncRaises, PollRaises
    <3>8. CASE PollDecides(k)
      <4>1. CASE seen.settled /\ ~seen.syncing
        BY <1>3, <3>8, <4>1 DEF PollDecides
      <4>2. CASE ~(seen.settled /\ ~seen.syncing)
        BY <1>2, <3>8, <4>2 DEF PollDecides
      <4> QED
        BY <4>1, <4>2
    <3> QED
      BY <2>3, <3>1, <3>2, <3>3, <3>4, <3>5, <3>6, <3>7, <3>8 DEF send_files
  <2> QED
    BY <1>6, <2>1, <2>2, <2>3 DEF Run
<1>7. ASSUME NEW k \in Jobs, cancel_transfer(k) PROVE FALSE
  BY <1>4, <1>7 DEF cancel_transfer
<1>8. CASE stop_conversion \/ _shutdown \/ Finished \/ Hangs \/ Vita
  BY <1>4, <1>8 DEF stop_conversion, _shutdown, ShutdownCloses, ShutdownStopsConversion, Vita, VitaImports,
                    ShutdownStopsTransfer, ShutdownLocks, ShutdownCleans, Finished, Hangs, vars, calls
<1> QED
  BY <1>5, <1>6, <1>7, <1>8 DEF Next

(* Every step.                                                              *)
LEMMA QueueKeeps == Inv /\ PositionOK /\ QueueInv /\ [Next]_vars => QueueInv'
<1> SUFFICES ASSUME Inv, PositionOK, QueueInv, [Next]_vars PROVE QueueInv'
  OBVIOUS
<1>0. via \in [Jobs -> {"usb", "wifi"}]
  BY DEF QueueInv, QueueType
<1>1. CASE UNCHANGED <<pc, via, vita, mode, lost, seen>>
  BY <1>0, <1>1, QueueElsewhere
<1>2. ASSUME NEW j \in Jobs, j \notin Send, NEW place, NEW p, GoTo(j, place, p), UNCHANGED <<vita, mode, lost>>
      PROVE  QueueInv'
  <2>1. pc' = [pc EXCEPT ![j] = place] /\ via' = via /\ seen' = seen
    BY <1>2 DEF GoTo
  <2>2. \A k \in Send : pc'[k] = pc[k]
    BY <1>2, <2>1 DEF Inv, PlacesOK, Jobs
  <2> QED
    BY <1>0, <1>2, <2>1, <2>2, QueueElsewhere
<1>3. ASSUME NEW j \in Jobs, j \notin Send, NEW how, Leave(j, how), UNCHANGED <<vita, mode, lost>>
      PROVE  QueueInv'
  <2>1. pc' = [pc EXCEPT ![j] = how] /\ via' = [via EXCEPT ![j] = "wifi"] /\ seen' = seen
    BY <1>3 DEF Leave
  <2>2. \A k \in Send : pc'[k] = pc[k] /\ via'[k] = via[k]
    BY <1>0, <1>3, <2>1 DEF Inv, PlacesOK, Jobs
  <2>3. via' \in [Jobs -> {"usb", "wifi"}]
    BY <1>0, <2>1
  <2> QED
    BY <1>3, <2>1, <2>2, <2>3, QueueElsewhere
<1>4. ASSUME NEW j \in Jobs, Call(j) PROVE QueueInv'
  <2>1. UNCHANGED <<vita, mode, lost>> /\ pc[j] = "idle"
    BY <1>4 DEF Call, world
  <2>2. CASE j \in Send
    <3>1. GoTo(j, "wait", First)
      BY <1>4, <2>2, HeldFacts DEF Call
    <3> QED
      BY <2>1, <2>2, <3>1, SenderWaits DEF GoTo
  <2>3. CASE j \notin Send
    BY <1>2, <1>4, <2>1, <2>3 DEF Call
  <2> QED
    BY <2>2, <2>3
<1>5. ASSUME NEW j \in Jobs, Picks(j) PROVE QueueInv'
  <2>1. UNCHANGED <<vita, mode, lost>> /\ pc[j] = "pick" /\ (GoTo(j, "wait", First) \/ Leave(j, "error"))
    BY <1>5 DEF Picks, world
  <2>2. CASE j \in Send
    BY <2>1, <2>2 DEF QueueInv, QueueAt
  <2>3. CASE j \notin Send
    BY <1>2, <1>3, <2>1, <2>3
  <2> QED
    BY <2>2, <2>3
<1>6. ASSUME NEW j \in Jobs, Run(j) PROVE QueueInv'
  <2>1. CASE j \in Send /\ send_files(j)
    BY <2>1, SendersKeep
  <2>2. CASE j \in Convert /\ convert_files(j)
    <3>0. j \notin Send
      BY <2>2, HeldFacts
    <3>1. CASE TakeConversionLock(j)
      <4>1. pc' = [pc EXCEPT ![j] = "clear"] /\ UNCHANGED <<via, vita, mode, lost, seen>>
        BY <3>1 DEF TakeConversionLock, world
      <4>2. \A k \in Send : pc'[k] = pc[k]
        BY <3>0, <4>1 DEF Inv, PlacesOK, Jobs
      <4> QED
        BY <1>0, <4>1, <4>2, QueueElsewhere
    <3>2. CASE TestClosing(j) \/ ClearConversionCancel(j) \/ ConvertStarts(j) \/ ConvertSkips(j)
      BY <1>2, <3>0, <3>2 DEF TestClosing, ClearConversionCancel, ConvertStarts, ConvertSkips, world
    <3>3. CASE ConvertReturns(j)
      BY <1>3, <3>0, <3>3 DEF ConvertReturns, world
    <3>4. ASSUME NEW ok \in BOOLEAN, ConvertEnds(j, ok) PROVE QueueInv'
      BY <1>2, <3>0, <3>4 DEF ConvertEnds, world
    <3> QED
      BY <2>2, <3>1, <3>2, <3>3, <3>4 DEF convert_files
  <2>3. CASE j \in Copy /\ copy_from_vita(j)
    <3>0. j \notin Send
      BY <2>3, HeldFacts
    <3>1. CASE TakeTransferLock(j)
      <4>1. pc' = [pc EXCEPT ![j] = "clear"] /\ UNCHANGED <<via, vita, mode, lost, seen>>
        BY <3>1 DEF TakeTransferLock, world
      <4>2. \A k \in Send : pc'[k] = pc[k]
        BY <3>0, <4>1 DEF Inv, PlacesOK, Jobs
      <4> QED
        BY <1>0, <4>1, <4>2, QueueElsewhere
    <3>2. CASE ClearTransferCancel(j) \/ CopyArrives(j)
      BY <1>2, <3>0, <3>2 DEF ClearTransferCancel, CopyArrives, world
    <3>3. CASE CopyChecks(j) \/ CopyFails(j) \/ CopyReturns(j)
      BY <1>2, <1>3, <3>0, <3>3 DEF CopyChecks, CopyFails, CopyReturns, world
    <3> QED
      BY <2>3, <3>1, <3>2, <3>3 DEF copy_from_vita
  <2> QED
    BY <1>6, <2>1, <2>2, <2>3 DEF Run
<1>7. ASSUME NEW j \in Jobs, cancel_transfer(j) PROVE QueueInv'
  BY <1>1, <1>7 DEF cancel_transfer, world
<1>8. CASE stop_conversion \/ _shutdown \/ Finished \/ Hangs \/ UNCHANGED vars
  <2>1. UNCHANGED <<pc, via, vita, mode, lost, seen>>
    BY <1>8 DEF stop_conversion, _shutdown, ShutdownCloses, ShutdownStopsConversion,
                ShutdownStopsTransfer, ShutdownLocks, ShutdownCleans, Finished, Hangs, vars, calls, world
  <2> QED
    BY <1>1, <2>1
<1>9. CASE Vita
  BY <1>9, VitaKeepsQueue
<1> QED
  BY <1>4, <1>5, <1>6, <1>7, <1>8, <1>9 DEF Next

-----------------------------------------------------------------------------
(* The contract of the queue.                                              *)

\* A queue is empty or has the files of a call.  One of the second computer
\* is there in Wi-Fi mode only, and nobody here starts its import.  An import
\* belongs to a run, and what was received has all its parts.
QueueState ==
  /\ Len(vita.items) \in {0, N} /\ (vita.id = Nobody => vita.items = <<>>)
  /\ vita.id \in Others => mode = "wifi"
  /\ ~Mine => ~vita.syncing
  /\ \A i \in DOMAIN vita.items : State(i) = "importing" => vita.syncing
  /\ Mine => \A i \in DOMAIN vita.items :
       State(i) \in {"received", "importing", "imported"} => Complete(vita.items[i], i)

\* A call uses USB only if the Vita serves it.
ViaOK == \A j \in Jobs : via[j] = "usb" => mode = "usb"

ContractInv == QueueState /\ ViaOK

\* What can happen to the Vita's queue.
QueueEvent ==
  \/ \E j \in Send : Replaceable /\ vita' = Fresh(j)
  \/ \E j \in Send, p \in Positions : Receives(j, p) \/ Rejects(j, p)
  \/ \E j \in Send : Syncs(j)
  \/ vita' = [vita EXCEPT !.cancelled = TRUE]
  \/ VitaCloses
  \/ \E i \in DOMAIN vita.items, to \in {"imported", "failed"} : VitaTakes(i) \/ VitaReturns(i, to)
  \/ \E id \in Others : OtherPublishes(id)
  \/ \E i \in DOMAIN vita.items, to \in {"imported", "failed"} : OtherSettles(i, to)

(* Every step that touches the queue is one of these.                      *)
LEMMA QueueEvents ==
  ASSUME PositionOK, [Next]_vars
  PROVE  UNCHANGED vita \/ QueueEvent
<1>1. ASSUME NEW j \in Jobs, Run(j) PROVE UNCHANGED vita \/ QueueEvent
  <2>1. CASE convert_files(j)
    BY <2>1 DEF convert_files, TakeConversionLock, TestClosing, ClearConversionCancel, ConvertStarts,
                ConvertSkips, ConvertReturns, ConvertEnds
  <2>2. CASE copy_from_vita(j)
    BY <2>2 DEF copy_from_vita, TakeTransferLock, ClearTransferCancel, CopyChecks, CopyArrives, CopyFails,
                CopyReturns
  <2>3. CASE j \in Send /\ send_files(j)
    <3>0. pos[j] \in Positions
      BY DEF PositionOK
    <3>1. CASE TakeTransferLock(j) \/ ClearTransferCancel(j) \/ PublishRefused(j) \/ PublishMisreported(j)
               \/ PollReads(j) \/ PollRaises(j) \/ PollDecides(j) \/ \E ok \in BOOLEAN : SendPrepares(j, ok)
      BY <3>1 DEF TakeTransferLock, ClearTransferCancel, PublishRefused, PublishMisreported, PollReads,
                  PollRaises, PollDecides, SendPrepares
    <3>2. CASE PublishUnanswered(j) \/ PublishAnswered(j)
      BY <2>3, <3>2 DEF PublishUnanswered, PublishAnswered, QueueEvent
    <3>3. CASE UploadConfirmed(j) \/ UploadRaises(j)
      BY <2>3, <3>0, <3>3 DEF UploadConfirmed, UploadRaises, QueueEvent
    <3>4. CASE SyncAccepted(j) \/ SyncRaises(j)
      BY <2>3, <3>4 DEF SyncAccepted, SyncRaises, QueueEvent
    <3>5. CASE SendUndoes(j)
      BY <3>5 DEF SendUndoes, QueueEvent
    <3> QED
      BY <2>3, <3>1, <3>2, <3>3, <3>4, <3>5 DEF send_files
  <2> QED
    BY <1>1, <2>1, <2>2, <2>3 DEF Run
<1>2. CASE Vita
  BY <1>2 DEF Vita, VitaImports, VitaCancels, QueueEvent
<1>3. ASSUME NEW j \in Jobs, Call(j) \/ cancel_transfer(j) \/ Picks(j) PROVE UNCHANGED vita
  BY <1>3 DEF Call, cancel_transfer, Picks
<1>4. CASE stop_conversion \/ _shutdown \/ Finished \/ Hangs \/ UNCHANGED vars
  BY <1>4 DEF stop_conversion, _shutdown, ShutdownCloses, ShutdownStopsConversion, ShutdownStopsTransfer,
              ShutdownLocks, ShutdownCleans, Finished, Hangs, vars
<1> QED
  BY <1>1, <1>2, <1>3, <1>4 DEF Next

(* The mode does not change, and a call chooses USB in USB mode only.      *)
LEMMA ViaKeeps ==
  ASSUME QueueType, ViaOK, [Next]_vars
  PROVE  mode' = mode /\ ViaOK'
<1>0. via \in [Jobs -> {"usb", "wifi"}]
  BY DEF QueueType
<1>1. ASSUME mode' = mode, NEW j \in Jobs,
             \/ via' = via \/ via' = [via EXCEPT ![j] = "wifi"] \/ via' = [via EXCEPT ![j] = mode]
      PROVE  mode' = mode /\ ViaOK'
  BY <1>0, <1>1 DEF ViaOK
<1>2. CASE mode' = mode /\ via' = via
  BY <1>2 DEF ViaOK
<1>3. ASSUME NEW j \in Jobs, Call(j) \/ cancel_transfer(j) \/ Picks(j) PROVE mode' = mode /\ ViaOK'
  BY <1>1, <1>3 DEF Call, cancel_transfer, Picks, GoTo, Leave, world
<1>4. ASSUME NEW j \in Jobs, Run(j) PROVE mode' = mode /\ ViaOK'
  <2>1. CASE convert_files(j)
    BY <1>1, <2>1 DEF convert_files, TakeConversionLock, TestClosing, ClearConversionCancel, ConvertStarts,
                      ConvertSkips, ConvertReturns, ConvertEnds, GoTo, Leave, world
  <2>2. CASE copy_from_vita(j)
    BY <1>1, <2>2 DEF copy_from_vita, TakeTransferLock, ClearTransferCancel, CopyChecks, CopyArrives,
                      CopyFails, CopyReturns, GoTo, Leave, world
  <2>3. CASE send_files(j)
    BY <1>1, <2>3 DEF send_files, TakeTransferLock, ClearTransferCancel, SendPrepares, PublishRefused,
                      PublishUnanswered, PublishFails, PublishAnswered, PublishMisreported,
                      UploadConfirmed, UploadRaises, SyncAccepted, SyncRaises, PollReads, PollRaises,
                      PollDecides, SendUndoes, GoTo, Leave, world
  <2> QED
    BY <1>4, <2>1, <2>2, <2>3 DEF Run
<1>5. CASE stop_conversion \/ Vita \/ _shutdown \/ Finished \/ Hangs \/ UNCHANGED vars
  BY <1>2, <1>5 DEF stop_conversion, Vita, VitaImports, _shutdown, ShutdownCloses, ShutdownStopsConversion,
                    ShutdownStopsTransfer, ShutdownLocks, ShutdownCleans, Finished, Hangs, vars, calls, world
<1> QED
  BY <1>3, <1>4, <1>5 DEF Next

(* A step that replaces one item of an own queue changes that entry.       *)
LEMMA OneEntry ==
  ASSUME Mine, vita'.id = vita.id, NEW i \in DOMAIN vita.items, NEW x, vita.items \in Seq(Item),
         vita'.items = [vita.items EXCEPT ![i] = x]
  PROVE  /\ Entries' = [Entries EXCEPT ![i] = Outcome(x, i)]
         /\ i \in DOMAIN Entries /\ Entries[i] = Outcome(vita.items[i], i)
<1>1. DOMAIN vita'.items = DOMAIN vita.items /\ Mine'
  BY DEF Mine
<1>2. \A k \in DOMAIN vita.items : vita'.items[k] = IF k = i THEN x ELSE vita.items[k]
  OBVIOUS
<1> QED
  BY <1>1, <1>2 DEF Entries

(* The queue is replaced.                                                  *)
LEMMA OpenRefines ==
  ASSUME vita \in Queue, QueueState, Replaceable, NEW id \in Send \cup Others, vita' = Fresh(id), mode' = mode,
         id \in Others => mode = "wifi"
  PROVE  QueueState' /\ Contract!Next
<1>0. N \in Nat \ {0} /\ Nobody \notin Send \cup Others /\ Others \cap Send = {}
  BY JobsAssumption DEF Jobs
<1>1. /\ vita'.id = id /\ DOMAIN vita'.items = 1 .. N /\ Len(vita'.items) = N
      /\ vita'.syncing = FALSE /\ vita'.cancelled = FALSE /\ vita.syncing = FALSE
      /\ \A i \in 1 .. N : vita'.items[i] = [state |-> "waiting", ready |-> {}]
  BY <1>0 DEF Fresh, Replaceable, Queue
<1>2. QueueState'
  BY <1>0, <1>1 DEF QueueState, Mine, State
<1>3. CASE id \in Send
  <2>1. Entries' = [i \in 1 .. N |-> "pending"]
    BY <1>1, <1>3 DEF Entries, Mine, Outcome
  <2>2. Contract!Open(N)
    BY <1>1, <2>1 DEF Contract!Open
  <2> QED
    BY <1>2, <2>2 DEF Contract!Next
<1>4. CASE id \notin Send
  <2>1. Entries' = [i \in 1 .. 0 |-> "pending"]
    BY <1>1, <1>4 DEF Entries, Mine
  <2>2. Contract!Open(0)
    BY <1>1, <2>1 DEF Contract!Open
  <2> QED
    BY <1>2, <2>2 DEF Contract!Next
<1> QED
  BY <1>3, <1>4

(* A file is wanted by an own queue only, and into an entry that no import  *)
(* has seen.                                                                *)
LEMMA WantedEntry ==
  ASSUME vita \in Queue, ContractInv, NEW j \in Send, NEW p \in Positions, Wanted(j, p)
  PROVE  /\ Mine /\ vita.syncing = FALSE /\ p.item \in DOMAIN vita.items /\ vita.items \in Seq(Item)
         /\ vita.items[p.item] \in Item /\ p.part \in {"media", "m4t"}
         /\ ~Complete(vita.items[p.item], p.item)
         /\ Outcome(vita.items[p.item], p.item) \in {"pending", "refused"}
<1>0. /\ p.item \in DOMAIN vita.items /\ vita.items \in Seq(Item) /\ vita.items[p.item] \in Item
      /\ p.part \in {"media", "m4t"} /\ vita.syncing = FALSE /\ j \in Jobs
  BY DEF Wanted, Queue, Positions, Place, Jobs
<1>1. vita.id # Nobody
  BY <1>0 DEF ContractInv, QueueState
<1>2. vita.id \notin Others
  BY <1>0, JobsAssumption DEF Wanted, Matches, ContractInv, QueueState, ViaOK
<1>3. Mine
  BY <1>1, <1>2 DEF Mine, Queue
<1>4. ~Complete(vita.items[p.item], p.item)
  BY <1>0 DEF Wanted, Complete, Positions
<1>5. vita.items[p.item].state \in {"waiting", "receiving", "failed"}
  BY <1>0, <1>3, <1>4 DEF ContractInv, QueueState, State, Item, ItemStates
<1> QED
  BY <1>0, <1>3, <1>4, <1>5 DEF Outcome

(* An own queue keeps its identity, and one item changes.                  *)
LEMMA ItemKeepsState ==
  ASSUME vita \in Queue, QueueState, Mine, mode' = mode, NEW i \in DOMAIN vita.items, NEW x \in Item,
         vita'.id = vita.id, vita'.syncing = vita.syncing, vita'.items = [vita.items EXCEPT ![i] = x],
         x.state = "importing" => vita.syncing,
         x.state \in {"received", "importing", "imported"} => Complete(x, i)
  PROVE  QueueState'
<1>0. vita.items \in Seq(Item)
  BY DEF Queue
<1>1. /\ DOMAIN vita'.items = DOMAIN vita.items /\ Len(vita'.items) = Len(vita.items) /\ Mine'
      /\ \A k \in DOMAIN vita.items : vita'.items[k] = IF k = i THEN x ELSE vita.items[k]
  BY <1>0 DEF Mine
<1>2. vita.items # <<>> /\ vita.id \notin Others
  BY <1>0, JobsAssumption DEF Mine
<1> QED
  BY <1>1, <1>2 DEF QueueState, State, Complete

(* An upload that the Vita stores, or gives up.                            *)
LEMMA UploadRefines ==
  ASSUME vita \in Queue, ContractInv, mode' = mode, NEW j \in Send, NEW p \in Positions,
         Receives(j, p) \/ Rejects(j, p)
  PROVE  QueueState' /\ Contract!Next
<1> DEFINE i == p.item
           old == vita.items[i]
           ready == old.ready \cup {p.part}
           whole == "media" \in ready /\ (i \in Sidecars => "m4t" \in ready)
<1>0. /\ Mine /\ vita.syncing = FALSE /\ i \in DOMAIN vita.items /\ vita.items \in Seq(Item)
      /\ old \in Item /\ p.part \in {"media", "m4t"} /\ ~Complete(old, i)
      /\ Outcome(old, i) \in {"pending", "refused"}
  BY WantedEntry DEF Receives, Rejects
<1>1. ASSUME NEW x \in Item, vita'.id = vita.id, vita'.syncing = vita.syncing, vita'.cancelled = vita.cancelled,
             vita'.items = [vita.items EXCEPT ![i] = x], x.state \in {"received", "receiving", "failed"},
             x.state = "received" => Complete(x, i), x.state = "failed" => ~Complete(x, i)
      PROVE  QueueState' /\ Contract!Next
  <2>1. QueueState'
    BY <1>0, <1>1, ItemKeepsState DEF ContractInv
  <2>2. Outcome(x, i) \in {"pending", "ready", "refused"}
    BY <1>1 DEF Outcome
  <2>3. /\ Entries' = [Entries EXCEPT ![i] = Outcome(x, i)]
        /\ i \in DOMAIN Entries /\ Entries[i] = Outcome(old, i)
    BY <1>0, <1>1, OneEntry
  <2>4. Contract!Upload(i, Outcome(x, i))
    BY <1>0, <1>1, <2>3 DEF Contract!Upload
  <2> QED
    BY <2>1, <2>2, <2>3, <2>4 DEF Contract!Next
<1>2. CASE Receives(j, p)
  <2> DEFINE x == [state |-> IF whole THEN "received" ELSE "receiving", ready |-> ready]
  <2>1. vita' = WithItem(i, x)
    BY <1>2 DEF Receives
  <2>2. ready \in SUBSET {"media", "m4t"}
    BY <1>0 DEF Item
  <2>3. x \in Item /\ x.state \in {"received", "receiving"} /\ x.ready = ready
        /\ (x.state = "received" => Complete(x, i))
    BY <2>2 DEF Item, ItemStates, Complete
  <2> HIDE DEF x, whole, ready
  <2>4. WithItem(i, x) = [id |-> vita.id, items |-> [vita.items EXCEPT ![i] = x],
                          failed |-> vita.failed, syncing |-> vita.syncing, cancelled |-> vita.cancelled]
    BY <1>0, <2>3, ItemSet
  <2>5. /\ vita'.id = vita.id /\ vita'.items = [vita.items EXCEPT ![i] = x]
        /\ vita'.syncing = vita.syncing /\ vita'.cancelled = vita.cancelled
    BY <2>1, <2>4
  <2> QED
    BY <1>1, <2>3, <2>5
<1>3. CASE Rejects(j, p)
  <2> DEFINE x == [state |-> "failed", ready |-> old.ready]
  <2>1. vita' = [WithItem(i, x) EXCEPT !.failed = vita.failed + 1]
    BY <1>3 DEF Rejects, WithState
  <2>2. x \in Item /\ x.state = "failed" /\ ~Complete(x, i)
    BY <1>0 DEF Item, ItemStates, Complete
  <2> HIDE DEF x
  <2>3. WithItem(i, x) = [id |-> vita.id, items |-> [vita.items EXCEPT ![i] = x],
                          failed |-> vita.failed, syncing |-> vita.syncing, cancelled |-> vita.cancelled]
    BY <1>0, <2>2, ItemSet
  <2>4. /\ vita'.id = vita.id /\ vita'.items = [vita.items EXCEPT ![i] = x]
        /\ vita'.syncing = vita.syncing /\ vita'.cancelled = vita.cancelled
    BY <2>1, <2>3
  <2> QED
    BY <1>1, <2>2, <2>4
<1> QED
  BY <1>2, <1>3

(* A run is accepted, of an own queue, when nothing is left to be uploaded. *)
LEMMA SyncRefines ==
  ASSUME vita \in Queue, ContractInv, mode' = mode, NEW j \in Send, Syncs(j)
  PROVE  QueueState' /\ Contract!Next
<1>0. /\ Matches(j) /\ ~vita.cancelled /\ ~vita.syncing /\ vita.items # <<>> /\ j \in Jobs
      /\ \A i \in DOMAIN vita.items : vita.items[i].state \in {"received", "failed"}
      /\ vita' = [vita EXCEPT !.syncing = TRUE]
  BY DEF Syncs, State, Jobs
<1>1. /\ vita'.id = vita.id /\ vita'.items = vita.items /\ vita'.syncing = TRUE
      /\ vita'.cancelled = vita.cancelled
  BY <1>0 DEF Queue
<1>2. Mine
  <2>1. vita.id # Nobody
    BY <1>0 DEF ContractInv, QueueState
  <2>2. vita.id \notin Others
    BY <1>0, JobsAssumption DEF Matches, ContractInv, QueueState, ViaOK
  <2> QED
    BY <2>1, <2>2 DEF Mine, Queue
<1>3. QueueState' /\ Entries' = Entries
  BY <1>1, <1>2 DEF ContractInv, QueueState, Mine, State, Entries
<1>4. \A i \in DOMAIN Entries : Entries[i] \notin {"pending", "importing"}
  BY <1>0, <1>2 DEF Entries, Outcome
<1>5. Contract!Accept
  BY <1>0, <1>1, <1>3, <1>4 DEF Contract!Accept
<1> QED
  BY <1>3, <1>5 DEF Contract!Next

(* The Vita imports one received item, the first.                          *)
LEMMA TakeRefines ==
  ASSUME vita \in Queue, QueueState, mode' = mode, NEW i \in DOMAIN vita.items, VitaTakes(i)
  PROVE  QueueState' /\ Contract!Next
<1> DEFINE x == [state |-> "importing", ready |-> vita.items[i].ready]
<1>0. /\ vita.syncing /\ ~vita.cancelled /\ vita.items[i].state = "received" /\ vita' = WithItem(i, x)
      /\ \A k \in DOMAIN vita.items : vita.items[k].state # "importing"
      /\ \A k \in 1 .. i - 1 : vita.items[k].state # "received"
      /\ vita.items \in Seq(Item) /\ vita.items[i] \in Item
  BY DEF VitaTakes, WithState, State, Queue
<1>1. Mine /\ Complete(vita.items[i], i)
  BY <1>0 DEF QueueState, State
<1>2. x \in Item /\ x.state = "importing" /\ Complete(x, i)
  BY <1>0, <1>1 DEF Item, ItemStates, Complete
<1> HIDE DEF x
<1>3. WithItem(i, x) = [id |-> vita.id, items |-> [vita.items EXCEPT ![i] = x],
                        failed |-> vita.failed, syncing |-> vita.syncing, cancelled |-> vita.cancelled]
  BY <1>2, ItemSet
<1>4. /\ vita'.id = vita.id /\ vita'.items = [vita.items EXCEPT ![i] = x]
      /\ vita'.syncing = vita.syncing /\ vita'.cancelled = vita.cancelled
  BY <1>0, <1>3
<1>5. QueueState'
  BY <1>0, <1>1, <1>2, <1>4, ItemKeepsState
<1>6. /\ Entries' = [Entries EXCEPT ![i] = Outcome(x, i)]
      /\ i \in DOMAIN Entries /\ Entries[i] = Outcome(vita.items[i], i)
  BY <1>0, <1>1, <1>4, OneEntry
<1>7. Outcome(x, i) = "importing" /\ Outcome(vita.items[i], i) = "ready"
  BY <1>0, <1>2 DEF Outcome
<1>8. \A k \in DOMAIN Entries : Entries[k] # "importing"
  BY <1>0, <1>1 DEF Entries, Outcome
<1>9. \A k \in 1 .. i - 1 : Entries[k] # "ready"
  <2>1. \A k \in 1 .. i - 1 : k \in DOMAIN vita.items /\ vita.items[k] \in Item
    BY <1>0
  <2> QED
    BY <1>0, <1>1, <2>1 DEF Entries, Outcome, Item, ItemStates
<1>10. Contract!Begin(i)
  BY <1>0, <1>4, <1>6, <1>7, <1>8, <1>9 DEF Contract!Begin
<1> QED
  BY <1>5, <1>6, <1>10 DEF Contract!Next

(* It has imported it or given it up.                                      *)
LEMMA ReturnRefines ==
  ASSUME vita \in Queue, QueueState, mode' = mode, NEW i \in DOMAIN vita.items,
         NEW to \in {"imported", "failed"}, VitaReturns(i, to)
  PROVE  QueueState' /\ Contract!Next
<1> DEFINE x == [state |-> to, ready |-> vita.items[i].ready]
<1>0. /\ vita.items[i].state = "importing" /\ vita.items \in Seq(Item) /\ vita.items[i] \in Item
      /\ vita' = [WithItem(i, x) EXCEPT !.failed = IF to = "failed" THEN @ + 1 ELSE @]
  BY DEF VitaReturns, WithState, State, Queue
<1>1. Mine /\ Complete(vita.items[i], i) /\ vita.syncing
  BY <1>0 DEF QueueState, State
<1>2. x \in Item /\ x.state = to /\ Complete(x, i)
  BY <1>0, <1>1 DEF Item, ItemStates, Complete
<1> HIDE DEF x
<1>3. WithItem(i, x) = [id |-> vita.id, items |-> [vita.items EXCEPT ![i] = x],
                        failed |-> vita.failed, syncing |-> vita.syncing, cancelled |-> vita.cancelled]
  BY <1>2, ItemSet
<1>4. /\ vita'.id = vita.id /\ vita'.items = [vita.items EXCEPT ![i] = x]
      /\ vita'.syncing = vita.syncing /\ vita'.cancelled = vita.cancelled
  BY <1>0, <1>3
<1>5. QueueState'
  BY <1>0, <1>1, <1>2, <1>4, ItemKeepsState
<1>6. /\ Entries' = [Entries EXCEPT ![i] = Outcome(x, i)]
      /\ i \in DOMAIN Entries /\ Entries[i] = Outcome(vita.items[i], i)
  BY <1>0, <1>1, <1>4, OneEntry
<1>7. Outcome(x, i) \in {"imported", "rejected"} /\ Outcome(vita.items[i], i) = "importing"
  BY <1>0, <1>2 DEF Outcome
<1>8. Contract!End(i, Outcome(x, i))
  BY <1>1, <1>4, <1>6, <1>7 DEF Contract!End
<1> QED
  BY <1>5, <1>6, <1>7, <1>8 DEF Contract!Next

(* The run ends, or the queue is cancelled.                                *)
LEMMA CloseRefines ==
  ASSUME vita \in Queue, QueueState, mode' = mode, VitaCloses \/ vita' = [vita EXCEPT !.cancelled = TRUE]
  PROVE  QueueState' /\ Contract!Next
<1>1. CASE VitaCloses
  <2>1. /\ vita.syncing /\ vita' = [vita EXCEPT !.syncing = FALSE]
        /\ \A i \in DOMAIN vita.items :
             vita.items[i].state # "importing" /\ (vita.items[i].state = "received" => vita.cancelled)
    BY <1>1 DEF VitaCloses, State
  <2>2. /\ vita'.id = vita.id /\ vita'.items = vita.items /\ vita'.syncing = FALSE
        /\ vita'.cancelled = vita.cancelled
    BY <2>1 DEF Queue
  <2>3. QueueState' /\ Entries' = Entries
    BY <2>1, <2>2 DEF QueueState, Mine, State, Entries
  <2>4. \A i \in DOMAIN Entries : Entries[i] # "importing" /\ (Entries[i] = "ready" => vita.cancelled)
    <3>0. vita.items \in Seq(Item)
      BY DEF Queue
    <3>1. \A i \in DOMAIN vita.items : vita.items[i].state \in ItemStates
      <4>1. \A i \in DOMAIN vita.items : vita.items[i] \in Item
        BY <3>0
      <4> QED
        BY <4>1 DEF Item
    <3>2. DOMAIN Entries \subseteq DOMAIN vita.items
      BY DEF Entries
    <3> QED
      BY <2>1, <3>1, <3>2 DEF Entries, Outcome, ItemStates
  <2>5. Contract!Close
    BY <2>1, <2>2, <2>3, <2>4 DEF Contract!Close
  <2> QED
    BY <2>3, <2>5 DEF Contract!Next
<1>2. CASE vita' = [vita EXCEPT !.cancelled = TRUE]
  <2>1. /\ vita'.id = vita.id /\ vita'.items = vita.items /\ vita'.syncing = vita.syncing
        /\ vita'.cancelled = TRUE
    BY <1>2 DEF Queue
  <2>2. QueueState' /\ Entries' = Entries
    BY <2>1 DEF QueueState, Mine, State, Entries
  <2> QED
    BY <2>1, <2>2 DEF Contract!Next, Contract!Halt
<1> QED
  BY <1>1, <1>2

(* What the second computer does with its queue is no entry of ours.       *)
LEMMA OtherRefines ==
  ASSUME vita \in Queue, QueueState, mode' = mode, NEW i \in DOMAIN vita.items,
         NEW to \in {"imported", "failed"}, OtherSettles(i, to)
  PROVE  QueueState' /\ UNCHANGED Contract!vars
<1> DEFINE q == WithState(i, to)
<1>1. vita.id \in Others /\ vita' = [q EXCEPT !.failed = IF to = "failed" THEN @ + 1 ELSE @]
  BY DEF OtherSettles
<1>2. /\ q \in Queue /\ q.id = vita.id /\ q.syncing = vita.syncing
      /\ q.cancelled = vita.cancelled /\ DOMAIN q.items = DOMAIN vita.items
      /\ Len(q.items) = Len(vita.items) /\ q.items[i].state = to
      /\ \A k \in DOMAIN vita.items : k # i => q.items[k] = vita.items[k]
  BY StateSet DEF ItemStates
<1> HIDE DEF q
<1>3. /\ vita'.id = vita.id /\ vita'.syncing = vita.syncing /\ vita'.cancelled = vita.cancelled
      /\ vita'.items = q.items
  BY <1>1, <1>2 DEF Queue
<1>4. vita.id # Nobody /\ ~Mine /\ ~Mine'
  BY <1>1, <1>3, JobsAssumption DEF Mine
<1>5. QueueState'
  BY <1>2, <1>3, <1>4 DEF QueueState, State
<1>6. Entries' = Entries
  BY <1>4 DEF Entries
<1> QED
  BY <1>3, <1>5, <1>6 DEF Contract!vars

(* Every step keeps the invariant, and is one of the contract or a stutter. *)
LEMMA ContractStep ==
  ASSUME PositionOK, QueueInv, ContractInv, [Next]_vars
  PROVE  ContractInv' /\ [Contract!Next]_Contract!vars
<1>0. vita \in Queue /\ QueueState /\ mode' = mode /\ ViaOK'
  BY ViaKeeps DEF QueueInv, QueueType, ContractInv
<1>1. CASE UNCHANGED vita
  BY <1>0, <1>1 DEF ContractInv, QueueState, Mine, State, Contract!vars, Entries
<1>2. CASE QueueEvent
  <2>1. ASSUME NEW j \in Send, Replaceable, vita' = Fresh(j) PROVE QueueState' /\ Contract!Next
    BY <1>0, <2>1, OpenRefines, JobsAssumption
  <2>2. ASSUME NEW id \in Others, OtherPublishes(id) PROVE QueueState' /\ Contract!Next
    BY <1>0, <2>2, OpenRefines DEF OtherPublishes, Reachable
  <2> QED
    BY <1>0, <1>2, <2>1, <2>2, UploadRefines, SyncRefines, TakeRefines, ReturnRefines, CloseRefines,
       OtherRefines DEF QueueEvent, ContractInv
<1> QED
  BY <1>1, <1>2, QueueEvents

-----------------------------------------------------------------------------
(* Types: what the invariants above leave open.                            *)

OtherTypes ==
  /\ temp \subseteq Convert \X (1 .. N)
  /\ shut \in {"open", "conversion", "transfer", "first", "second", "cleanup", "closed"}
  /\ mode \in {"usb", "wifi"} /\ caught \subseteq Jobs /\ early \subseteq Transfers
  /\ lost \subseteq {"answer", "cancel", "publish"}
Truths ==
  /\ stopC \in BOOLEAN /\ stopT \in BOOLEAN /\ closing \in BOOLEAN /\ cleaned \in BOOLEAN
  /\ helper \in BOOLEAN

(* convert_files and copy_from_vita.                                       *)
LEMMA CallTypes ==
  ASSUME PositionOK, OtherTypes, NEW j \in Jobs,
         (j \in Convert /\ convert_files(j)) \/ copy_from_vita(j) \/ Call(j) \/ Picks(j)
  PROVE  OtherTypes' /\ seen' \in {seen, Unread}
<1>1. CASE j \in Convert /\ convert_files(j)
  <2>1. UNCHANGED <<shut, mode, caught, lost>> /\ early' \subseteq early /\ seen' \in {seen, Unread}
    BY <1>1 DEF convert_files, TakeConversionLock, TestClosing, ClearConversionCancel, ConvertStarts,
                ConvertSkips, ConvertReturns, ConvertEnds, GoTo, Leave, pressed, world
  <2>2. temp' \subseteq temp \cup {<<j, pos[j].item>>} /\ (~(temp' \subseteq temp) => pos[j].item <= N)
    BY <1>1 DEF convert_files, TakeConversionLock, TestClosing, ClearConversionCancel, ConvertStarts,
                ConvertSkips, ConvertReturns, ConvertEnds, files
  <2>3. pos[j].item <= N => pos[j].item \in 1 .. N
    BY JobsAssumption DEF PositionOK, Positions, Place
  <2> QED
    BY <1>1, <2>1, <2>2, <2>3 DEF OtherTypes
<1>2. CASE copy_from_vita(j) \/ Call(j) \/ Picks(j)
  <2>1. UNCHANGED <<shut, mode, caught, lost, temp>> /\ early' \subseteq early /\ seen' \in {seen, Unread}
    BY <1>2 DEF copy_from_vita, TakeTransferLock, ClearTransferCancel, CopyChecks, CopyArrives, CopyFails,
                CopyReturns, Call, Picks, GoTo, Leave, pressed, world, files
  <2> QED
    BY <2>1 DEF OtherTypes
<1> QED
  BY <1>1, <1>2

(* send_files.                                                             *)
LEMMA SendTypes ==
  ASSUME OtherTypes, NEW j \in Jobs, send_files(j)
  PROVE  OtherTypes' /\ (seen' \in {seen, Unread} \/ PollReads(j))
<1>1. /\ UNCHANGED <<shut, mode, caught, temp>> /\ early' \subseteq early
      /\ lost' \subseteq lost \cup {"answer", "cancel", "publish"}
  BY DEF send_files, TakeTransferLock, ClearTransferCancel, SendPrepares, PublishRefused, PublishUnanswered,
         PublishFails, PublishAnswered, PublishMisreported, UploadConfirmed, UploadRaises, SyncAccepted,
         SyncRaises, PollReads, PollRaises, PollDecides, SendUndoes, GoTo, Leave, pressed, world, files
<1>2. seen' \in {seen, Unread} \/ PollReads(j)
  BY DEF send_files, TakeTransferLock, ClearTransferCancel, SendPrepares, PublishRefused, PublishUnanswered,
         PublishFails, PublishAnswered, PublishMisreported, UploadConfirmed, UploadRaises, SyncAccepted,
         SyncRaises, PollRaises, PollDecides, SendUndoes, GoTo, Leave
<1> QED
  BY <1>1, <1>2 DEF OtherTypes

(* Every step.                                                             *)
LEMMA OtherTypesKeep ==
  ASSUME PositionOK, OtherTypes, [Next]_vars
  PROVE  OtherTypes' /\ (seen' \in {seen, Unread} \/ \E j \in Jobs : PollReads(j))
<1>1. ASSUME NEW j \in Jobs, Run(j)
      PROVE  OtherTypes' /\ (seen' \in {seen, Unread} \/ \E k \in Jobs : PollReads(k))
  BY <1>1, CallTypes, SendTypes DEF Run
<1>2. ASSUME NEW j \in Jobs, Call(j) \/ Picks(j) PROVE OtherTypes' /\ seen' \in {seen, Unread}
  BY <1>2, CallTypes
<1>3. ASSUME NEW j \in Jobs, cancel_transfer(j) PROVE OtherTypes' /\ seen' = seen
  BY <1>3 DEF cancel_transfer, OtherTypes, files, world
<1>4. CASE stop_conversion \/ Vita \/ Finished \/ Hangs \/ UNCHANGED vars
  BY <1>4 DEF stop_conversion, Vita, VitaImports, Finished, Hangs, vars, OtherTypes, calls, pressed, files, world
<1>5. CASE _shutdown
  BY <1>5 DEF _shutdown, ShutdownCloses, ShutdownStopsConversion, ShutdownStopsTransfer, ShutdownLocks,
              ShutdownCleans, OtherTypes, calls, pressed, files, world
<1> QED
  BY <1>1, <1>2, <1>3, <1>4, <1>5 DEF Next

(* What a poll reads.                                                      *)
LEMMA SeenKeeps ==
  ASSUME PositionOK, OtherTypes, vita \in Queue, seen \in Counters, [Next]_vars
  PROVE  seen' \in Counters
<1>1. Unread \in Counters
  BY DEF Unread, Counters
<1>2. ASSUME NEW j \in Jobs, PollReads(j) PROVE seen' \in Counters
  <2>1. vita.syncing \in BOOLEAN /\ vita.cancelled \in BOOLEAN
    BY DEF Queue
  <2>2. (Counted = Len(vita.items)) \in BOOLEAN
    OBVIOUS
  <2>3. seen' = [settled |-> Counted = Len(vita.items), syncing |-> vita.syncing, cancelled |-> vita.cancelled]
    BY <1>2 DEF PollReads
  <2> QED
    BY <2>1, <2>2, <2>3 DEF Counters
<1> QED
  BY <1>1, <1>2, OtherTypesKeep

(* The truth values.                                                       *)
LEMMA TruthsKeep ==
  ASSUME Truths, [Next]_vars
  PROVE  Truths'
<1>1. ASSUME NEW j \in Jobs, Run(j) PROVE Truths'
  <2>1. CASE convert_files(j)
    BY <2>1, Zenon DEF Truths, convert_files, TakeConversionLock, TestClosing, ClearConversionCancel,
                       ConvertStarts, ConvertSkips, ConvertReturns, ConvertEnds, flags, files, world
  <2>2. CASE copy_from_vita(j)
    BY <2>2, Zenon DEF Truths, copy_from_vita, TakeTransferLock, ClearTransferCancel, CopyChecks,
                       CopyArrives, CopyFails, CopyReturns, flags, files, world
  <2>3. CASE send_files(j)
    BY <2>3, Zenon DEF Truths, send_files, TakeTransferLock, ClearTransferCancel, SendPrepares,
                       PublishRefused, PublishUnanswered, PublishAnswered, PublishMisreported,
                       UploadConfirmed, UploadRaises, SyncAccepted, SyncRaises, PollReads, PollRaises,
                       PollDecides, SendUndoes, flags, files, world
  <2> QED
    BY <1>1, <2>1, <2>2, <2>3 DEF Run
<1>2. ASSUME NEW j \in Jobs, Call(j) \/ Picks(j) \/ cancel_transfer(j) PROVE Truths'
  BY <1>2, Zenon DEF Truths, Call, Picks, cancel_transfer, flags, files, world
<1>3. CASE stop_conversion \/ Vita \/ Finished \/ Hangs \/ UNCHANGED vars
  BY <1>3, Zenon DEF Truths, stop_conversion, Vita, VitaImports, Finished, Hangs, vars, flags, files, world
<1>4. CASE _shutdown
  BY <1>4, Zenon DEF Truths, _shutdown, ShutdownCloses, ShutdownStopsConversion, ShutdownStopsTransfer,
                     ShutdownLocks, ShutdownCleans, flags, files, world
<1> QED
  BY <1>1, <1>2, <1>3, <1>4 DEF Next

-----------------------------------------------------------------------------
(* The theorems.                                                           *)

(* Locks, places, cancel requests and the temporary folder fit together in  *)
(* every reachable state of the back end, for any number of calls.          *)
THEOREM Invariance == Spec => []Inv
<1>1. Init => Inv
  <2> SUFFICES ASSUME Init PROVE Inv
    OBVIOUS
  <2>1. PlacesOK
    BY DEF Init, PlacesOK, Places, Outside
  <2>2. TransferLockOK /\ ConversionLockOK
    BY HeldFacts DEF Init, TransferLockOK, ConversionLockOK, Outside, Transfers, Jobs
  <2>3. CloserOK /\ CancelOK /\ FilesOK
    BY JobsAssumption DEF Init, CloserOK, CancelOK, FilesOK
  <2>4. QED BY <2>1, <2>2, <2>3 DEF Inv
<1>2. Inv /\ [Next]_vars => Inv'
  <2> SUFFICES ASSUME Inv, [Next]_vars PROVE Inv'
    OBVIOUS
  <2>1. CASE UNCHANGED vars
    BY <2>1, Elsewhere DEF vars, calls, flags, files, pressed
  <2>2. ASSUME NEW j \in Jobs, Call(j) PROVE Inv'
    BY <2>2, Approach DEF Call, Outside, flags, files
  <2>3. ASSUME NEW j \in Jobs, cancel_transfer(j) PROVE Inv'
    BY <2>3, CancelKeeps
  <2>4. ASSUME NEW j \in Jobs, Picks(j) PROVE Inv'
    <3>1. CASE GoTo(j, "wait", First)
      BY <2>4, <3>1, Approach DEF Picks, Outside, flags, files
    <3>2. CASE Leave(j, "error")
      BY <2>4, <3>2, Leaves DEF Picks, Ended, flags, files
    <3>3. QED BY <2>4, <3>1, <3>2 DEF Picks
  <2>5. ASSUME NEW j \in Jobs, Run(j) PROVE Inv'
    BY <2>5, ConvertKeeps, CopyKeeps, SendKeeps DEF Run
  <2>6. CASE stop_conversion
    BY <2>6, Elsewhere DEF stop_conversion, calls, pressed, files
  <2>7. CASE Vita
    BY <2>7, Elsewhere DEF Vita, VitaImports, calls, flags, pressed, files
  <2>8. CASE _shutdown
    BY <2>8, ShutdownKeeps
  <2>9. CASE Finished \/ Hangs
    BY <2>9, Elsewhere DEF Finished, Hangs, vars, calls, flags, files, pressed
  <2>10. QED
    BY <2>1, <2>2, <2>3, <2>4, <2>5, <2>6, <2>7, <2>8, <2>9 DEF Next
<1>3. QED BY <1>1, <1>2, PTL DEF Spec

(* A Cancel pressed while a transfer runs stays in force until it has ended.*)
THEOREM CancelInForce == Spec => []CancelStays
<1>1. Inv => CancelStays
  BY DEF Inv, CancelOK, CancelStays
<1>2. QED BY <1>1, Invariance, PTL

(* Nothing uses the temporary folder once _shutdown has removed it.         *)
THEOREM CleanupIsSafe == Spec => []CleanedIsUnused
<1>1. Inv => CleanedIsUnused
  BY DEF Inv, FilesOK, Working, CleanedIsUnused
<1>2. QED BY <1>1, Invariance, PTL

(* The queue on the Vita is what the place of every call says.              *)
LEMMA QueueInvariance == Spec => [](Inv /\ PositionOK /\ QueueInv)
<1>1. Init => PositionOK
  BY NextPositions DEF Init, PositionOK, AtFile
<1>2. Init => QueueInv
  <2> SUFFICES ASSUME Init PROVE QueueInv
    OBVIOUS
  <2>1. /\ pc = [j \in Jobs |-> "idle"] /\ via = [j \in Jobs |-> "wifi"]
        /\ vita = [id |-> Nobody, items |-> <<>>, failed |-> 0, syncing |-> FALSE, cancelled |-> FALSE]
    BY DEF Init
  <2>2. vita \in Queue
    BY <2>1 DEF Queue
  <2>3. ASSUME NEW k \in Send PROVE QueueAt(k, pc[k])
    <3>1. pc[k] = "idle" /\ vita.id # k
      BY <2>1, JobsAssumption DEF Jobs
    <3> QED
      BY <3>1 DEF QueueAt, Published, Synced
  <2> QED
    BY <2>1, <2>2, <2>3 DEF QueueInv, QueueType
<1> QED
  BY <1>1, <1>2, PositionKeeps, QueueKeeps, Invariance, PTL DEF Spec

(* However send_files ends, with a result, an exception or at any point of  *)
(* its error paths, the Vita's queue is free for the next call or is        *)
(* finishing the import under way; only lost requests prevent that.         *)
THEOREM QueueIsLeftFree == Spec => []QueueIsFreed
<1>1. QueueInv => QueueIsFreed
  BY DEF QueueInv, QueueAt, QueueIsFreed, Freed
<1> QED
  BY <1>1, QueueInvariance, PTL

(* What send_files returns is what became of the files of that call,        *)
(* although counters and items are two requests, failures may be counted    *)
(* twice and a second computer may publish between polls.                   *)
THEOREM TrueReport == Spec => ReportIsTrue
<1> DEFINE True ==
      \A j \in Send : pc'[j] = "done" /\ pc[j] # "done" /\ "publish" \notin lost =>
        /\ vita.id = j /\ ~vita.syncing
        /\ \A i \in DOMAIN vita.items : State(i) \in {"imported", "failed"} \/ vita.cancelled
<1>1. Inv /\ PositionOK /\ QueueInv /\ [Next]_vars => [True]_vars
  <2> SUFFICES ASSUME Inv, QueueInv, Next, NEW j \in Send, pc'[j] = "done", pc[j] # "done", "publish" \notin lost
               PROVE  /\ vita.id = j /\ ~vita.syncing
                      /\ \A i \in DOMAIN vita.items : State(i) \in {"imported", "failed"} \/ vita.cancelled
    OBVIOUS
  <2>2. pc[j] = "items" /\ seen.settled /\ ~seen.syncing
    BY OnlyDecides
  <2>3. QueueAt(j, "items")
    BY <2>2 DEF QueueInv
  <2>4. vita.id = j /\ ~vita.syncing /\ Closed
    BY <2>2, <2>3 DEF QueueAt, Synced
  <2> QED
    BY <2>4 DEF Closed
<1> QED
  BY <1>1, QueueInvariance, PTL DEF Spec, ReportIsTrue

(* The invariant, and the contract's steps.                                *)
LEMMA ContractInvariance == Spec => []ContractInv /\ CallsKeepContract
<1>1. Init => ContractInv /\ Contract!Init
  <2> SUFFICES ASSUME Init PROVE ContractInv /\ Contract!Init
    OBVIOUS
  <2>1. /\ vita = [id |-> Nobody, items |-> <<>>, failed |-> 0, syncing |-> FALSE, cancelled |-> FALSE]
        /\ via = [j \in Jobs |-> "wifi"] /\ Nobody \notin Send \cup Others
    BY JobsAssumption DEF Init, Jobs
  <2>2. vita.id = Nobody /\ vita.items = <<>> /\ ~Mine /\ vita.syncing = FALSE /\ vita.cancelled = FALSE
    BY <2>1 DEF Mine
  <2>3. ContractInv
    BY <2>1, <2>2 DEF ContractInv, QueueState, ViaOK
  <2>4. Entries = [i \in 1 .. 0 |-> "pending"]
    BY <2>2 DEF Entries
  <2> QED
    BY <2>2, <2>3, <2>4 DEF Contract!Init
<1>2. PositionOK /\ QueueInv /\ ContractInv /\ [Next]_vars => ContractInv' /\ [Contract!Next]_Contract!vars
  BY ContractStep
<1> QED
  BY <1>1, <1>2, QueueInvariance, PTL DEF Spec, CallsKeepContract, Contract!Spec

(* Over either transport, whatever is lost, and whatever a second computer  *)
(* does in between, the queue the calls of send_files work on keeps to the  *)
(* contract that SyncQueue implements.                                      *)
THEOREM ContractKept == Spec => CallsKeepContract
  BY ContractInvariance, PTL

(* Every variable has its type; a call is never beyond the place behind its *)
(* last file, and what the Vita holds is empty or as long as a call's list. *)
THEOREM TypeCorrect == Spec => []TypeOK
<1>1. Init => OtherTypes /\ seen \in Counters
  BY DEF Init, OtherTypes, Unread, Counters
<1>2. Init => Truths
  BY Zenon DEF Init, Truths
<1>3. Inv /\ PositionOK /\ QueueInv /\ ContractInv /\ OtherTypes /\ seen \in Counters /\ Truths => TypeOK
  <2> SUFFICES ASSUME Inv, PositionOK, QueueInv, ContractInv, OtherTypes, seen \in Counters, Truths
               PROVE  TypeOK
    OBVIOUS
  <2>1. Truths
    OBVIOUS
  <2>2. stopC \in BOOLEAN /\ stopT \in BOOLEAN /\ closing \in BOOLEAN /\ cleaned \in BOOLEAN /\ helper \in BOOLEAN
    BY <2>1, Zenon DEF Truths
  <2>3. pc \in [Jobs -> {"idle", "pick", "wait", "clear", "reset", "convert", "running",
                         "copy", "download", "prepare", "usb", "wifi", "upload", "sync",
                         "poll", "items", "undo", "done", "error"}]
    BY DEF Inv, PlacesOK, Places, CopyHeld, SendHeld, ConvertHeld, Outside
  <2>4. pos \in [Jobs -> Place]
    BY DEF PositionOK, Positions
  <2>5. /\ lockC \in Convert \cup {Nobody, Closer} /\ lockT \in Transfers \cup {Nobody, Closer}
        /\ asked \subseteq Transfers
    BY DEF Inv, PlacesOK, CancelOK
  <2>6. vita \in Queue /\ via \in [Jobs -> {"usb", "wifi"}] /\ Len(vita.items) \in {0, N}
    BY DEF QueueInv, QueueType, ContractInv, QueueState
  <2> QED
    BY <2>2, <2>3, <2>4, <2>5, <2>6, Zenon DEF TypeOK, OtherTypes
<1>4. PositionOK /\ QueueInv /\ OtherTypes /\ seen \in Counters /\ [Next]_vars
        => OtherTypes' /\ (seen \in Counters)'
  BY OtherTypesKeep, SeenKeeps DEF QueueInv, QueueType
<1>5. Truths /\ [Next]_vars => Truths'
  BY TruthsKeep
<1> QED
  BY <1>1, <1>2, <1>3, <1>4, <1>5, QueueInvariance, ContractInvariance, PTL DEF Spec
=============================================================================
