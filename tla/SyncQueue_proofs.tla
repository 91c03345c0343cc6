--------------------------- MODULE SyncQueue_proofs ---------------------------
(***************************************************************************)
(* Proofs about SyncQueue for every set of manifests, of any length.       *)
(*                                                                         *)
(* The safety invariants are not inductive one by one: that no queue       *)
(* replaces the one a worker works on needs syncing to cover the worker,   *)
(* which needs to know where the UI thread is, and so on.  Inv is their    *)
(* common strengthening.                                                   *)
(***************************************************************************)
EXTENDS SyncQueue, FiniteSetTheorems, TLAPS

(* The thread-local part of each thread: a server outside an upload has no  *)
(* upload, one inside it holds an item that still wants what it receives;   *)
(* a worker outside its loop has no index, and only inside an import a job. *)
ThreadsInv ==
  /\ ~Uploading => up = NoUpload
  /\ Uploading => /\ up.i \in 1 .. count /\ Wanted(up.i, up.sidecar)
                  /\ items[up.i].state = "receiving"
                  /\ up.got <= Expected(up)
  /\ srv = "recv" => up.got < Expected(up)
  /\ ~Working => wi = 0
  /\ Working => wi # 0
  /\ worker # "import" => job = NoFile

(* Transfer IDs are distinct, a complete item is one that is received,      *)
(* imported or was tried, and every accepted part of an item that was not   *)
(* handed to the importer is in the inbox.                                  *)
Handed(item) == item.state \in {"imported", "failed"} /\ Complete(item)
Sound(item, box) ==
  /\ item.state \in {"received", "importing", "imported"} => Complete(item)
  /\ item.state \in {"waiting", "receiving"} => ~Complete(item)
  /\ item.subtitle_ready => item.subtitle # 0
  /\ ~Handed(item) => /\ item.media_ready => <<item.file, FALSE>> \in box
                      /\ item.subtitle_ready => <<item.file, TRUE>> \in box
ItemsInv ==
  /\ \A i, j \in 1 .. count : items[i].file = items[j].file => i = j
  /\ \A i \in 1 .. count : Sound(items[i], inbox)

Inv == /\ TypeOK /\ ThreadsInv /\ SyncingCoversTheWorker /\ ImportOwnsItsSlot
       /\ ItemsInv /\ CountersMatchItems
-----------------------------------------------------------------------------
(* Lemmas.                                                                 *)

(* The set of items in a state is finite, so its cardinality is a number.  *)
LEMMA InStateFinite ==
  ASSUME count \in Nat, NEW s
  PROVE  IsFiniteSet(InState(s)) /\ Cardinality(InState(s)) \in Nat
<1>1. IsFiniteSet(1 .. count)
  BY FS_Interval
<1>2. InState(s) \subseteq 1 .. count
  BY DEF InState
<1>3. IsFiniteSet(InState(s))
  BY <1>1, <1>2, FS_Subset
<1> QED
  BY <1>3, FS_CardinalityType

(* Adding an element the set does not have adds one to its cardinality,    *)
(* and removing one never adds to it.                                      *)
LEMMA OneMore ==
  ASSUME NEW S, NEW T, NEW x, IsFiniteSet(S), x \notin S, T = S \cup {x}
  PROVE  Cardinality(T) = Cardinality(S) + 1
  BY FS_AddElement

(* A subset has no more members.                                           *)
LEMMA NotMore ==
  ASSUME NEW S, NEW T, IsFiniteSet(S), T \subseteq S
  PROVE  Cardinality(T) \in Nat /\ Cardinality(T) <= Cardinality(S)
  BY FS_Subset, FS_CardinalityType

(* A step that leaves the item table, its counters and the inbox alone.    *)
LEMMA FrameItems ==
  ASSUME ItemsInv, CountersMatchItems,
         UNCHANGED <<count, items, imported, failed, inbox>>
  PROVE  ItemsInv' /\ CountersMatchItems'
  BY DEF ItemsInv, CountersMatchItems, InState

(* A published queue starts from a state that satisfies the invariant.     *)
LEMMA PublishInv ==
  ASSUME Inv, NEW id \in QueueIds, NEW m \in Manifests, vcm_queue_publish(id, m)
  PROVE  Inv'
<1> USE DEF Inv
<1>0. /\ m \in Seq(Entry) /\ Len(m) \in Nat /\ Len(m) > 0
      /\ \A i, j \in 1 .. Len(m) : m[i].file = m[j].file => i = j
  BY QueueAssumption
<1>1. \A i \in 1 .. Len(m) : m[i] \in Entry
  BY <1>0
<1>2. /\ count' = Len(m) /\ items' = [i \in 1 .. Len(m) |-> FreshItem(m[i])]
      /\ imported' = 0 /\ failed' = 0 /\ importing' = 0 /\ transferred' = 0
      /\ syncing' = FALSE /\ cancelled' = FALSE /\ redraw' = TRUE /\ qid' = id
      /\ UNCHANGED <<inbox, srv, up, report, ui, dialog, stop, worker, wi, job>>
      /\ ~syncing /\ srv = "idle"
  BY DEF vcm_queue_publish, Replaceable, server, screen, importer
<1>3. \A i \in 1 .. count' :
        /\ items'[i] \in Item /\ items'[i].state = "waiting"
        /\ items'[i].file = m[i].file
        /\ ~items'[i].media_ready /\ ~items'[i].subtitle_ready
  BY <1>1, <1>2 DEF FreshItem, Entry, Item, States
<1>4. ~Working /\ wi = 0 /\ up = NoUpload /\ worker # "import" /\ job = NoFile
  BY <1>2 DEF SyncingCoversTheWorker, ThreadsInv, Uploading, Working
<1>5. TypeOK'
  <2>1. items' \in [1 .. count' -> Item]
    BY <1>2, <1>3
  <2>2. wi' \in 0 .. count' + 1 /\ up'.i \in 0 .. count' /\ importing' \in 0 .. count'
    BY <1>0, <1>2, <1>4 DEF NoUpload
  <2>3. /\ qid' \in QueueIds \cup {NoQueue} /\ count' \in Nat
        /\ imported' \in Nat /\ failed' \in Nat /\ transferred' \in Int
    BY <1>0, <1>2
  <2>4. syncing' \in BOOLEAN /\ cancelled' \in BOOLEAN /\ redraw' \in BOOLEAN
    BY <1>2
  <2> QED
    BY <1>2, <2>1, <2>2, <2>3, <2>4, Zenon DEF TypeOK
<1>6. ThreadsInv'
  BY <1>2, <1>4 DEF ThreadsInv, Uploading, Working
<1>7. SyncingCoversTheWorker'
  BY <1>2, <1>4 DEF SyncingCoversTheWorker, Uploading, Working
<1>8. ImportOwnsItsSlot'
  BY <1>2, <1>3, <1>4 DEF ImportOwnsItsSlot
<1>9. ItemsInv'
  <2>1. \A i, j \in 1 .. count' : items'[i].file = items'[j].file => i = j
    BY <1>0, <1>2, <1>3
  <2>2. \A i \in 1 .. count' : ~Complete(items'[i])
    BY <1>3 DEF Complete
  <2> QED
    BY <1>3, <2>1, <2>2 DEF ItemsInv, Sound, Handed
<1>10. CountersMatchItems'
  <2>1. InState("imported")' = {} /\ InState("failed")' = {}
    BY <1>3 DEF InState
  <2>2. Cardinality({}) = 0
    BY FS_EmptySet
  <2>3. Cardinality(InState("imported")') = 0 /\ Cardinality(InState("failed")') = 0
    BY <2>1, <2>2
  <2>4. imported' = Cardinality(InState("imported")') /\ failed' >= Cardinality(InState("failed")')
    BY <1>2, <2>3
  <2> QED
    BY <2>4 DEF CountersMatchItems
<1> QED
  BY <1>5, <1>6, <1>7, <1>8, <1>9, <1>10

(* Steps that leave the item table, its counters and the inbox alone.      *)
LEMMA RequestInv ==
  ASSUME Inv, NEW s, vcm_queue_sync(s) \/ CancelRequest(s)
  PROVE  Inv'
<1> USE DEF Inv
<1>1. /\ UNCHANGED <<qid, count, items, imported, failed, importing, transferred, inbox,
                     srv, up, report, ui, dialog, stop, worker, wi, job>>
      /\ redraw' = TRUE /\ srv = "idle"
      /\ \/ syncing' = TRUE /\ cancelled' = cancelled
         \/ syncing' = syncing /\ cancelled' = TRUE
  BY DEF vcm_queue_sync, CancelRequest, vcm_queue_cancel, Admitted, server, screen, importer
<1>2. TypeOK'
  <2>1. syncing' \in BOOLEAN /\ cancelled' \in BOOLEAN /\ redraw' \in BOOLEAN
    BY <1>1, Zenon DEF TypeOK
  <2> QED
    BY <1>1, <2>1, Zenon DEF TypeOK
<1>3. ThreadsInv'
  BY <1>1 DEF ThreadsInv, Uploading, Working, Wanted, Expected
<1>4. SyncingCoversTheWorker'
  BY <1>1 DEF SyncingCoversTheWorker, Uploading, Working
<1>5. ImportOwnsItsSlot'
  BY <1>1 DEF ImportOwnsItsSlot
<1> QED
  BY <1>1, <1>2, <1>3, <1>4, <1>5, FrameItems

(* The UI thread: its poll, the worker's start, the dialog and the exit.    *)
LEMMA ScreenInv ==
  ASSUME Inv,
         \/ \E opens \in BOOLEAN : PollImport(opens)
         \/ StartWorker \/ StartFails \/ Abandon \/ queue_on_dialog_action \/ Exit
  PROVE  Inv'
<1> USE DEF Inv, server, screen, importer, info
<1>1. CASE \E opens \in BOOLEAN : PollImport(opens)
  <2>1. PICK opens \in BOOLEAN : PollImport(opens)
    BY <1>1
  <2>2. /\ UNCHANGED <<qid, count, items, imported, failed, importing, transferred, inbox,
                       syncing, cancelled, srv, up, report, stop, wi, job>>
        /\ ui = "poll" /\ worker' = Joined /\ redraw' = FALSE
        /\ ui' = IF syncing /\ Joined = "none" THEN "start" ELSE "poll"
        /\ dialog' = IF redraw THEN Active /\ (dialog \/ opens) ELSE dialog
    BY <2>1 DEF PollImport
  <2>3. TypeOK'
    <3>1. dialog' \in BOOLEAN /\ redraw' \in BOOLEAN
      BY <2>2, Zenon DEF TypeOK, Active
    <3>2. ui' \in {"poll", "start", "abandon", "exit"}
      BY <2>2
    <3>3. worker' \in {"none", "next", "import", "ending", "finished"}
      BY <2>2 DEF Joined, TypeOK
    <3> QED
      BY <2>2, <3>1, <3>2, <3>3, Zenon DEF TypeOK
  <2>4. ThreadsInv'
    BY <2>2 DEF ThreadsInv, Uploading, Working, Wanted, Expected, Joined
  <2>5. SyncingCoversTheWorker'
    BY <2>2 DEF SyncingCoversTheWorker, Uploading, Working, Joined
  <2>6. ImportOwnsItsSlot'
    BY <2>2 DEF ImportOwnsItsSlot, Joined
  <2> QED
    BY <2>2, <2>3, <2>4, <2>5, <2>6, FrameItems
<1>2. CASE StartWorker
  <2>0. /\ UNCHANGED <<qid, count, items, imported, failed, importing, transferred, inbox,
                       syncing, cancelled, redraw, srv, up, report, dialog, stop>>
        /\ ui = "start" /\ ui' = "poll" /\ worker' = "next" /\ wi' = 1 /\ job' = NoFile
    BY <1>2 DEF StartWorker
  <2>1. TypeOK'
    <3>1. wi' \in 0 .. count' + 1
      BY <2>0 DEF TypeOK
    <3>2. /\ ui' \in {"poll", "start", "abandon", "exit"}
          /\ worker' \in {"none", "next", "import", "ending", "finished"}
      BY <2>0
    <3> QED
      BY <2>0, <3>1, <3>2, Zenon DEF TypeOK
  <2>2. ThreadsInv'
    BY <2>0 DEF ThreadsInv, Uploading, Working, Wanted, Expected
  <2>3. SyncingCoversTheWorker'
    BY <2>0 DEF SyncingCoversTheWorker, Uploading, Working
  <2>4. ImportOwnsItsSlot'
    BY <2>0 DEF ImportOwnsItsSlot, SyncingCoversTheWorker
  <2> QED
    BY <2>0, <2>1, <2>2, <2>3, <2>4, FrameItems
<1>3. CASE StartFails \/ Exit
  <2>0. /\ UNCHANGED <<qid, count, items, imported, failed, importing, transferred, inbox,
                       syncing, cancelled, redraw, srv, up, report, dialog, worker, wi, job>>
        /\ \/ ui = "start" /\ ui' = "abandon" /\ stop' = stop
           \/ ui' = "exit" /\ stop' = TRUE
    BY <1>3 DEF StartFails, Exit
  <2>1. TypeOK'
    <3>1. stop' \in BOOLEAN
      BY <2>0, Zenon DEF TypeOK
    <3>2. ui' \in {"poll", "start", "abandon", "exit"}
      BY <2>0
    <3> QED
      BY <2>0, <3>1, <3>2, ZenonT(60) DEF TypeOK
  <2>2. ThreadsInv'
    BY <2>0 DEF ThreadsInv, Uploading, Working, Wanted, Expected
  <2>3. SyncingCoversTheWorker'
    BY <2>0 DEF SyncingCoversTheWorker, Uploading, Working
  <2>4. ImportOwnsItsSlot'
    BY <2>0 DEF ImportOwnsItsSlot
  <2> QED
    BY <2>0, <2>1, <2>2, <2>3, <2>4, FrameItems
<1>4. CASE Abandon \/ queue_on_dialog_action
  <2>0. /\ UNCHANGED <<qid, count, items, imported, failed, importing, transferred, inbox,
                       syncing, srv, up, report, dialog, stop, worker, wi, job>>
        /\ cancelled' = TRUE /\ redraw' = TRUE /\ (ui' = ui \/ ui' = "poll")
    BY <1>4 DEF Abandon, queue_on_dialog_action, vcm_queue_cancel
  <2>1. TypeOK'
    <3>1. cancelled' \in BOOLEAN /\ redraw' \in BOOLEAN
      BY <2>0
    <3>2. ui' \in {"poll", "start", "abandon", "exit"}
      BY <2>0 DEF TypeOK
    <3> QED
      BY <2>0, <3>1, <3>2, ZenonT(60) DEF TypeOK
  <2>2. ThreadsInv'
    BY <2>0 DEF ThreadsInv, Uploading, Working, Wanted, Expected
  <2>3. SyncingCoversTheWorker'
    BY <2>0 DEF SyncingCoversTheWorker, Uploading, Working
  <2>4. ImportOwnsItsSlot'
    BY <2>0 DEF ImportOwnsItsSlot
  <2> QED
    BY <2>0, <2>1, <2>2, <2>3, <2>4, FrameItems
<1> QED
  BY <1>1, <1>2, <1>3, <1>4

(* A server step between two critical sections, and the status report.     *)
LEMMA ServerLocalInv ==
  ASSUME Inv, UploadOpened \/ LoopCheck \/ ConnectionLost \/ StatusRequest \/ Status
  PROVE  Inv'
<1> USE DEF Inv
<1>1. /\ UNCHANGED <<qid, count, items, imported, failed, importing, transferred, inbox, redraw,
                     syncing, cancelled, ui, dialog, stop, worker, wi, job>>
      /\ srv' \in {"idle", "check", "recv", "finish", "status"}
      /\ \/ /\ Uploading /\ Uploading' /\ report' = report
            /\ up' = up \/ up' = [up EXCEPT !.failed = TRUE]
            /\ srv' = "recv" => up.got < Expected(up)
         \/ /\ ~Uploading /\ ~Uploading' /\ up' = up
            /\ \/ report' = NoReport
               \/ report' = [imported |-> imported, failed |-> failed, syncing |-> syncing,
                             listed |-> <<>>]
               \/ /\ Len(report.listed) < count
                  /\ report' = [report EXCEPT !.listed = Append(@, items[Len(@) + 1].state)]
  BY DEF UploadOpened, LoopCheck, ConnectionLost, StatusRequest, Status, StatusItem, StatusSent,
         Uploading, info, server, screen, importer
<1>2. up' \in Upload /\ up'.i = up.i /\ up'.got = up.got /\ up'.sidecar = up.sidecar
  <2>1. up \in Upload
    BY DEF TypeOK
  <2>2. CASE up' = up
    BY <2>1, <2>2
  <2>3. CASE up' = [up EXCEPT !.failed = TRUE]
    BY <2>1, <2>3 DEF Upload
  <2> QED
    BY <1>1, <2>2, <2>3
<1>3. report' \in Report
  <2>0. report \in Report /\ syncing \in BOOLEAN /\ imported \in Nat /\ failed \in Nat
    BY DEF TypeOK
  <2>1. CASE report' = report
    BY <2>0, <2>1
  <2>2. CASE report' = NoReport
    BY <2>2 DEF NoReport, Report
  <2>3. CASE report' = [imported |-> imported, failed |-> failed, syncing |-> syncing,
                        listed |-> <<>>]
    BY <2>0, <2>3 DEF Report
  <2>4. CASE /\ Len(report.listed) < count
             /\ report' = [report EXCEPT !.listed = Append(@, items[Len(@) + 1].state)]
    <3>1. report.listed \in Seq(States)
      BY <2>0 DEF Report
    <3>2. Len(report.listed) + 1 \in 1 .. count
      BY <2>4, <3>1 DEF TypeOK
    <3>3. items[Len(report.listed) + 1].state \in States
      BY <3>2 DEF TypeOK, Item
    <3>4. Append(report.listed, items[Len(report.listed) + 1].state) \in Seq(States)
      BY <3>1, <3>3
    <3> QED
      BY <2>0, <2>4, <3>4 DEF Report
  <2> QED
    BY <1>1, <2>1, <2>2, <2>3, <2>4
<1>4. TypeOK'
  <2>1. srv' \in {"idle", "opening", "check", "recv", "finish", "status"} /\ up'.i \in 0 .. count'
    BY <1>1, <1>2 DEF TypeOK
  <2> QED
    BY <1>1, <1>2, <1>3, <2>1, ZenonT(60) DEF TypeOK
<1>5. ThreadsInv'
  <2>1. (Wanted(up.i, up.sidecar) <=> Wanted(up.i, up.sidecar)') /\ Expected(up)' = Expected(up)
    BY <1>1, <1>2 DEF Wanted, Expected
  <2>2. CASE Uploading
    BY <1>1, <1>2, <2>1, <2>2 DEF ThreadsInv, Uploading, Working, Wanted
  <2>3. CASE ~Uploading
    BY <1>1, <1>2, <2>3 DEF ThreadsInv, Uploading, Working
  <2> QED
    BY <2>2, <2>3
<1>6. SyncingCoversTheWorker'
  BY <1>1 DEF SyncingCoversTheWorker, Working
<1>7. ImportOwnsItsSlot'
  BY <1>1 DEF ImportOwnsItsSlot
<1> QED
  BY <1>1, <1>4, <1>5, <1>6, <1>7, FrameItems

(* vcm_queue_find marks an item that is not complete as receiving.         *)
LEMMA FindInv ==
  ASSUME Inv, NEW s, NEW i \in 1 .. count, NEW sidecar \in BOOLEAN,
         vcm_queue_find(s, i, sidecar)
  PROVE  Inv'
<1> USE DEF Inv
<1>1. /\ UNCHANGED <<qid, count, imported, failed, importing, transferred, inbox,
                     syncing, cancelled, report, ui, dialog, stop, worker, wi, job>>
      /\ srv = "idle" /\ ~syncing /\ Wanted(i, sidecar)
      /\ items' = [items EXCEPT ![i].state = "receiving"] /\ redraw' = TRUE
      /\ srv' = "opening" /\ up' = [NoUpload EXCEPT !.i = i, !.sidecar = sidecar]
  BY DEF vcm_queue_find, Admitted, info, screen, importer
<1>2. items \in [1 .. count -> Item] /\ count \in Nat
  BY DEF TypeOK
<1>3. /\ items'[i] = [items[i] EXCEPT !.state = "receiving"]
      /\ \A j \in 1 .. count : j # i => items'[j] = items[j]
  BY <1>1, <1>2
<1>4. /\ items'[i] \in Item /\ items'[i].state = "receiving"
      /\ items'[i].file = items[i].file /\ items'[i].size = items[i].size
      /\ items'[i].subtitle = items[i].subtitle
      /\ items'[i].media_ready = items[i].media_ready
      /\ items'[i].subtitle_ready = items[i].subtitle_ready
  <2>1. items[i] \in Item /\ "receiving" \in States
    BY <1>2 DEF States
  <2>2. items'[i] \in Item
    BY <1>3, <2>1, Zenon DEF Item
  <2> QED
    BY <1>3, <2>1, <2>2 DEF Item
<1>5. /\ up' \in Upload /\ up'.i = i /\ up'.sidecar = sidecar /\ up'.got = 0
  <2>1. up' = [i |-> i, sidecar |-> sidecar, got |-> 0, failed |-> FALSE]
    BY <1>1 DEF NoUpload
  <2>2. i \in Nat /\ 0 \in Nat
    BY <1>2
  <2> QED
    BY <2>1, <2>2 DEF Upload
<1>6. ~Complete(items[i]) /\ ~Complete(items'[i])
  <2>1. CASE sidecar
    BY <1>1, <1>4, <2>1, Zenon DEF Wanted, Complete
  <2>2. CASE ~sidecar
    BY <1>1, <1>4, <2>2, Zenon DEF Wanted, Complete
  <2> QED
    BY <2>1, <2>2
<1>7. ~Working /\ worker # "import"
  BY <1>1 DEF SyncingCoversTheWorker, Working
<1>8. TypeOK'
  <2>1. items' \in [1 .. count' -> Item]
    BY <1>1, <1>2, <1>4
  <2>2. up'.i \in 0 .. count'
    BY <1>1, <1>2, <1>5
  <2>3. srv' \in {"idle", "opening", "check", "recv", "finish", "status"} /\ redraw' \in BOOLEAN
    BY <1>1
  <2> QED
    BY <1>1, <1>5, <2>1, <2>2, <2>3, ZenonT(60) DEF TypeOK
<1>9. ThreadsInv'
  <2>1. Wanted(i, sidecar)'
    BY <1>1, <1>4 DEF Wanted
  <2>2. up'.got <= Expected(up)'
    BY <1>2, <1>4, <1>5 DEF Expected, Item
  <2>3. ThreadsInv' <=> /\ Uploading' => /\ up'.i \in 1 .. count' /\ Wanted(up.i, up.sidecar)'
                                         /\ items'[up'.i].state = "receiving"
                                         /\ (up.got <= Expected(up))'
    BY <1>1, <1>7 DEF ThreadsInv, Uploading, Working
  <2>4. Wanted(up.i, up.sidecar)' <=> Wanted(i, sidecar)'
    BY <1>5 DEF Wanted
  <2> QED
    BY <1>1, <1>4, <1>5, <2>1, <2>2, <2>3, <2>4
<1>10. SyncingCoversTheWorker'
  BY <1>1, <1>7 DEF SyncingCoversTheWorker, Working, Uploading
<1>11. ImportOwnsItsSlot'
  BY <1>1, <1>3, <1>4, <1>7 DEF ImportOwnsItsSlot
<1>12. ItemsInv'
  <2>1. \A j \in 1 .. count : items'[j].file = items[j].file
    BY <1>3, <1>4
  <2>2. \A j, k \in 1 .. count' : items'[j].file = items'[k].file => j = k
    BY <1>1, <2>1 DEF ItemsInv
  <2>3. ~Handed(items[i]) /\ ~Handed(items'[i]) /\ Sound(items[i], inbox)
    BY <1>6 DEF Handed, ItemsInv
  <2>4. Sound(items'[i], inbox')
    BY <1>1, <1>4, <1>6, <2>3 DEF Sound
  <2>5. \A j \in 1 .. count' : Sound(items'[j], inbox')
    BY <1>1, <1>3, <2>4 DEF ItemsInv
  <2> QED
    BY <2>2, <2>5 DEF ItemsInv
<1>13. CountersMatchItems'
  <2>1. items[i].state # "imported"
    BY <1>6 DEF ItemsInv, Sound
  <2>2. InState("imported")' = InState("imported")
    BY <1>1, <1>3, <1>4, <2>1 DEF InState
  <2>3. InState("failed")' \subseteq InState("failed")
    BY <1>1, <1>3, <1>4 DEF InState
  <2>4. IsFiniteSet(InState("failed")) /\ Cardinality(InState("failed")) \in Nat
    BY <1>2, InStateFinite
  <2>5. /\ Cardinality(InState("failed")') \in Nat
        /\ Cardinality(InState("failed")') <= Cardinality(InState("failed"))
    BY <2>3, <2>4, NotMore
  <2>6. failed \in Nat
    BY DEF TypeOK
  <2>7. imported' = Cardinality(InState("imported")') /\ failed' >= Cardinality(InState("failed")')
    BY <1>1, <2>2, <2>4, <2>5, <2>6 DEF CountersMatchItems
  <2> QED
    BY <2>7 DEF CountersMatchItems
<1> QED
  BY <1>8, <1>9, <1>10, <1>11, <1>12, <1>13

(* A block of an upload changes nothing of the item but its byte count.    *)
LEMMA ChunkInv ==
  ASSUME Inv, srv = "recv", NEW size \in 1 .. Expected(up) - up.got, NEW written \in BOOLEAN,
         Chunk(size, written)
  PROVE  Inv'
<1> USE DEF Inv
<1>1. items \in [1 .. count -> Item] /\ count \in Nat /\ up \in Upload /\ transferred \in Int
  BY DEF TypeOK
<1>2. up.i \in 1 .. count /\ up.got \in Nat /\ up.got < Expected(up) /\ Uploading
  BY <1>1 DEF ThreadsInv, Uploading, Upload
<1>3. items[up.i] \in Item /\ items[up.i].size \in Nat /\ items[up.i].received \in Nat
  BY <1>1, <1>2 DEF Item
<1>4. PICK value \in Nat :
        /\ items' = [items EXCEPT ![up.i].received = value]
        /\ transferred' = (transferred - items[up.i].received) + value
  <2>1. Expected(up) \in Nat
    BY <1>1, <1>2 DEF Expected, Item
  <2>2. size \in Nat
    BY <1>2, <2>1
  <2>3. (up.got + size) + (IF up.sidecar /\ items[up.i].media_ready THEN items[up.i].size ELSE 0)
          \in Nat
    BY <1>2, <1>3, <2>2
  <2> QED
    BY <2>3 DEF Chunk, vcm_queue_progress
<1>5. /\ UNCHANGED <<qid, count, imported, failed, importing, syncing, cancelled,
                     inbox, report, ui, dialog, stop, worker, wi, job>>
      /\ redraw' = TRUE /\ srv' = "check"
      /\ up' = [up EXCEPT !.got = up.got + size, !.failed = ~written]
  BY DEF Chunk, vcm_queue_progress, screen, importer
<1>6. \A j \in 1 .. count :
        /\ items'[j] \in Item
        /\ items'[j].file = items[j].file /\ items'[j].size = items[j].size
        /\ items'[j].subtitle = items[j].subtitle /\ items'[j].state = items[j].state
        /\ items'[j].media_ready = items[j].media_ready
        /\ items'[j].subtitle_ready = items[j].subtitle_ready
  <2> TAKE j \in 1 .. count
  <2>1. items[j] \in Item
    BY <1>1
  <2>2. items'[j] = IF j = up.i THEN [items[j] EXCEPT !.received = value] ELSE items[j]
    BY <1>1, <1>2, <1>4
  <2> QED
    BY <2>1, <2>2 DEF Item
<1>7. /\ up' \in Upload /\ up'.i = up.i /\ up'.sidecar = up.sidecar
      /\ up'.got \in Nat /\ up'.got <= Expected(up)
  <2>1. Expected(up) \in Nat
    BY <1>1, <1>2 DEF Expected, Item
  <2>2. up.got + size \in Nat /\ up.got + size <= Expected(up)
    BY <1>2, <2>1
  <2>3. up' = [i |-> up.i, sidecar |-> up.sidecar, got |-> up.got + size, failed |-> ~written]
    BY <1>1, <1>5 DEF Upload
  <2>4. up.i \in Nat /\ up.sidecar \in BOOLEAN /\ (~written) \in BOOLEAN
    BY <1>1 DEF Upload
  <2> QED
    BY <2>2, <2>3, <2>4 DEF Upload
<1>8. TypeOK'
  <2>1. items' \in [1 .. count' -> Item]
    BY <1>1, <1>4, <1>5, <1>6
  <2>2. up'.i \in 0 .. count' /\ transferred' \in Int
    BY <1>1, <1>2, <1>3, <1>4, <1>5, <1>7
  <2>3. srv' \in {"idle", "opening", "check", "recv", "finish", "status"} /\ redraw' \in BOOLEAN
    BY <1>5
  <2> QED
    BY <1>5, <1>7, <2>1, <2>2, <2>3, ZenonT(60) DEF TypeOK
<1>9. ThreadsInv'
  <2>1. Expected(up)' = Expected(up)
    BY <1>2, <1>6, <1>7 DEF Expected
  <2>2. Wanted(up.i, up.sidecar)' <=> Wanted(up.i, up.sidecar)
    BY <1>2, <1>6, <1>7, ZenonT(60) DEF Wanted
  <2>3. Wanted(up.i, up.sidecar) /\ items[up.i].state = "receiving"
    BY <1>2 DEF ThreadsInv
  <2>4. items'[up'.i].state = "receiving" /\ up'.i \in 1 .. count'
    BY <1>2, <1>5, <1>6, <1>7, <2>3
  <2> QED
    BY <1>5, <1>7, <2>1, <2>2, <2>3, <2>4 DEF ThreadsInv, Uploading, Working
<1>10. SyncingCoversTheWorker'
  BY <1>2, <1>5 DEF SyncingCoversTheWorker, Working, Uploading
<1>11. ImportOwnsItsSlot'
  BY <1>5, <1>6 DEF ImportOwnsItsSlot
<1>12. ItemsInv'
  <2>1. \A j \in 1 .. count : Complete(items'[j]) <=> Complete(items[j])
    BY <1>6 DEF Complete
  <2>2. \A j \in 1 .. count : Sound(items'[j], inbox) <=> Sound(items[j], inbox)
    BY <1>6, <2>1 DEF Sound, Handed
  <2> QED
    BY <1>5, <1>6, <2>2 DEF ItemsInv
<1>13. CountersMatchItems'
  <2>1. \A st : InState(st)' = InState(st)
    BY <1>5, <1>6 DEF InState
  <2> QED
    BY <1>5, <2>1, Zenon DEF CountersMatchItems
<1> QED
  BY <1>8, <1>9, <1>10, <1>11, <1>12, <1>13

(* vcm_queue_received ends an upload; an error code counts one more failed *)
(* item, which was not failed while it was being received.                 *)
LEMMA ReceivedInv ==
  ASSUME Inv, Uploading, NEW error \in {0, -1}, vcm_queue_received(error),
         inbox \subseteq inbox', inbox' \subseteq Files \X BOOLEAN,
         error = 0 => Stored(up) \in inbox'
  PROVE  Inv'
<1> USE DEF Inv
<1> DEFINE i == up.i
<1>1. items \in [1 .. count -> Item] /\ count \in Nat /\ failed \in Nat /\ up \in Upload
  BY DEF TypeOK
<1>2. /\ i \in 1 .. count /\ Wanted(i, up.sidecar) /\ items[i].state = "receiving"
      /\ Sound(items[i], inbox) /\ items[i] \in Item /\ up.sidecar \in BOOLEAN
  BY <1>1 DEF ThreadsInv, ItemsInv, Upload
<1>3. /\ UNCHANGED <<qid, count, imported, importing, transferred, syncing, cancelled,
                     report, ui, dialog, stop, worker, wi, job>>
      /\ redraw' = TRUE /\ srv' = "idle" /\ up' = NoUpload
      /\ items' = [items EXCEPT ![i] =
                     IF error = 0 THEN Accepted(items[i], up.sidecar)
                                  ELSE [items[i] EXCEPT !.error = error, !.state = "failed"]]
  BY DEF vcm_queue_received, screen, importer
<1>4. \A j \in 1 .. count : j # i => items'[j] = items[j]
  BY <1>1, <1>3
<1>5. /\ items'[i] \in Item /\ items'[i].file = items[i].file
      /\ items'[i].subtitle = items[i].subtitle
      /\ items'[i].state \in {"received", "receiving", "failed"}
  <2>1. CASE error = 0
    <3>1. items'[i] = Accepted(items[i], up.sidecar)
      BY <1>1, <1>2, <1>3, <2>1
    <3>2. CASE up.sidecar
      BY <1>2, <3>1, <3>2, ZenonT(60) DEF Accepted, Item, States
    <3>3. CASE ~up.sidecar
      BY <1>2, <3>1, <3>3 DEF Accepted, Item, States
    <3> QED
      BY <3>2, <3>3
  <2>2. CASE error = -1
    <3>0. error # 0
      BY <2>2
    <3>1. items'[i] = [items[i] EXCEPT !.error = error, !.state = "failed"]
      BY <1>1, <1>2, <1>3, <3>0, Zenon
    <3> QED
      BY <1>2, <3>1 DEF Item, States
  <2> QED
    BY <2>1, <2>2
<1>6. ~Working /\ worker # "import"
  BY DEF SyncingCoversTheWorker, Working
<1>7. TypeOK'
  <2>1. items' \in [1 .. count' -> Item]
    BY <1>1, <1>3, <1>5
  <2>2. up' \in Upload /\ up'.i \in 0 .. count'
    BY <1>1, <1>3 DEF NoUpload, Upload
  <2>3. srv' \in {"idle", "opening", "check", "recv", "finish", "status"} /\ redraw' \in BOOLEAN
    BY <1>3
  <2>4. failed' \in Nat
    BY <1>1 DEF vcm_queue_received
  <2> QED
    BY <1>3, <2>1, <2>2, <2>3, <2>4, ZenonT(60) DEF TypeOK
<1>8. ThreadsInv'
  BY <1>3, <1>6 DEF ThreadsInv, Uploading, Working
<1>9. SyncingCoversTheWorker'
  BY <1>3, <1>6 DEF SyncingCoversTheWorker, Working, Uploading
<1>10. ImportOwnsItsSlot'
  BY <1>3, <1>4, <1>5, <1>6 DEF ImportOwnsItsSlot
<1>11. ItemsInv'
  <2>1. \A j \in 1 .. count : items'[j].file = items[j].file
    BY <1>4, <1>5
  <2>2. \A j, k \in 1 .. count' : items'[j].file = items'[k].file => j = k
    BY <1>3, <2>1 DEF ItemsInv
  <2>3. Sound(items'[i], inbox')
    <3>0. ~Complete(items[i]) /\ ~Handed(items[i])
      BY <1>2 DEF Sound, Handed
    <3>1. CASE error = -1
      <4>1. /\ items'[i].state = "failed" /\ items'[i].media_ready = items[i].media_ready
            /\ items'[i].subtitle_ready = items[i].subtitle_ready
        BY <1>1, <1>2, <1>3, <3>1 DEF Item
      <4>2. ~Complete(items'[i])
        BY <1>5, <3>0, <4>1 DEF Complete
      <4> QED
        BY <1>2, <1>5, <3>0, <4>1, <4>2 DEF Sound
    <3>2. CASE error = 0 /\ up.sidecar
      <4>1. items'[i] = Accepted(items[i], TRUE) /\ <<items[i].file, TRUE>> \in inbox'
        BY <1>1, <1>2, <1>3, <3>2 DEF Stored
      <4>2. /\ items'[i].media_ready = items[i].media_ready /\ items'[i].subtitle_ready
            /\ items'[i].state = IF Complete(items'[i]) THEN "received" ELSE "receiving"
        BY <1>2, <4>1 DEF Accepted, Item, Complete
      <4>3. items'[i].subtitle # 0
        BY <1>2, <1>5, <3>2 DEF Wanted
      <4> QED
        BY <1>2, <1>5, <3>0, <4>1, <4>2, <4>3 DEF Sound, Handed
    <3>3. CASE error = 0 /\ ~up.sidecar
      <4>1. items'[i] = Accepted(items[i], FALSE) /\ <<items[i].file, FALSE>> \in inbox'
        BY <1>1, <1>2, <1>3, <3>3 DEF Stored
      <4>2. /\ items'[i].subtitle_ready = items[i].subtitle_ready /\ items'[i].media_ready
            /\ items'[i].state = IF Complete(items'[i]) THEN "received" ELSE "receiving"
        BY <1>2, <4>1 DEF Accepted, Item, Complete
      <4> QED
        BY <1>2, <1>5, <3>0, <4>1, <4>2 DEF Sound, Handed
    <3> QED
      BY <3>1, <3>2, <3>3
  <2>4. \A j \in 1 .. count : Sound(items[j], inbox) => Sound(items[j], inbox')
    BY DEF Sound
  <2>5. \A j \in 1 .. count' : Sound(items'[j], inbox')
    BY <1>3, <1>4, <2>3, <2>4 DEF ItemsInv
  <2> QED
    BY <2>2, <2>5 DEF ItemsInv
<1>12. CountersMatchItems'
  <2>1. InState("imported")' = InState("imported")
    BY <1>2, <1>3, <1>4, <1>5 DEF InState
  <2>2. IsFiniteSet(InState("failed")) /\ Cardinality(InState("failed")) \in Nat
    BY <1>1, InStateFinite
  <2>3. failed' >= Cardinality(InState("failed")')
    <3>1. CASE error = 0
      <4>1. items'[i].state # "failed"
        <5>1. items'[i] = Accepted(items[i], up.sidecar)
          BY <1>1, <1>2, <1>3, <3>1
        <5>2. CASE up.sidecar
          BY <1>2, <5>1, <5>2 DEF Accepted, Item
        <5>3. CASE ~up.sidecar
          BY <1>2, <5>1, <5>3 DEF Accepted, Item
        <5> QED
          BY <5>2, <5>3
      <4>2. InState("failed")' = InState("failed")
        BY <1>2, <1>3, <1>4, <4>1 DEF InState
      <4>3. failed' = failed
        BY <3>1 DEF vcm_queue_received
      <4> QED
        BY <4>2, <4>3 DEF CountersMatchItems
    <3>2. CASE error = -1
      <4>1. items'[i].state = "failed"
        BY <1>1, <1>2, <1>3, <3>2 DEF Item
      <4>2. InState("failed")' = InState("failed") \cup {i} /\ i \notin InState("failed")
        BY <1>2, <1>3, <1>4, <4>1 DEF InState
      <4>3. Cardinality(InState("failed")') = Cardinality(InState("failed")) + 1
        BY <2>2, <4>2, OneMore
      <4>4. failed' = failed + 1
        BY <1>2, <3>2 DEF vcm_queue_received
      <4>5. failed >= Cardinality(InState("failed"))
        BY DEF CountersMatchItems
      <4> QED
        BY <1>1, <2>2, <4>3, <4>4, <4>5
    <3> QED
      BY <3>1, <3>2
  <2>4. imported' = Cardinality(InState("imported")')
    BY <1>3, <2>1 DEF CountersMatchItems
  <2> QED
    BY <2>3, <2>4 DEF CountersMatchItems
<1> QED
  BY <1>7, <1>8, <1>9, <1>10, <1>11, <1>12

(* The steps of receive_file.                                              *)
LEMMA ReceiveInv ==
  ASSUME Inv, Receive
  PROVE  Inv'
<1> USE DEF Inv
<1>1. CASE UploadRefused \/ UploadFailed
  <2>1. Uploading /\ vcm_queue_received(-1) /\ inbox' = inbox
    BY <1>1 DEF UploadRefused, UploadFailed, Uploading
  <2>2. inbox \subseteq Files \X BOOLEAN
    BY DEF TypeOK
  <2> QED
    BY <2>1, <2>2, ReceivedInv
<1>2. CASE \E error \in {0, -1} : UploadPublished(error)
  <2>1. PICK error \in {0, -1} : UploadPublished(error)
    BY <1>2
  <2>2. /\ Uploading /\ vcm_queue_received(error) /\ inbox' = inbox \cup {Stored(up)}
    BY <2>1 DEF UploadPublished, Uploading
  <2>3. items[up.i] \in Item /\ up \in Upload /\ inbox \subseteq Files \X BOOLEAN
    BY <2>2 DEF TypeOK, ThreadsInv
  <2>4. Stored(up) \in Files \X BOOLEAN
    BY <2>3 DEF Stored, Item, Upload
  <2>5. inbox \subseteq inbox' /\ inbox' \subseteq Files \X BOOLEAN /\ Stored(up) \in inbox'
    BY <2>2, <2>3, <2>4
  <2> QED
    BY <2>2, <2>5, ReceivedInv
<1>3. CASE UploadOpened \/ LoopCheck \/ ConnectionLost
  BY <1>3, ServerLocalInv
<1>4. CASE /\ srv = "recv"
           /\ \E size \in 1 .. Expected(up) - up.got, written \in BOOLEAN : Chunk(size, written)
  BY <1>4, ChunkInv
<1> QED
  BY <1>1, <1>2, <1>3, <1>4 DEF Receive

(* Steps of the worker that leave the item table alone.                    *)
LEMMA WorkerLocalInv ==
  ASSUME Inv, WorkerEnds \/ WorkerSkips \/ WorkerFinishes
  PROVE  Inv'
<1> USE DEF Inv
<1>1. /\ UNCHANGED <<qid, count, items, imported, failed, transferred, inbox, cancelled,
                     srv, up, report, ui, dialog, stop, job>>
      /\ worker # "import" /\ worker # "none"
      /\ \/ /\ worker = "next" /\ worker' = "ending" /\ wi' = 0
            /\ syncing' = FALSE /\ importing' = 0 /\ redraw' = TRUE
         \/ /\ worker = "next" /\ worker' = "next" /\ wi <= count /\ wi' = wi + 1
            /\ UNCHANGED <<syncing, importing, redraw>>
         \/ /\ worker = "ending" /\ worker' = "finished" /\ UNCHANGED wi
            /\ UNCHANGED <<syncing, importing, redraw>>
  BY DEF WorkerEnds, WorkerSkips, WorkerFinishes, info, server, screen, importer
<1>2. count \in Nat /\ wi \in 0 .. count + 1
  BY DEF TypeOK
<1>3. TypeOK'
  <2>1. syncing' \in BOOLEAN /\ redraw' \in BOOLEAN
    BY <1>1, Zenon DEF TypeOK
  <2>2. wi' \in 0 .. count' + 1 /\ importing' \in 0 .. count'
    BY <1>1, <1>2 DEF TypeOK
  <2>3. worker' \in {"none", "next", "import", "ending", "finished"}
    BY <1>1
  <2> QED
    BY <1>1, <2>1, <2>2, <2>3, ZenonT(60) DEF TypeOK
<1>4. ThreadsInv'
  <2>1. /\ Uploading' <=> Uploading
        /\ Wanted(up.i, up.sidecar)' <=> Wanted(up.i, up.sidecar)
        /\ Expected(up)' = Expected(up)
    BY <1>1 DEF Uploading, Wanted, Expected
  <2>2. /\ ~Working' => wi' = 0
        /\ Working' => wi' # 0
        /\ worker' # "import" => job' = NoFile
    BY <1>1, <1>2 DEF ThreadsInv, Working
  <2> QED
    BY <1>1, <2>1, <2>2 DEF ThreadsInv
<1>5. SyncingCoversTheWorker'
  BY <1>1 DEF SyncingCoversTheWorker, Uploading, Working
<1>6. ImportOwnsItsSlot'
  BY <1>1 DEF ImportOwnsItsSlot
<1> QED
  BY <1>1, <1>3, <1>4, <1>5, <1>6, FrameItems

(* The worker takes a received item and marks it as importing.             *)
LEMMA WorkerTakesInv ==
  ASSUME Inv, WorkerTakes
  PROVE  Inv'
<1> USE DEF Inv
<1>1. /\ UNCHANGED <<qid, count, imported, failed, syncing, cancelled, transferred,
                     inbox, srv, up, report, ui, dialog, stop, wi>>
      /\ worker = "next" /\ wi <= count /\ items[wi].state = "received"
      /\ items' = [items EXCEPT ![wi].state = "importing"]
      /\ importing' = wi /\ redraw' = TRUE /\ worker' = "import" /\ job' = items[wi].file
  BY DEF WorkerTakes, server, screen
<1>2. items \in [1 .. count -> Item] /\ count \in Nat /\ wi \in 1 .. count
  BY <1>1 DEF TypeOK, ThreadsInv, Working
<1>3. ~Uploading /\ syncing
  BY <1>1 DEF SyncingCoversTheWorker, Working
<1>4. /\ \A j \in 1 .. count : j # wi => items'[j] = items[j]
      /\ items'[wi] \in Item /\ items'[wi].state = "importing"
      /\ items'[wi].file = items[wi].file /\ items'[wi].subtitle = items[wi].subtitle
      /\ items'[wi].media_ready = items[wi].media_ready
      /\ items'[wi].subtitle_ready = items[wi].subtitle_ready
  BY <1>1, <1>2 DEF Item, States
<1>5. TypeOK'
  <2>1. items' \in [1 .. count' -> Item]
    BY <1>1, <1>2, <1>4
  <2>2. importing' \in 0 .. count' /\ job' \in Files \cup {NoFile}
    BY <1>1, <1>2 DEF Item
  <2>3. worker' \in {"none", "next", "import", "ending", "finished"} /\ redraw' \in BOOLEAN
    BY <1>1
  <2> QED
    BY <1>1, <2>1, <2>2, <2>3, ZenonT(60) DEF TypeOK
<1>6. ThreadsInv'
  BY <1>1, <1>2, <1>3 DEF ThreadsInv, Uploading, Working
<1>7. SyncingCoversTheWorker'
  BY <1>1, <1>3 DEF SyncingCoversTheWorker, Uploading, Working
<1>8. ImportOwnsItsSlot'
  BY <1>1, <1>2, <1>4 DEF ImportOwnsItsSlot
<1>9. ItemsInv'
  <2>1. Complete(items'[wi]) <=> Complete(items[wi])
    BY <1>4 DEF Complete
  <2>2. Sound(items[wi], inbox)
    BY <1>2 DEF ItemsInv
  <2>3. Sound(items'[wi], inbox)
    BY <1>1, <1>4, <2>1, <2>2 DEF Sound, Handed
  <2>4. \A j \in 1 .. count : items'[j].file = items[j].file
    BY <1>4
  <2>5. \A j, k \in 1 .. count' : items'[j].file = items'[k].file => j = k
    BY <1>1, <2>4 DEF ItemsInv
  <2>6. \A j \in 1 .. count' : Sound(items'[j], inbox')
    BY <1>1, <1>4, <2>3 DEF ItemsInv
  <2> QED
    BY <2>5, <2>6 DEF ItemsInv
<1>10. CountersMatchItems'
  <2>1. InState("imported")' = InState("imported") /\ InState("failed")' = InState("failed")
    BY <1>1, <1>2, <1>4 DEF InState
  <2> QED
    BY <1>1, <2>1 DEF CountersMatchItems
<1> QED
  BY <1>5, <1>6, <1>7, <1>8, <1>9, <1>10

(* The worker's second critical section: it writes the outcome to the slot *)
(* it took the item from, which still holds that item, and what the import *)
(* consumed belongs to no other item.                                      *)
LEMMA WorkerReturnsInv ==
  ASSUME Inv, NEW status \in {0, -1},
         NEW consumed \in SUBSET {<<job, FALSE>>, <<job, TRUE>>},
         WorkerReturns(status, consumed)
  PROVE  Inv'
<1> USE DEF Inv
<1>1. /\ UNCHANGED <<qid, count, importing, syncing, cancelled, transferred,
                     srv, up, report, ui, dialog, stop>>
      /\ worker = "import" /\ inbox' = inbox \ consumed
      /\ items' = [items EXCEPT ![wi].error = status,
                                ![wi].state = IF status = 0 THEN "imported" ELSE "failed"]
      /\ imported' = IF status = 0 THEN imported + 1 ELSE imported
      /\ failed' = IF status = 0 THEN failed ELSE failed + 1
      /\ redraw' = TRUE /\ worker' = "next" /\ wi' = wi + 1 /\ job' = NoFile
  BY DEF WorkerReturns, server, screen
<1>2. /\ items \in [1 .. count -> Item] /\ count \in Nat /\ imported \in Nat /\ failed \in Nat
      /\ wi \in 1 .. count /\ items[wi].file = job /\ items[wi].state = "importing"
  BY <1>1 DEF TypeOK, ImportOwnsItsSlot
<1>3. ~Uploading /\ syncing /\ ui \notin {"start", "abandon"}
  BY <1>1 DEF SyncingCoversTheWorker, Working
<1>4. /\ \A j \in 1 .. count : j # wi => items'[j] = items[j]
      /\ items'[wi] \in Item
      /\ items'[wi].state = IF status = 0 THEN "imported" ELSE "failed"
      /\ items'[wi].file = items[wi].file /\ items'[wi].subtitle = items[wi].subtitle
      /\ items'[wi].media_ready = items[wi].media_ready
      /\ items'[wi].subtitle_ready = items[wi].subtitle_ready
  <2> DEFINE final == IF status = 0 THEN "imported" ELSE "failed"
             marked == [items EXCEPT ![wi].error = status]
  <2>1. items[wi] \in Item /\ final \in States
    BY <1>2 DEF States
  <2>2. /\ marked \in [1 .. count -> Item] /\ marked[wi] = [items[wi] EXCEPT !.error = status]
        /\ \A j \in 1 .. count : j # wi => marked[j] = items[j]
    <3>1. [items[wi] EXCEPT !.error = status] \in Item
      BY <2>1, Zenon DEF Item
    <3> QED
      BY <1>2, <2>1, <3>1
  <2>3. /\ marked[wi].file = items[wi].file /\ marked[wi].subtitle = items[wi].subtitle
        /\ marked[wi].media_ready = items[wi].media_ready
        /\ marked[wi].subtitle_ready = items[wi].subtitle_ready
    BY <2>1, <2>2 DEF Item
  <2>4. items' = [marked EXCEPT ![wi].state = final]
    BY <1>1, Zenon
  <2> HIDE DEF final, marked
  <2>5. /\ items'[wi] = [marked[wi] EXCEPT !.state = final] /\ marked[wi] \in Item
        /\ \A j \in 1 .. count : j # wi => items'[j] = items[j]
    BY <1>2, <2>2, <2>4
  <2>6. items'[wi] \in Item
    BY <2>1, <2>5, Zenon DEF Item
  <2>7. /\ items'[wi].state = final
        /\ items'[wi].file = items[wi].file /\ items'[wi].subtitle = items[wi].subtitle
        /\ items'[wi].media_ready = items[wi].media_ready
        /\ items'[wi].subtitle_ready = items[wi].subtitle_ready
    BY <2>3, <2>5 DEF Item
  <2> QED
    BY <2>5, <2>6, <2>7 DEF final
<1>5. TypeOK'
  <2>1. items' \in [1 .. count' -> Item]
    BY <1>1, <1>2, <1>4
  <2>2. wi' \in 0 .. count' + 1 /\ imported' \in Nat /\ failed' \in Nat
    BY <1>1, <1>2
  <2>3. worker' \in {"none", "next", "import", "ending", "finished"} /\ redraw' \in BOOLEAN
    BY <1>1
  <2>4. inbox' \subseteq Files \X BOOLEAN /\ job' \in Files \cup {NoFile}
    BY <1>1 DEF TypeOK
  <2> QED
    BY <1>1, <2>1, <2>2, <2>3, <2>4, ZenonT(60) DEF TypeOK
<1>6. ThreadsInv'
  BY <1>1, <1>2, <1>3 DEF ThreadsInv, Uploading, Working
<1>7. SyncingCoversTheWorker'
  BY <1>1, <1>3 DEF SyncingCoversTheWorker, Uploading, Working
<1>8. ImportOwnsItsSlot'
  BY <1>1, <1>2, <1>4 DEF ImportOwnsItsSlot
<1>9. ItemsInv'
  <2>1. Complete(items[wi]) /\ Sound(items[wi], inbox)
    BY <1>2 DEF ItemsInv, Sound
  <2>2. Complete(items'[wi])
    BY <1>4, <2>1 DEF Complete
  <2>3. Handed(items'[wi])
    BY <1>4, <2>2 DEF Handed
  <2>4. Sound(items'[wi], inbox')
    BY <1>4, <2>1, <2>2, <2>3 DEF Sound
  <2>5. ASSUME NEW j \in 1 .. count, j # wi
        PROVE  Sound(items[j], inbox')
    <3>1. items[j].file # job /\ Sound(items[j], inbox)
      BY <1>2, <2>5 DEF ItemsInv
    <3>2. \A part \in BOOLEAN : <<items[j].file, part>> \in inbox => <<items[j].file, part>> \in inbox'
      BY <1>1, <3>1
    <3> QED
      BY <3>1, <3>2 DEF Sound
  <2>6. \A j \in 1 .. count : items'[j].file = items[j].file
    BY <1>4
  <2>7. \A j, k \in 1 .. count' : items'[j].file = items'[k].file => j = k
    BY <1>1, <2>6 DEF ItemsInv
  <2>8. \A j \in 1 .. count' : Sound(items'[j], inbox')
    BY <1>1, <1>4, <2>4, <2>5
  <2> QED
    BY <2>7, <2>8 DEF ItemsInv
<1>10. CountersMatchItems'
  <2>1. /\ IsFiniteSet(InState("failed")) /\ Cardinality(InState("failed")) \in Nat
        /\ IsFiniteSet(InState("imported")) /\ Cardinality(InState("imported")) \in Nat
    BY <1>2, InStateFinite
  <2>2. imported = Cardinality(InState("imported")) /\ failed >= Cardinality(InState("failed"))
    BY DEF CountersMatchItems
  <2>3. CASE status = 0
    <3>1. /\ InState("imported")' = InState("imported") \cup {wi} /\ wi \notin InState("imported")
          /\ InState("failed")' = InState("failed")
      BY <1>1, <1>2, <1>4, <2>3 DEF InState
    <3>2. Cardinality(InState("imported")') = Cardinality(InState("imported")) + 1
      BY <2>1, <3>1, OneMore
    <3>3. imported' = Cardinality(InState("imported")') /\ failed' >= Cardinality(InState("failed")')
      BY <1>1, <2>2, <2>3, <3>1, <3>2
    <3> QED
      BY <3>3 DEF CountersMatchItems
  <2>4. CASE status # 0
    <3>1. /\ InState("failed")' = InState("failed") \cup {wi} /\ wi \notin InState("failed")
          /\ InState("imported")' = InState("imported")
      BY <1>1, <1>2, <1>4, <2>4 DEF InState
    <3>2. Cardinality(InState("failed")') = Cardinality(InState("failed")) + 1
      BY <2>1, <3>1, OneMore
    <3>3. imported' = Cardinality(InState("imported")')
      BY <1>1, <2>2, <2>4, <3>1
    <3>4. failed' >= Cardinality(InState("failed")')
      BY <1>1, <1>2, <2>1, <2>2, <2>4, <3>2
    <3> QED
      BY <3>3, <3>4 DEF CountersMatchItems
  <2> QED
    BY <2>3, <2>4
<1> QED
  BY <1>5, <1>6, <1>7, <1>8, <1>9, <1>10

-----------------------------------------------------------------------------
(* Theorems.                                                               *)

(* The zero-initialised queue and the threads before their first step       *)
(* satisfy the invariant.                                                   *)
LEMMA InitInv == Init => Inv
<1> SUFFICES ASSUME Init PROVE Inv
  OBVIOUS
<1>1. TypeOK
  <2>1. items \in [1 .. count -> Item] /\ wi \in 0 .. count + 1 /\ importing \in 0 .. count
    BY DEF Init
  <2>2. up \in Upload /\ up.i \in 0 .. count /\ report \in Report
    BY DEF Init, NoUpload, NoReport, Upload, Report
  <2>3. /\ qid \in QueueIds \cup {NoQueue} /\ count \in Nat /\ imported \in Nat /\ failed \in Nat
        /\ transferred \in Int /\ inbox \subseteq Files \X BOOLEAN /\ job \in Files \cup {NoFile}
        /\ srv \in {"idle", "opening", "check", "recv", "finish", "status"}
        /\ ui \in {"poll", "start", "abandon", "exit"}
        /\ worker \in {"none", "next", "import", "ending", "finished"}
    BY DEF Init
  <2>4. /\ syncing \in BOOLEAN /\ cancelled \in BOOLEAN /\ redraw \in BOOLEAN
        /\ dialog \in BOOLEAN /\ stop \in BOOLEAN
    BY DEF Init
  <2> QED
    BY <2>1, <2>2, <2>3, <2>4, Zenon DEF TypeOK
<1>2. ThreadsInv
  BY DEF Init, ThreadsInv, Uploading, Working
<1>3. SyncingCoversTheWorker
  BY DEF Init, SyncingCoversTheWorker, Uploading, Working
<1>4. ImportOwnsItsSlot
  BY DEF Init, ImportOwnsItsSlot
<1>5. ItemsInv
  BY DEF Init, ItemsInv
<1>6. CountersMatchItems
  <2>1. InState("imported") = {} /\ InState("failed") = {}
    BY DEF Init, InState
  <2>2. Cardinality({}) = 0
    BY FS_EmptySet
  <2>3. imported = 0 /\ failed = 0
    BY DEF Init
  <2>4. Cardinality(InState("imported")) = 0 /\ Cardinality(InState("failed")) = 0
    BY <2>1, <2>2
  <2> QED
    BY <2>3, <2>4 DEF CountersMatchItems
<1> QED
  BY <1>1, <1>2, <1>3, <1>4, <1>5, <1>6 DEF Inv

(* Every step of every thread preserves the invariant.                     *)
LEMMA NextInv == Inv /\ [Next]_vars => Inv'
<1> SUFFICES ASSUME Inv, [Next]_vars PROVE Inv'
  OBVIOUS
<1>1. CASE UNCHANGED vars
  <2>1. UNCHANGED <<qid, count, items, imported, failed, importing, transferred, inbox, redraw,
                    syncing, cancelled, srv, up, report, ui, dialog, stop, worker, wi, job>>
    BY <1>1 DEF vars, info, server, screen, importer
  <2>2. TypeOK'
    <3>1. TypeOK
      BY DEF Inv
    <3>2. /\ items' \in [1 .. count' -> Item] /\ importing' \in 0 .. count'
          /\ up'.i \in 0 .. count' /\ wi' \in 0 .. count' + 1
      BY <2>1, <3>1 DEF TypeOK
    <3>3. /\ syncing' \in BOOLEAN /\ cancelled' \in BOOLEAN /\ redraw' \in BOOLEAN
          /\ dialog' \in BOOLEAN /\ stop' \in BOOLEAN
      BY <2>1, <3>1, Zenon DEF TypeOK
    <3>4. /\ qid' \in QueueIds \cup {NoQueue} /\ count' \in Nat /\ imported' \in Nat
          /\ failed' \in Nat /\ transferred' \in Int /\ inbox' \subseteq Files \X BOOLEAN
          /\ srv' \in {"idle", "opening", "check", "recv", "finish", "status"}
          /\ up' \in Upload /\ report' \in Report
          /\ ui' \in {"poll", "start", "abandon", "exit"}
          /\ worker' \in {"none", "next", "import", "ending", "finished"}
          /\ job' \in Files \cup {NoFile}
      BY <2>1, <3>1 DEF TypeOK
    <3> QED
      BY <3>2, <3>3, <3>4, Zenon DEF TypeOK
  <2>3. ThreadsInv'
    BY <2>1 DEF Inv, ThreadsInv, Uploading, Working, Wanted, Expected
  <2>4. SyncingCoversTheWorker' /\ ImportOwnsItsSlot'
    BY <2>1 DEF Inv, SyncingCoversTheWorker, ImportOwnsItsSlot, Uploading, Working
  <2> QED
    BY <2>1, <2>2, <2>3, <2>4, FrameItems DEF Inv
<1>2. CASE Request
  BY <1>2, PublishInv, RequestInv, FindInv, ServerLocalInv DEF Request
<1>3. CASE Receive
  BY <1>3, ReceiveInv
<1>4. CASE Status
  BY <1>4, ServerLocalInv
<1>5. CASE Work
  BY <1>5, WorkerLocalInv, WorkerTakesInv, WorkerReturnsInv DEF Work
<1>6. CASE \/ \E opens \in BOOLEAN : PollImport(opens)
           \/ StartWorker \/ StartFails \/ Abandon \/ queue_on_dialog_action \/ Exit
  BY <1>6, ScreenInv
<1> QED
  BY <1>1, <1>2, <1>3, <1>4, <1>5, <1>6 DEF Next, Terminated

(* The strengthening is an invariant of the specification.                 *)
THEOREM Invariance == Spec => []Inv
  BY InitInv, NextInv, PTL DEF Spec

(* Every variable keeps its type, and every index a thread carries from one *)
(* critical section to the next stays inside the current item table.        *)
THEOREM TypeCorrect == Spec => []TypeOK
  BY Invariance, PTL DEF Inv

(* The slot the import worker writes to after it dropped the mutex still    *)
(* holds the item it copied, and no other item is marked as importing.      *)
THEOREM WorkerSlot == Spec => []ImportOwnsItsSlot
  BY Invariance, PTL DEF Inv

(* queue.syncing is set from PollImport's decision until the worker's loop  *)
(* ends, and excludes uploads.                                              *)
THEOREM SyncingLock == Spec => []SyncingCoversTheWorker
  BY Invariance, PTL DEF Inv

(* queue.imported counts the imported items, and queue.failed counts every  *)
(* failed item at least once, for queues of any length.                     *)
THEOREM Counters == Spec => []CountersMatchItems
  BY Invariance, PTL DEF Inv

(* An item that is received or being imported has all its files in the      *)
(* inbox.                                                                   *)
THEOREM FilesPresent == Spec => []ImportHasItsFiles
<1>1. Inv => ImportHasItsFiles
  <2> SUFFICES ASSUME Inv, NEW i \in 1 .. count, items[i].state \in {"received", "importing"}
               PROVE  /\ <<items[i].file, FALSE>> \in inbox
                      /\ items[i].subtitle # 0 => <<items[i].file, TRUE>> \in inbox
    BY DEF ImportHasItsFiles
  <2>1. Sound(items[i], inbox)
    BY DEF Inv, ItemsInv
  <2>2. Complete(items[i]) /\ ~Handed(items[i])
    BY <2>1 DEF Sound, Handed
  <2>3. items[i].media_ready => <<items[i].file, FALSE>> \in inbox
    BY <2>1, <2>2 DEF Sound
  <2>4. items[i].subtitle_ready => <<items[i].file, TRUE>> \in inbox
    BY <2>1, <2>2 DEF Sound
  <2> QED
    BY <2>2, <2>3, <2>4, Zenon DEF Complete
<1> QED
  BY <1>1, Invariance, PTL
-----------------------------------------------------------------------------
(* The refinement of TransferContract.                                     *)

(* The worker has passed every item before its index: none is left that    *)
(* was received.  This is what makes the contract's order and its Close    *)
(* true of the loop.                                                       *)
Passed == Working => \A j \in 1 .. wi - 1 : j \in 1 .. count => items[j].state # "received"

(* Begun and ended uploads do not run while the worker does.               *)
LEMMA PassedStep == Inv /\ Passed /\ [Next]_vars => Passed'
<1> SUFFICES ASSUME Inv, Passed, [Next]_vars, Working'
             PROVE  \A j \in 1 .. wi' - 1 : j \in 1 .. count' => items'[j].state # "received"
  BY DEF Passed
<1> USE DEF info, server, screen, importer, Working
<1>0. /\ count \in Nat /\ items \in [1 .. count -> Item] /\ wi \in 0 .. count + 1
      /\ Working => syncing
  BY DEF Inv, TypeOK, SyncingCoversTheWorker
<1>1. CASE UNCHANGED <<count, items, wi, worker>>
  BY <1>1 DEF Passed
<1>2. CASE StartWorker
  BY <1>2 DEF StartWorker
<1>3. CASE \E opens \in BOOLEAN : PollImport(opens)
  <2>1. worker' = Joined /\ UNCHANGED <<count, items, wi>>
    BY <1>3 DEF PollImport
  <2> QED
    BY <2>1 DEF Passed, Joined
<1>4. CASE WorkerEnds \/ WorkerFinishes
  BY <1>4 DEF WorkerEnds, WorkerFinishes
<1>5. CASE WorkerSkips
  BY <1>0, <1>5 DEF WorkerSkips, Passed
<1>6. CASE WorkerTakes
  <2>1. /\ worker = "next" /\ wi \in 1 .. count /\ UNCHANGED <<count, wi>>
        /\ items' = [items EXCEPT ![wi].state = "importing"]
    BY <1>0, <1>6 DEF WorkerTakes, Inv, ThreadsInv
  <2> QED
    BY <1>0, <2>1 DEF Passed
<1>7. CASE \E status \in {0, -1}, consumed \in SUBSET {<<job, FALSE>>, <<job, TRUE>>} :
             WorkerReturns(status, consumed)
  <2>1. PICK status \in {0, -1} :
          /\ worker = "import" /\ UNCHANGED count /\ wi' = wi + 1
          /\ items' = [items EXCEPT ![wi].error = status,
                                    ![wi].state = IF status = 0 THEN "imported" ELSE "failed"]
    BY <1>7 DEF WorkerReturns
  <2>2. wi \in 1 .. count
    BY <2>1 DEF Inv, ImportOwnsItsSlot
  <2>3. \A j \in 1 .. count : j # wi => items'[j] = items[j]
    BY <1>0, <2>1, <2>2
  <2>4. items'[wi].state # "received"
    BY <1>0, <2>1, <2>2 DEF Item
  <2> QED
    BY <1>0, <2>1, <2>2, <2>3, <2>4 DEF Passed
<1>8. CASE Request \/ Receive
  <2>1. UNCHANGED <<wi, worker>>
    <3>1. CASE Request
      BY <3>1 DEF Request, vcm_queue_publish, vcm_queue_sync, CancelRequest, vcm_queue_find,
                  StatusRequest
    <3>2. CASE Receive
      BY <3>2 DEF Receive, UploadRefused, UploadOpened, LoopCheck, ConnectionLost, UploadFailed,
                  UploadPublished, Chunk, vcm_queue_received
    <3> QED
      BY <1>8, <3>1, <3>2
  <2>2. syncing
    BY <1>0, <2>1
  <2>3. ~Uploading
    BY <2>2 DEF Inv, SyncingCoversTheWorker
  <2>4. UNCHANGED <<count, items>>
    <3>1. CASE Request
      BY <2>2, <3>1 DEF Request, vcm_queue_publish, Replaceable, vcm_queue_sync, CancelRequest,
                        vcm_queue_cancel, vcm_queue_find, StatusRequest
    <3>2. CASE Receive
      BY <2>3, <3>2 DEF Receive, UploadRefused, UploadOpened, LoopCheck, ConnectionLost,
                        UploadFailed, UploadPublished, Uploading
    <3> QED
      BY <1>8, <3>1, <3>2
  <2> QED
    BY <1>1, <2>1, <2>4
<1>9. CASE Status \/ StartFails \/ Abandon \/ queue_on_dialog_action \/ Exit \/ Terminated
           \/ UNCHANGED vars
  BY <1>1, <1>9 DEF Status, StatusItem, StatusSent, StartFails, Abandon, queue_on_dialog_action,
                    vcm_queue_cancel, Exit, Terminated, vars
<1> QED
  BY <1>2, <1>3, <1>4, <1>5, <1>6, <1>7, <1>8, <1>9 DEF Next, Work

(* A step that keeps every item's outcome and the two flags is a stutter    *)
(* of the contract.                                                         *)
LEMMA Stutters ==
  ASSUME UNCHANGED <<count, syncing, cancelled>>,
         \A i \in 1 .. count : Outcome(items'[i]) = Outcome(items[i])
  PROVE  UNCHANGED Contract!vars
  BY DEF Contract!vars, Entries

(* A step that changes one item changes that entry.                        *)
LEMMA OneEntry ==
  ASSUME UNCHANGED count, NEW i \in 1 .. count, NEW x,
         items \in [1 .. count -> Item], items' = [items EXCEPT ![i] = x]
  PROVE  Entries' = [Entries EXCEPT ![i] = Outcome(x)]
  BY DEF Entries

(* What the outcome of an item that lacks a part can be, and what an upload *)
(* makes of it.                                                             *)
LEMMA Lacking ==
  ASSUME Inv, NEW i \in 1 .. count, NEW sidecar \in BOOLEAN, Wanted(i, sidecar)
  PROVE  ~Complete(items[i]) /\ Outcome(items[i]) \in {"pending", "refused"}
<1>1. Sound(items[i], inbox) /\ items[i] \in Item
  BY DEF Inv, ItemsInv, TypeOK
<1>2. ~Complete(items[i])
  BY <1>1 DEF Wanted, Complete, Item
<1> QED
  BY <1>1, <1>2 DEF Sound, Outcome, Item, States

(* The requests of a client.                                               *)
LEMMA RequestRefines ==
  ASSUME Inv, Request
  PROVE  Contract!Next \/ UNCHANGED Contract!vars
<1> USE DEF info, server, screen, importer
<1>0. count \in Nat /\ items \in [1 .. count -> Item]
  BY DEF Inv, TypeOK
<1>1. ASSUME NEW id \in QueueIds, NEW m \in Manifests, vcm_queue_publish(id, m)
      PROVE  Contract!Next
  <2>1. /\ ~syncing /\ UNCHANGED syncing /\ cancelled' = FALSE /\ count' = Len(m)
        /\ items' = [i \in 1 .. Len(m) |-> FreshItem(m[i])]
    <3>1. syncing \in BOOLEAN
      BY DEF Inv, TypeOK
    <3> QED
      BY <1>1, <3>1 DEF vcm_queue_publish, Replaceable
  <2>2. Entries' = [i \in 1 .. Len(m) |-> "pending"]
    BY <2>1 DEF Entries, Outcome, FreshItem
  <2>3. Contract!Open(Len(m))
    BY <2>1, <2>2 DEF Contract!Open
  <2> QED
    BY <2>3 DEF Contract!Next
<1>2. ASSUME NEW s, vcm_queue_sync(s)
      PROVE  Contract!Next
  <2>1. /\ ~syncing /\ ~cancelled /\ syncing' = TRUE /\ UNCHANGED <<count, items, cancelled>>
        /\ \A i \in 1 .. count : items[i].state \in {"received", "failed"}
    BY <1>2 DEF vcm_queue_sync
  <2>2. \A i \in DOMAIN Entries : Entries[i] \notin {"pending", "importing"}
    BY <2>1 DEF Entries, Outcome
  <2>3. UNCHANGED Entries
    BY <2>1 DEF Entries
  <2>4. Contract!Accept
    BY <2>1, <2>2, <2>3 DEF Contract!Accept
  <2> QED
    BY <2>4 DEF Contract!Next
<1>3. ASSUME NEW s, CancelRequest(s)
      PROVE  Contract!Next
  BY <1>3 DEF CancelRequest, vcm_queue_cancel, Contract!Next, Contract!Halt, Entries
<1>4. ASSUME NEW s, NEW i \in 1 .. count, NEW sidecar \in BOOLEAN, vcm_queue_find(s, i, sidecar)
      PROVE  Contract!Next
  <2>1. /\ ~syncing /\ Wanted(i, sidecar) /\ UNCHANGED <<count, syncing, cancelled>>
        /\ items' = [items EXCEPT ![i].state = "receiving"]
    BY <1>4 DEF vcm_queue_find
  <2>2. Outcome([items[i] EXCEPT !.state = "receiving"]) = "pending"
    BY <1>0 DEF Outcome, Item
  <2>3. Entries' = [Entries EXCEPT ![i] = "pending"]
    BY <1>0, <2>1, <2>2, OneEntry
  <2>4. i \in DOMAIN Entries /\ Entries[i] \in {"pending", "refused"}
    BY <2>1, Lacking DEF Entries
  <2>5. Contract!Upload(i, "pending")
    BY <2>1, <2>3, <2>4 DEF Contract!Upload
  <2> QED
    BY <2>4, <2>5 DEF Contract!Next
<1>5. CASE StatusRequest
  BY <1>5, Stutters DEF StatusRequest
<1> QED
  BY <1>1, <1>2, <1>3, <1>4, <1>5 DEF Request

(* An upload.                                                              *)
LEMMA ReceiveRefines ==
  ASSUME Inv, Receive
  PROVE  Contract!Next \/ UNCHANGED Contract!vars
<1> USE DEF info, server, screen, importer
<1>0. count \in Nat /\ items \in [1 .. count -> Item] /\ up \in Upload
  BY DEF Inv, TypeOK
<1>1. ASSUME NEW error \in {0, -1}, vcm_queue_received(error), Uploading
      PROVE  Contract!Next
  <2>1. /\ up.i \in 1 .. count /\ Wanted(up.i, up.sidecar) /\ up.sidecar \in BOOLEAN
        /\ items[up.i].state = "receiving" /\ ~syncing
    BY <1>0, <1>1 DEF Inv, ThreadsInv, SyncingCoversTheWorker, Upload
  <2> DEFINE new == IF error = 0 THEN Accepted(items[up.i], up.sidecar)
                    ELSE [items[up.i] EXCEPT !.error = error, !.state = "failed"]
  <2>2. UNCHANGED <<count, syncing, cancelled>> /\ items' = [items EXCEPT ![up.i] = new]
    BY <1>1 DEF vcm_queue_received
  <2>3. Outcome(new) \in {"pending", "ready", "refused"}
    <3>1. items[up.i] \in Item
      BY <1>0, <2>1
    <3>2. CASE error = 0
      BY <2>1, <3>1, <3>2 DEF Accepted, Outcome, Item
    <3>3. CASE error = -1
      <4>1. ~Complete(items[up.i])
        BY <2>1, Lacking
      <4>2. ~Complete(new) /\ new.state = "failed"
        BY <3>1, <3>3, <4>1 DEF Complete, Item
      <4> QED
        BY <4>2 DEF Outcome
    <3> QED
      BY <3>2, <3>3
  <2> HIDE DEF new
  <2>4. Entries' = [Entries EXCEPT ![up.i] = Outcome(new)]
    BY <1>0, <2>1, <2>2, OneEntry
  <2>5. up.i \in DOMAIN Entries /\ Entries[up.i] \in {"pending", "refused"}
    BY <2>1, Lacking DEF Entries
  <2>6. Contract!Upload(up.i, Outcome(new))
    BY <2>1, <2>2, <2>4, <2>5 DEF Contract!Upload
  <2> QED
    BY <2>3, <2>5, <2>6 DEF Contract!Next
<1>2. CASE UploadRefused \/ UploadFailed \/ \E error \in {0, -1} : UploadPublished(error)
  BY <1>1, <1>2 DEF UploadRefused, UploadFailed, UploadPublished, Uploading
<1>3. CASE UploadOpened \/ LoopCheck \/ ConnectionLost
  BY <1>3, Stutters DEF UploadOpened, LoopCheck, ConnectionLost
<1>4. ASSUME NEW size, NEW written, Chunk(size, written), srv = "recv"
      PROVE  UNCHANGED Contract!vars
  <2>1. PICK value : /\ UNCHANGED <<count, syncing, cancelled>>
                     /\ items' = [items EXCEPT ![up.i].received = value]
    BY <1>4 DEF Chunk, vcm_queue_progress
  <2>2. up.i \in 1 .. count
    BY <1>4 DEF Inv, ThreadsInv, Uploading
  <2>3. \A i \in 1 .. count : Outcome(items'[i]) = Outcome(items[i])
    BY <1>0, <2>1, <2>2 DEF Outcome, Complete, Item
  <2> QED
    BY <2>1, <2>3, Stutters
<1> QED
  BY <1>2, <1>3, <1>4 DEF Receive

(* The import run.                                                         *)
LEMMA WorkRefines ==
  ASSUME Inv, Passed, Work
  PROVE  Contract!Next \/ UNCHANGED Contract!vars
<1> USE DEF info, server, screen, importer
<1>0. /\ count \in Nat /\ items \in [1 .. count -> Item] /\ wi \in 0 .. count + 1
      /\ Working => syncing /\ wi # 0
  BY DEF Inv, TypeOK, SyncingCoversTheWorker, ThreadsInv
<1>1. CASE WorkerEnds
  <2>1. /\ worker = "next" /\ (wi > count \/ cancelled) /\ syncing /\ syncing' = FALSE
        /\ UNCHANGED <<count, items, cancelled>>
    BY <1>0, <1>1 DEF WorkerEnds, Working
  <2>2. \A i \in 1 .. count : items[i].state # "importing"
    BY <2>1 DEF Inv, ImportOwnsItsSlot
  <2>3. \A i \in 1 .. count : items[i].state = "received" => cancelled
    BY <1>0, <2>1 DEF Passed, Working
  <2>4. \A i \in DOMAIN Entries : Entries[i] # "importing" /\ (Entries[i] = "ready" => cancelled)
    BY <1>0, <2>2, <2>3 DEF Entries, Outcome, Item, States
  <2>5. UNCHANGED Entries
    BY <2>1 DEF Entries
  <2>6. Contract!Close
    BY <2>1, <2>4, <2>5 DEF Contract!Close
  <2> QED
    BY <2>6 DEF Contract!Next
<1>2. CASE WorkerSkips \/ WorkerFinishes
  BY <1>2, Stutters DEF WorkerSkips, WorkerFinishes
<1>3. CASE WorkerTakes
  <2>1. /\ worker = "next" /\ wi \in 1 .. count /\ syncing /\ ~cancelled
        /\ items[wi].state = "received" /\ items' = [items EXCEPT ![wi].state = "importing"]
        /\ UNCHANGED <<count, syncing, cancelled>>
    BY <1>0, <1>3 DEF WorkerTakes, Working
  <2>2. \A i \in 1 .. count : items[i].state # "importing"
    BY <2>1 DEF Inv, ImportOwnsItsSlot
  <2>3. Outcome([items[wi] EXCEPT !.state = "importing"]) = "importing"
    BY <1>0, <2>1 DEF Outcome, Item
  <2>4. Entries' = [Entries EXCEPT ![wi] = "importing"]
    BY <1>0, <2>1, <2>3, OneEntry
  <2>5. /\ wi \in DOMAIN Entries /\ Entries[wi] = "ready"
        /\ \A j \in DOMAIN Entries : Entries[j] # "importing"
    BY <1>0, <2>1, <2>2 DEF Entries, Outcome, Item, States
  <2>6. \A j \in 1 .. wi - 1 : Entries[j] # "ready"
    <3>1. \A j \in 1 .. wi - 1 : j \in 1 .. count /\ items[j].state # "received"
      BY <1>0, <2>1 DEF Passed, Working
    <3> QED
      BY <1>0, <3>1 DEF Entries, Outcome, Item, States
  <2>7. Contract!Begin(wi)
    BY <2>1, <2>4, <2>5, <2>6 DEF Contract!Begin
  <2> QED
    BY <2>5, <2>7 DEF Contract!Next
<1>4. ASSUME NEW status \in {0, -1}, NEW consumed, WorkerReturns(status, consumed)
      PROVE  Contract!Next
  <2> DEFINE to == IF status = 0 THEN "imported" ELSE "failed"
  <2> DEFINE new == [items[wi] EXCEPT !.error = status, !.state = to]
  <2>1. /\ worker = "import" /\ UNCHANGED <<count, syncing, cancelled>> /\ syncing
        /\ items' = [items EXCEPT ![wi].error = status, ![wi].state = to]
    BY <1>0, <1>4 DEF WorkerReturns, Working
  <2>2. wi \in 1 .. count /\ items[wi].state = "importing" /\ items[wi] \in Item
    BY <1>0, <2>1 DEF Inv, ImportOwnsItsSlot
  <2>3. items' = [items EXCEPT ![wi] = new]
    BY <1>0, <2>1, <2>2
  <2>4. Complete(items[wi])
    BY <2>2 DEF Inv, ItemsInv, Sound
  <2>5. Outcome(new) \in {"imported", "rejected"}
    <3>1. Complete(new) /\ new.state = to
      BY <2>2, <2>4 DEF Complete, Item
    <3> QED
      BY <3>1 DEF Outcome
  <2> HIDE DEF new
  <2>6. Entries' = [Entries EXCEPT ![wi] = Outcome(new)]
    BY <1>0, <2>1, <2>2, <2>3, OneEntry
  <2>7. wi \in DOMAIN Entries /\ Entries[wi] = "importing"
    BY <2>2 DEF Entries, Outcome
  <2>8. Contract!End(wi, Outcome(new))
    BY <2>1, <2>6, <2>7 DEF Contract!End
  <2> QED
    BY <2>5, <2>7, <2>8 DEF Contract!Next
<1> QED
  BY <1>1, <1>2, <1>3, <1>4 DEF Work

(* The UI thread, the status report, and the end.                          *)
LEMMA ScreenRefines ==
  ASSUME \/ \E opens \in BOOLEAN : PollImport(opens)
         \/ StartWorker \/ StartFails \/ Abandon \/ queue_on_dialog_action \/ Exit
         \/ Status \/ Terminated \/ UNCHANGED vars
  PROVE  Contract!Next \/ UNCHANGED Contract!vars
<1> USE DEF info, server, screen, importer
<1>1. CASE Abandon \/ queue_on_dialog_action
  BY <1>1 DEF Abandon, queue_on_dialog_action, vcm_queue_cancel, Contract!Next, Contract!Halt,
              Entries
<1>2. CASE ~(Abandon \/ queue_on_dialog_action)
  <2>1. UNCHANGED <<count, items, syncing, cancelled>>
    BY <1>2 DEF PollImport, StartWorker, StartFails, Exit, Status, StatusItem, StatusSent,
                Terminated, vars
  <2> QED
    BY <2>1, Stutters
<1> QED
  BY <1>1, <1>2

(* The transfer queue with its threads, mutex and uploads implements the    *)
(* contract of TransferContract, for queues of any length: a run imports    *)
(* the received items one at a time and in order, nothing is uploaded or    *)
(* replaced during it, and what it imported or rejected is final.           *)
THEOREM Refinement == Spec => ImplementsContract
<1>1. Init => Contract!Init
  BY DEF Init, Contract!Init, Entries
<1>2. Init => Passed
  BY DEF Init, Passed, Working
<1>3. Inv /\ Passed /\ [Next]_vars => [Contract!Next]_Contract!vars
  BY RequestRefines, ReceiveRefines, WorkRefines, ScreenRefines DEF Next
<1> QED
  BY <1>1, <1>2, <1>3, PassedStep, Invariance, PTL DEF Spec, ImplementsContract, Contract!Spec
-----------------------------------------------------------------------------
(* The status report.                                                      *)

(* What the finished report will list as imported if nothing happens        *)
(* meanwhile: the items listed so, and of the others those that are.        *)
Reported == Len(report.listed)
Seen == {i \in 1 .. count : IF i <= Reported THEN report.listed[i] = "imported"
                                             ELSE items[i].state = "imported"}

(* The counters of a report under way never exceed what it will list, and   *)
(* if no sync was running when it began, none is, and nothing has changed.  *)
ReportInv ==
  srv = "status" =>
    /\ Reported <= count /\ report.imported <= Cardinality(Seen)
    /\ ~report.syncing => /\ ~syncing /\ report.imported = Cardinality(Seen)
                          /\ \A i \in 1 .. Reported : report.listed[i] # "importing"

(* The set of items that a report lists is finite.                         *)
LEMMA SeenFinite ==
  ASSUME count \in Nat
  PROVE  IsFiniteSet(Seen) /\ Cardinality(Seen) \in Nat
<1>1. Seen \subseteq 1 .. count /\ IsFiniteSet(1 .. count)
  BY FS_Interval DEF Seen
<1> QED
  BY <1>1, FS_Subset, FS_CardinalityType

(* A report begins with the counters of this moment.                       *)
LEMMA ReportBegins ==
  ASSUME Inv, StatusRequest
  PROVE  ReportInv'
<1>1. /\ UNCHANGED <<count, items, imported, syncing>> /\ count \in Nat /\ imported \in Nat
      /\ report'.imported = imported /\ report'.syncing = syncing /\ report'.listed = <<>>
  BY DEF StatusRequest, info, Inv, TypeOK
<1>2. Reported' = 0
  BY <1>1 DEF Reported
<1>3. Seen' = InState("imported")
  BY <1>1, <1>2 DEF Seen, InState
<1>4. report'.imported = Cardinality(Seen')
  BY <1>1, <1>3 DEF Inv, CountersMatchItems
<1> QED
  BY <1>1, <1>2, <1>4 DEF ReportInv

(* An item is listed as it is now.                                         *)
LEMMA ReportGrows ==
  ASSUME Inv, ReportInv, StatusItem
  PROVE  ReportInv'
<1>0. /\ count \in Nat /\ items \in [1 .. count -> Item] /\ report \in Report
      /\ report.listed \in Seq(States) /\ Reported \in Nat
  BY DEF Inv, TypeOK, Report, Reported
<1>1. /\ srv = "status" /\ Reported < count /\ UNCHANGED <<count, items, syncing>>
      /\ report' = [report EXCEPT !.listed = Append(@, items[Reported + 1].state)]
  BY DEF StatusItem, info, Reported
<1>2. /\ report'.imported = report.imported /\ report'.syncing = report.syncing
      /\ report'.listed = Append(report.listed, items[Reported + 1].state)
  BY <1>0, <1>1 DEF Report
<1>3. items[Reported + 1].state \in States
  BY <1>0, <1>1 DEF Item
<1>4. /\ Reported' = Reported + 1
      /\ \A i \in 1 .. Reported : report'.listed[i] = report.listed[i]
      /\ report'.listed[Reported + 1] = items[Reported + 1].state
  BY <1>0, <1>2, <1>3 DEF Reported
<1>5. Seen' = Seen
  <2>1. ASSUME NEW i \in 1 .. count
        PROVE  (i \in Seen') <=> (i \in Seen)
    <3>1. CASE i <= Reported
      <4>1. i \in 1 .. Reported /\ i <= Reported'
        BY <1>0, <1>4, <3>1
      <4> QED
        BY <1>1, <1>4, <3>1, <4>1 DEF Seen
    <3>2. CASE i = Reported + 1
      <4>1. ~(i <= Reported) /\ i <= Reported'
        BY <1>0, <1>4, <3>2
      <4> QED
        BY <1>1, <1>4, <3>2, <4>1 DEF Seen
    <3>3. CASE i > Reported + 1
      <4>1. ~(i <= Reported) /\ ~(i <= Reported')
        BY <1>0, <1>4, <3>3
      <4> QED
        BY <1>1, <4>1 DEF Seen
    <3> QED
      BY <1>0, <3>1, <3>2, <3>3
  <2> QED
    BY <1>1, <2>1 DEF Seen
<1>6. ~report.syncing => items[Reported + 1].state # "importing"
  BY <1>0, <1>1 DEF ReportInv, Inv, ImportOwnsItsSlot, SyncingCoversTheWorker, Working
<1>7. ~report.syncing => \A i \in 1 .. Reported' : report'.listed[i] # "importing"
  <2>1. ASSUME ~report.syncing, NEW i \in 1 .. Reported + 1
        PROVE  report'.listed[i] # "importing"
    <3>1. CASE i = Reported + 1
      BY <1>4, <1>6, <2>1, <3>1
    <3>2. CASE i # Reported + 1
      <4>1. i \in 1 .. Reported
        BY <1>0, <3>2
      <4> QED
        BY <1>1, <1>4, <2>1, <4>1 DEF ReportInv
    <3> QED
      BY <3>1, <3>2
  <2> QED
    BY <1>4, <2>1
<1>8. Reported' <= count'
  BY <1>0, <1>1, <1>4
<1> QED
  BY <1>1, <1>2, <1>5, <1>7, <1>8 DEF ReportInv

(* The worker only adds to what will be listed as imported.                *)
LEMMA ReportDuringWork ==
  ASSUME Inv, ReportInv, Work
  PROVE  ReportInv'
<1> SUFFICES ASSUME srv' = "status" PROVE ReportInv'
  BY DEF ReportInv
<1> USE DEF info, server, screen, importer
<1>0. /\ count \in Nat /\ items \in [1 .. count -> Item]
      /\ report \in Report /\ UNCHANGED <<count, srv, report>>
  BY DEF Inv, TypeOK, Work, WorkerEnds, WorkerSkips, WorkerTakes, WorkerFinishes, WorkerReturns
<1>1. UNCHANGED Reported /\ Reported \in Nat
  BY <1>0 DEF Reported, Report
<1>2. \A i \in 1 .. count : items[i].state = "imported" => items'[i].state = "imported"
  <2>1. CASE WorkerEnds \/ WorkerSkips \/ WorkerFinishes
    BY <2>1 DEF WorkerEnds, WorkerSkips, WorkerFinishes
  <2>2. CASE WorkerTakes
    BY <1>0, <2>2 DEF WorkerTakes
  <2>3. ASSUME NEW status, NEW consumed, WorkerReturns(status, consumed)
        PROVE  \A i \in 1 .. count : items[i].state = "imported" => items'[i].state = "imported"
    BY <1>0, <2>3 DEF WorkerReturns, Inv, ImportOwnsItsSlot
  <2> QED
    BY <2>1, <2>2, <2>3 DEF Work
<1>3. Seen \subseteq Seen'
  BY <1>0, <1>1, <1>2 DEF Seen
<1>4. /\ IsFiniteSet(Seen') /\ Cardinality(Seen') \in Nat /\ Cardinality(Seen) \in Nat
      /\ Cardinality(Seen) <= Cardinality(Seen')
  <2>1. Seen' \subseteq 1 .. count /\ IsFiniteSet(1 .. count)
    BY <1>0, FS_Interval DEF Seen
  <2>2. IsFiniteSet(Seen')
    BY <2>1, FS_Subset
  <2> QED
    BY <1>3, <2>2, NotMore, FS_CardinalityType
<1>5. ~report.syncing => worker = "ending"
  BY <1>0 DEF ReportInv, Inv, SyncingCoversTheWorker, Working, Work, WorkerEnds, WorkerSkips,
              WorkerTakes, WorkerFinishes, WorkerReturns
<1>6. ~report.syncing => UNCHANGED <<items, syncing>>
  BY <1>5 DEF Work, WorkerEnds, WorkerSkips, WorkerTakes, WorkerFinishes, WorkerReturns
<1>7. ~report.syncing => Seen' = Seen
  BY <1>0, <1>1, <1>6 DEF Seen
<1>8. report.imported \in Nat
  BY <1>0 DEF Report
<1> QED
  BY <1>0, <1>1, <1>4, <1>6, <1>7, <1>8 DEF ReportInv

(* Every step keeps the bookkeeping of the report.                         *)
LEMMA ReportStep == Inv /\ ReportInv /\ [Next]_vars => ReportInv'
<1> SUFFICES ASSUME Inv, ReportInv, [Next]_vars PROVE ReportInv'
  OBVIOUS
<1> USE DEF info, server, screen, importer
<1>1. CASE UNCHANGED <<count, items, syncing, srv, report>>
  BY <1>1 DEF ReportInv, Reported, Seen
<1>2. CASE StatusRequest
  BY <1>2, ReportBegins
<1>3. CASE Request /\ ~StatusRequest
  BY <1>3 DEF Request, vcm_queue_publish, vcm_queue_sync, CancelRequest, vcm_queue_find, Admitted,
              ReportInv
<1>4. CASE Receive
  BY <1>4 DEF Receive, UploadRefused, UploadOpened, LoopCheck, ConnectionLost, UploadFailed,
              UploadPublished, Chunk, vcm_queue_received, ReportInv
<1>5. CASE StatusItem
  BY <1>5, ReportGrows
<1>6. CASE StatusSent
  BY <1>6 DEF StatusSent, ReportInv
<1>7. CASE Work
  BY <1>7, ReportDuringWork
<1>8. CASE \/ \E opens \in BOOLEAN : PollImport(opens)
           \/ StartWorker \/ StartFails \/ Abandon \/ queue_on_dialog_action \/ Exit
           \/ Terminated \/ UNCHANGED vars
  BY <1>1, <1>8 DEF PollImport, StartWorker, StartFails, Abandon, queue_on_dialog_action,
                    vcm_queue_cancel, Exit, Terminated, vars
<1> QED
  BY <1>2, <1>3, <1>4, <1>5, <1>6, <1>7, <1>8 DEF Next, Status

(* A status reply never counts an import it does not list; one that says no *)
(* sync is running lists no import under way and exactly the imports it     *)
(* counts, although the worker runs on between the locks.                   *)
THEOREM StatusReply == Spec => []ReportIsConsistent
<1>1. Init => ReportInv
  BY DEF Init, ReportInv
<1>2. Inv /\ ReportInv => ReportIsConsistent
  <2> SUFFICES ASSUME Inv, ReportInv, srv = "status", Len(report.listed) = count
               PROVE  ReportIsConsistent
    BY DEF ReportIsConsistent
  <2>1. Seen = {i \in 1 .. count : report.listed[i] = "imported"}
    BY DEF Seen, Reported, Inv, TypeOK
  <2>2. ~report.syncing => {i \in 1 .. count : report.listed[i] = "importing"} = {}
    BY DEF ReportInv, Reported
  <2> QED
    BY <2>1, <2>2 DEF ReportIsConsistent, ReportInv
<1> QED
  BY <1>1, <1>2, ReportStep, Invariance, PTL DEF Spec
=============================================================================
