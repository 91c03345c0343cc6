-------------------------- MODULE ImportJournal_proofs --------------------------
(***************************************************************************)
(* Proofs about ImportJournal, for any number of submissions and of power  *)
(* losses.  A power loss replaces the file system by any member of disk,   *)
(* so the invariant speaks of all of them: each is Good, and what the      *)
(* import has established at its place holds of all of them or, between    *)
(* two syncs, of the running system's view.                                *)
(***************************************************************************)
EXTENDS ImportJournal, TLAPS

(* The library has the item.                                               *)
Present(d) ==
  d.rows = 1 /\ "output" \in d.media /\ (item.subtitle => "output" \in d.sidecar)

(* A file system that a power loss may leave: a row was added only under a  *)
(* journal, a receipt is truthful, and nothing that was uploaded is lost.   *)
Good(d) ==
  /\ d.rows <= 1
  /\ d.marker = "none" => d.rows = 0
  /\ d.marker = "done" => Present(d)
  /\ submits > 0 => d.media # {} /\ (item.subtitle => d.sidecar # {})

(* What the import has established at each place.                          *)
Unexported == {"stage", "export", "mp3", "mp3_sync", "register"}
PlaceInv ==
  /\ pc # "idle" => result = NoResult /\ submits > 0
  /\ pc \in {"begin", "receipt", "remove"} => disk = {fs}
  /\ pc \in {"journal", "journal_sync"} => \A d \in disk : d.rows = 0 /\ d.marker # "done"
  /\ pc \in Unexported => \A d \in disk : d.rows = 0 /\ d.marker = "journal"
  /\ pc \in {"restore", "verify", "sidecar", "folder", "sync"} =>
       \A d \in disk : d.marker = "journal"
  /\ pc \in Unexported \cup {"begin", "journal", "journal_sync", "verify", "sidecar"} =>
       (item.subtitle => "inbox" \in fs.sidecar)
  /\ pc \in {"sidecar", "folder", "sync", "receipt"} => fs.rows = 1 /\ "output" \in fs.media
  /\ pc \in {"folder", "sync", "receipt"} => (item.subtitle => "output" \in fs.sidecar)
  /\ pc = "receipt_sync" => \A d \in disk : Present(d)

Inv == /\ TypeOK /\ (\A d \in disk : Good(d)) /\ PlaceInv /\ SuccessIsDurable
-----------------------------------------------------------------------------
(* The control of an import: a jump, or a return with an error, keeps the  *)
(* invariant if what it does to the files keeps every file system good.    *)
LEMMA Jump ==
  ASSUME Inv, NEW label \in Places \ {"idle", "begin", "journal"}, Goto(label), pc # "idle",
         fs' \in disk', \A d \in disk' : d \in FileSystem /\ Good(d),
         fs'.marker = IF label \in {"receipt_sync", "remove"} THEN "done" ELSE "journal",
         PlaceInv'
  PROVE  Inv'
<1> USE DEF Inv
<1>1. pc' = label /\ UNCHANGED <<item, moved, result, submits, crashes>>
  BY DEF Goto
<1>2. result = NoResult
  BY DEF PlaceInv
<1>3. TypeOK'
  <2>1. item' \in Item /\ moved' \in BOOLEAN
    BY <1>1, Zenon DEF TypeOK
  <2>2. fs' \in FileSystem /\ disk' \subseteq FileSystem
    OBVIOUS
  <2>3. result' \in Codes \cup {NoResult} /\ submits' \in 0 .. MaxSubmits /\ crashes' \in 0 .. MaxCrashes
    BY <1>1 DEF TypeOK
  <2> QED
    BY <1>1, <2>1, <2>2, <2>3 DEF TypeOK
<1>4. \A d \in disk' : Good(d)'
  BY <1>1 DEF Good, Present
<1>5. SuccessIsDurable'
  BY <1>1, <1>2 DEF SuccessIsDurable, NoResult
<1> QED
  BY <1>3, <1>4, <1>5

(* A return with an error status promises nothing about the library.      *)
LEMMA ErrorReturn ==
  ASSUME Inv, NEW status \in Codes \ {0}, Return(status),
         fs' \in disk', \A d \in disk' : d \in FileSystem /\ Good(d)
  PROVE  Inv'
<1> USE DEF Inv
<1>1. pc' = "idle" /\ result' = status /\ moved' = FALSE /\ UNCHANGED <<item, submits, crashes>>
  BY DEF Return
<1>2. TypeOK'
  <2>1. item' \in Item /\ moved' \in BOOLEAN
    BY <1>1, Zenon DEF TypeOK
  <2>2. fs' \in FileSystem /\ disk' \subseteq FileSystem /\ pc' \in Places
    BY <1>1 DEF Places
  <2>3. result' \in Codes \cup {NoResult} /\ submits' \in 0 .. MaxSubmits /\ crashes' \in 0 .. MaxCrashes
    BY <1>1 DEF TypeOK
  <2> QED
    BY <1>1, <2>1, <2>2, <2>3 DEF TypeOK
<1>3. \A d \in disk' : Good(d)'
  BY <1>1 DEF Good, Present
<1>4. PlaceInv' /\ SuccessIsDurable'
  BY <1>1 DEF PlaceInv, Unexported, SuccessIsDurable
<1> QED
  BY <1>2, <1>3, <1>4

(* A failure that touches no file.                                         *)
LEMMA Failure ==
  ASSUME Inv, NEW status \in Codes \ {0}, Fail(status)
  PROVE  Inv'
<1>1. Return(status) /\ UNCHANGED <<fs, disk>>
  BY DEF Fail
<1>2. fs \in disk /\ disk \subseteq FileSystem /\ \A d \in disk : Good(d)
  BY DEF Inv, TypeOK
<1>3. fs' \in disk' /\ \A d \in disk' : d \in FileSystem /\ Good(d)
  BY <1>1, <1>2
<1> QED
  BY <1>1, <1>3, ErrorReturn

(* A return with success, once every file system has the done receipt.     *)
LEMMA Success ==
  ASSUME Inv, Return(0), fs' \in disk',
         \A d \in disk' : d \in FileSystem /\ Good(d) /\ d.marker = "done"
  PROVE  Inv'
<1> USE DEF Inv
<1>1. pc' = "idle" /\ result' = 0 /\ moved' = FALSE /\ UNCHANGED <<item, submits, crashes>>
  BY DEF Return
<1>2. TypeOK'
  <2>1. item' \in Item /\ moved' \in BOOLEAN
    BY <1>1, Zenon DEF TypeOK
  <2>2. /\ fs' \in FileSystem /\ disk' \subseteq FileSystem /\ pc' \in Places
        /\ result' \in Codes \cup {NoResult}
        /\ submits' \in 0 .. MaxSubmits /\ crashes' \in 0 .. MaxCrashes
    BY <1>1 DEF TypeOK, Places, Codes
  <2> QED
    BY <1>1, <2>1, <2>2 DEF TypeOK
<1>3. \A d \in disk' : Good(d)'
  BY <1>1 DEF Good, Present
<1>4. PlaceInv'
  BY <1>1 DEF PlaceInv, Unexported
<1>5. SuccessIsDurable'
  BY <1>3 DEF SuccessIsDurable, Good, Present
<1> QED
  BY <1>2, <1>3, <1>4, <1>5

(* A sync leaves the file system the running system sees.                  *)
LEMMA SyncedFacts ==
  ASSUME Inv, Synced
  PROVE  /\ fs' = fs /\ disk' = {fs} /\ fs \in FileSystem /\ Good(fs) /\ fs' \in disk'
         /\ \A d \in disk' : d \in FileSystem /\ Good(d)
  BY DEF Inv, TypeOK, Synced

(* The entry of vcm_sync_import.                                           *)
LEMMA EntryInv ==
  ASSUME Inv, AlreadyDone \/ Interrupted \/ close_media_apps \/ Journal \/ JournalSync
  PROVE  Inv'
<1> USE DEF Inv
<1>0. fs \in disk /\ fs \in FileSystem /\ disk \subseteq FileSystem /\ \A d \in disk : Good(d)
  BY DEF TypeOK
<1>c. /\ {0, -1, -1001, -1002, -1003, -1005, -1008} = Codes
  BY DEF Codes
<1>1. CASE AlreadyDone
  <2>1. pc = "begin" /\ fs.marker = "done" /\ Return(0) /\ UNCHANGED <<fs, disk>>
    BY <1>1 DEF AlreadyDone, Fail
  <2>2. disk = {fs}
    BY <2>1 DEF PlaceInv
  <2> QED
    BY <1>0, <2>1, <2>2, Success
<1>2. CASE Interrupted
  BY <1>2, <1>c, Failure DEF Interrupted
<1>3. CASE close_media_apps
  <2>1. CASE Fail(-1001)
    BY <1>c, <2>1, Failure
  <2>2. CASE Quiet("journal")
    <3>1. /\ pc = "begin" /\ fs.marker = "none" /\ pc' = "journal"
          /\ UNCHANGED <<item, moved, result, submits, crashes, fs, disk>>
      BY <1>3, <2>2 DEF close_media_apps, Quiet, Goto
    <3>2. disk = {fs} /\ fs.rows = 0
      BY <1>0, <3>1 DEF PlaceInv, Good
    <3>3. TypeOK'
      <4>1. item' \in Item /\ moved' \in BOOLEAN
        BY <3>1, Zenon DEF TypeOK
      <4>2. /\ fs' \in FileSystem /\ disk' \subseteq FileSystem /\ fs' \in disk' /\ pc' \in Places
            /\ result' \in Codes \cup {NoResult}
            /\ submits' \in 0 .. MaxSubmits /\ crashes' \in 0 .. MaxCrashes
        BY <3>1 DEF TypeOK, Places
      <4> QED
        BY <3>1, <4>1, <4>2 DEF TypeOK
    <3>4. \A d \in disk' : Good(d)'
      BY <1>0, <3>1 DEF Good, Present
    <3>5. PlaceInv'
      BY <3>1, <3>2 DEF PlaceInv, Unexported
    <3>6. SuccessIsDurable'
      BY <3>1 DEF SuccessIsDurable
    <3> QED
      BY <3>3, <3>4, <3>5, <3>6
  <2> QED
    BY <1>3, <2>1, <2>2 DEF close_media_apps
<1>4. CASE Journal
  <2>0. pc = "journal" /\ submits > 0 /\ (\A d \in disk : d.rows = 0 /\ d.marker # "done")
    BY <1>4 DEF Journal, PlaceInv
  <2>1. CASE Fail(-1003)
    BY <1>c, <2>1, Failure
  <2>2. CASE /\ fs' = [fs EXCEPT !.marker = "journal"]
             /\ disk' = disk \cup {[d EXCEPT !.marker = "journal"] : d \in disk}
             /\ Goto("journal_sync") \/ Return(-1003)
    <3>1. \A d \in disk : LET e == [d EXCEPT !.marker = "journal"] IN
            e \in FileSystem /\ e.rows = 0 /\ e.marker = "journal" /\ e.media = d.media /\ e.sidecar = d.sidecar
      BY <1>0, <2>0 DEF FileSystem
    <3>2. \A d \in disk : Good([d EXCEPT !.marker = "journal"])
      BY <1>0, <3>1 DEF Good
    <3>3. fs' \in disk' /\ \A d \in disk' : d \in FileSystem /\ Good(d) /\ d.rows = 0 /\ d.marker # "done"
      BY <1>0, <2>0, <2>2, <3>1, <3>2, ZenonT(60)
    <3>4. CASE Return(-1003)
      BY <1>c, <3>3, <3>4, ErrorReturn
    <3>5. CASE Goto("journal_sync")
      <4>1. fs'.marker = "journal" /\ fs'.sidecar = fs.sidecar
        BY <1>0, <2>2, <3>1
      <4>2. PlaceInv'
        BY <2>0, <3>3, <3>5, <4>1 DEF PlaceInv, Unexported, Goto
      <4> QED
        BY <2>0, <3>3, <3>5, <4>1, <4>2, Jump DEF Places
    <3> QED
      BY <2>2, <3>4, <3>5
  <2> QED
    BY <1>4, <2>1, <2>2 DEF Journal, Do
<1>5. CASE JournalSync
  <2>1. CASE Fail(-1003)
    BY <1>c, <2>1, Failure
  <2>2. CASE Synced /\ Goto(Start)
    <3>1. Start \in {"mp3", "stage"} /\ pc = "journal_sync"
      BY <1>5 DEF Start, JournalSync
    <3>2. /\ fs' = fs /\ disk' = {fs} /\ Good(fs) /\ fs' \in disk'
          /\ \A d \in disk' : d \in FileSystem /\ Good(d)
      BY <2>2, SyncedFacts
    <3>3. fs.marker = "journal" /\ fs.rows = 0
      BY <1>0, <3>1 DEF PlaceInv, TypeOK
    <3>4. PlaceInv'
      BY <2>2, <3>1, <3>2, <3>3 DEF PlaceInv, Unexported, Goto
    <3> QED
      BY <2>2, <3>1, <3>2, <3>3, <3>4, Jump DEF Places
  <2> QED
    BY <1>5, <2>1, <2>2 DEF JournalSync
<1> QED
  BY <1>1, <1>2, <1>3, <1>4, <1>5

(* Staging the media and calling the vendor's exporter.                    *)
LEMMA ExportInv ==
  ASSUME Inv, stage_named \/ Export
  PROVE  Inv'
<1> USE DEF Inv
<1>0. fs \in disk /\ fs \in FileSystem /\ disk \subseteq FileSystem /\ \A d \in disk : Good(d)
  BY DEF TypeOK
<1>c. {0, -1, -1001, -1002, -1003, -1005, -1008} = Codes
  BY DEF Codes
<1>p. /\ pc \in {"stage", "export"} /\ submits > 0
      /\ \A d \in disk : d.rows = 0 /\ d.marker = "journal"
  BY DEF PlaceInv, Unexported, stage_named, Export
<1>1. CASE stage_named
  <2>1. CASE Fail(-1)
    BY <1>c, <2>1, Failure
  <2>2. CASE /\ fs' = [fs EXCEPT !.media = Renamed(@, "inbox", "staged")]
             /\ disk' = disk \cup {[d EXCEPT !.media = Renamed(@, "inbox", "staged")] : d \in disk}
             /\ Goto("export") \/ Return(-1)
    <3>1. \A d \in disk : LET e == [d EXCEPT !.media = Renamed(@, "inbox", "staged")] IN
            /\ e \in FileSystem /\ e.rows = d.rows /\ e.marker = d.marker /\ e.sidecar = d.sidecar
            /\ d.media # {} => e.media # {}
      BY <1>0 DEF FileSystem, Renamed
    <3>2. \A d \in disk : Good([d EXCEPT !.media = Renamed(@, "inbox", "staged")])
      BY <1>0, <1>p, <3>1 DEF Good
    <3>3. /\ fs' \in disk' /\ fs'.sidecar = fs.sidecar /\ fs'.marker = "journal"
          /\ \A d \in disk' : d \in FileSystem /\ Good(d) /\ d.rows = 0 /\ d.marker = "journal"
      BY <1>0, <1>p, <2>2, <3>1, <3>2, ZenonT(60)
    <3>4. CASE Return(-1)
      BY <1>c, <3>3, <3>4, ErrorReturn
    <3>5. CASE Goto("export")
      <4>1. PlaceInv'
        BY <1>p, <3>3, <3>5 DEF PlaceInv, Unexported, Goto
      <4> QED
        BY <1>p, <3>3, <3>5, <4>1, Jump DEF Places
    <3> QED
      BY <2>2, <3>4, <3>5
  <2> QED
    BY <1>1, <2>1, <2>2 DEF stage_named, Do
<1>2. CASE Export
  <2>1. ASSUME Goto("verify") \/ Return(-1005) \/ Return(-1),
               fs' \in disk', fs'.sidecar = fs.sidecar, fs'.marker = "journal",
               \A d \in disk' : d \in FileSystem /\ Good(d) /\ d.marker = "journal"
        PROVE  Inv'
    <3>1. CASE Return(-1005) \/ Return(-1)
      BY <1>c, <2>1, <3>1, ErrorReturn
    <3>2. CASE Goto("verify")
      <4>1. PlaceInv'
        BY <1>p, <2>1, <3>2 DEF PlaceInv, Unexported, Goto
      <4> QED
        BY <1>p, <2>1, <3>2, <4>1, Jump DEF Places
    <3>3. Goto("verify") \/ (Return(-1005) \/ Return(-1))
      BY <2>1, Zenon
    <3> QED
      BY <3>1, <3>2, <3>3, Zenon
  <2>2. CASE UNCHANGED <<fs, disk>>
    <3>1. /\ fs' \in disk' /\ fs'.sidecar = fs.sidecar /\ fs'.marker = "journal"
          /\ \A d \in disk' : d \in FileSystem /\ Good(d) /\ d.marker = "journal"
      BY <1>0, <1>p, <2>2
    <3> QED
      BY <1>2, <2>1, <3>1, Zenon DEF Export
  <2>3. ASSUME NEW consumes \in {FALSE, item.kind = "video"},
               fs' = Exported(fs, consumes),
               disk' = disk \cup {Exported(d, consumes) : d \in disk}
        PROVE  Inv'
    <3>1. ASSUME NEW d \in disk
          PROVE  /\ Exported(d, consumes) \in FileSystem /\ Exported(d, consumes).rows = 1
                 /\ Exported(d, consumes).marker = "journal"
                 /\ Exported(d, consumes).sidecar = d.sidecar /\ Exported(d, consumes).media # {}
      <4> DEFINE media == (IF consumes THEN d.media \ {"staged"} ELSE d.media) \cup {"output"}
                 added == [d EXCEPT !.media = media]
      <4>1. d \in FileSystem /\ d.rows = 0 /\ d.marker = "journal"
        BY <1>0, <1>p
      <4>2. media \in SUBSET {"inbox", "staged", "output"} /\ media # {}
        BY <4>1 DEF FileSystem
      <4>3. Exported(d, consumes) = [added EXCEPT !.rows = @ + 1]
        BY Zenon DEF Exported
      <4> HIDE DEF media
      <4>4. /\ added \in FileSystem /\ added.media = media /\ added.rows = 0
            /\ added.marker = "journal" /\ added.sidecar = d.sidecar
        BY <4>1, <4>2 DEF FileSystem
      <4> HIDE DEF added
      <4> QED
        BY <4>2, <4>3, <4>4 DEF FileSystem
    <3>2. \A d \in disk : Good(Exported(d, consumes))
      BY <1>0, <1>p, <3>1 DEF Good
    <3>3. /\ fs' \in disk' /\ fs'.sidecar = fs.sidecar /\ fs'.marker = "journal"
          /\ \A d \in disk' : d \in FileSystem /\ Good(d) /\ d.marker = "journal"
      BY <1>0, <1>p, <2>3, <3>1, <3>2
    <3> QED
      BY <1>2, <2>1, <3>3, Zenon DEF Export
  <2> QED
    BY <1>2, <2>2, <2>3, Zenon DEF Export, Do
<1> QED
  BY <1>1, <1>2

(* A failed sync or registration leads to the song's restoration.          *)
LEMMA Restoring ==
  ASSUME Inv, pc \in Unexported, Quiet("restore")
  PROVE  Inv'
<1> USE DEF Inv
<1>1. Goto("restore") /\ fs' = fs /\ disk' = disk
  BY DEF Quiet
<1>2. /\ pc # "idle" /\ fs' \in disk' /\ fs'.marker = "journal"
      /\ \A d \in disk' : d \in FileSystem /\ Good(d)
  BY <1>1 DEF TypeOK, Unexported
<1>3. PlaceInv'
  BY <1>1 DEF PlaceInv, Unexported, Goto
<1> QED
  BY <1>1, <1>2, <1>3, Jump DEF Places

(* vcm_music_sync_mp3: until the row is committed no file system has one,  *)
(* and putting the song back never leaves it nowhere.                      *)
LEMMA SongInv ==
  ASSUME Inv, MoveSong \/ SongSync \/ register_song_with_facts \/ RestoreSong
  PROVE  Inv'
<1> USE DEF Inv
<1>0. fs \in disk /\ fs \in FileSystem /\ disk \subseteq FileSystem /\ \A d \in disk : Good(d)
  BY DEF TypeOK
<1>c. {0, -1, -1001, -1002, -1003, -1005, -1008} = Codes
  BY DEF Codes
<1>p. /\ pc \in {"mp3", "mp3_sync", "register", "restore"} /\ submits > 0 /\ result = NoResult
      /\ pc # "restore" => (item.subtitle => "inbox" \in fs.sidecar)
      /\ pc # "restore" => \A d \in disk : d.rows = 0
      /\ \A d \in disk : d.marker = "journal"
  BY DEF PlaceInv, Unexported, MoveSong, SongSync, register_song_with_facts, RestoreSong
<1>1. CASE MoveSong
  <2>0. pc = "mp3"
    BY <1>1 DEF MoveSong
  <2>1. CASE Fail(-1)
    BY <1>c, <2>1, Failure
  <2>2. ASSUME moved' \in BOOLEAN, pc' = "mp3_sync", UNCHANGED <<item, result, submits, crashes>>,
               fs' \in disk', fs'.sidecar = fs.sidecar,
               \A d \in disk' : d \in FileSystem /\ Good(d) /\ d.rows = 0 /\ d.marker = "journal"
        PROVE  Inv'
    <3>1. TypeOK'
      <4>1. item' \in Item
        BY <2>2, Zenon DEF TypeOK
      <4>2. /\ fs' \in FileSystem /\ disk' \subseteq FileSystem /\ pc' \in Places
            /\ result' \in Codes \cup {NoResult}
            /\ submits' \in 0 .. MaxSubmits /\ crashes' \in 0 .. MaxCrashes
        BY <2>2 DEF TypeOK, Places
      <4> QED
        BY <2>2, <4>1, <4>2 DEF TypeOK
    <3>2. \A d \in disk' : Good(d)'
      BY <2>2 DEF Good, Present
    <3>3. PlaceInv' /\ SuccessIsDurable'
      BY <1>p, <2>0, <2>2 DEF PlaceInv, Unexported, SuccessIsDurable, NoResult
    <3> QED
      BY <3>1, <3>2, <3>3
  <2>3. CASE /\ fs' = [fs EXCEPT !.media = Renamed(@, "inbox", "output")]
             /\ disk' = disk \cup {[d EXCEPT !.media = Renamed(@, "inbox", "output")] : d \in disk}
             /\ moved' = TRUE /\ pc' = "mp3_sync" /\ UNCHANGED <<item, result, submits, crashes>>
    <3>1. \A d \in disk : LET e == [d EXCEPT !.media = Renamed(@, "inbox", "output")] IN
            /\ e \in FileSystem /\ e.rows = d.rows /\ e.marker = d.marker /\ e.sidecar = d.sidecar
            /\ d.media # {} => e.media # {}
      BY <1>0 DEF FileSystem, Renamed
    <3>2. \A d \in disk : Good([d EXCEPT !.media = Renamed(@, "inbox", "output")])
      BY <1>0, <1>p, <2>0, <3>1 DEF Good
    <3>3. /\ fs' \in disk' /\ fs'.sidecar = fs.sidecar
          /\ \A d \in disk' : d \in FileSystem /\ Good(d) /\ d.rows = 0 /\ d.marker = "journal"
      BY <1>0, <1>p, <2>0, <2>3, <3>1, <3>2, ZenonT(60)
    <3>4. moved' \in BOOLEAN
      BY <2>3, Zenon
    <3> QED
      BY <2>2, <2>3, <3>3, <3>4
  <2>4. CASE /\ fs' = [fs EXCEPT !.media = @ \cup {"output"}]
             /\ disk' = disk \cup {[d EXCEPT !.media = @ \cup {"output"}] : d \in disk}
             /\ moved' = FALSE /\ pc' = "mp3_sync" /\ UNCHANGED <<item, result, submits, crashes>>
    <3>1. \A d \in disk : LET e == [d EXCEPT !.media = @ \cup {"output"}] IN
            /\ e \in FileSystem /\ e.rows = d.rows /\ e.marker = d.marker /\ e.sidecar = d.sidecar
            /\ e.media # {}
      BY <1>0 DEF FileSystem
    <3>2. \A d \in disk : Good([d EXCEPT !.media = @ \cup {"output"}])
      BY <1>0, <1>p, <2>0, <3>1 DEF Good
    <3>3. /\ fs' \in disk' /\ fs'.sidecar = fs.sidecar
          /\ \A d \in disk' : d \in FileSystem /\ Good(d) /\ d.rows = 0 /\ d.marker = "journal"
      BY <1>0, <1>p, <2>0, <2>4, <3>1, <3>2, ZenonT(60)
    <3>4. moved' \in BOOLEAN
      BY <2>4, Zenon
    <3> QED
      BY <2>2, <2>4, <3>3, <3>4
  <2> QED
    BY <1>1, <2>1, <2>3, <2>4 DEF MoveSong, Do
<1>2. CASE SongSync
  <2>0. pc = "mp3_sync"
    BY <1>2 DEF SongSync
  <2>1. CASE Synced /\ Goto("register")
    <3>1. /\ fs' = fs /\ disk' = {fs} /\ fs' \in disk'
          /\ \A d \in disk' : d \in FileSystem /\ Good(d)
      BY <2>1, SyncedFacts
    <3>2. fs.marker = "journal" /\ fs.rows = 0
      BY <1>0, <1>p, <2>0
    <3>3. PlaceInv'
      BY <1>p, <2>0, <2>1, <3>1, <3>2 DEF PlaceInv, Unexported, Goto
    <3> QED
      BY <1>p, <2>0, <2>1, <3>1, <3>2, <3>3, Jump DEF Places
  <2>2. CASE Quiet("restore")
    BY <1>p, <2>0, <2>2, Restoring DEF Unexported
  <2> QED
    BY <1>2, <2>1, <2>2 DEF SongSync
<1>3. CASE register_song_with_facts
  <2>0. pc = "register"
    BY <1>3 DEF register_song_with_facts
  <2>1. CASE Quiet("restore")
    BY <1>p, <2>0, <2>1, Restoring DEF Unexported
  <2>2. CASE /\ fs' = [fs EXCEPT !.rows = @ + 1]
             /\ disk' = {[d EXCEPT !.rows = @ + 1] : d \in disk}
             /\ Goto("verify") \/ Goto("restore")
    <3> DEFINE registered(d) == [d EXCEPT !.rows = @ + 1]
    <3>0. fs' = registered(fs) /\ disk' = {registered(d) : d \in disk}
      BY <2>2
    <3>1. \A d \in disk : /\ registered(d) \in FileSystem /\ registered(d).rows = 1
                          /\ registered(d).marker = "journal"
                          /\ registered(d).sidecar = d.sidecar /\ registered(d).media = d.media
      BY <1>0, <1>p, <2>0 DEF FileSystem
    <3> HIDE DEF registered
    <3>2. \A d \in disk : Good(registered(d))
      BY <1>0, <1>p, <3>1 DEF Good
    <3>3. /\ fs' \in disk' /\ fs'.sidecar = fs.sidecar /\ fs'.marker = "journal"
          /\ \A d \in disk' : d \in FileSystem /\ Good(d) /\ d.marker = "journal"
      BY <1>0, <3>0, <3>1, <3>2
    <3>4. CASE Goto("verify")
      <4>1. PlaceInv'
        BY <1>p, <2>0, <3>3, <3>4 DEF PlaceInv, Unexported, Goto
      <4> QED
        BY <1>p, <3>3, <3>4, <4>1, Jump DEF Places
    <3>5. CASE Goto("restore")
      <4>1. PlaceInv'
        BY <1>p, <2>0, <3>3, <3>5 DEF PlaceInv, Unexported, Goto
      <4> QED
        BY <1>p, <3>3, <3>5, <4>1, Jump DEF Places
    <3> QED
      BY <2>2, <3>4, <3>5
  <2> QED
    BY <1>3, <2>1, <2>2 DEF register_song_with_facts
<1>4. CASE RestoreSong
  <2>1. CASE Fail(-1)
    BY <1>c, <2>1, Failure
  <2>2. CASE /\ fs' = [fs EXCEPT !.media = Renamed(@, "output", "inbox")]
             /\ disk' = disk \cup {[d EXCEPT !.media = Renamed(@, "output", "inbox")] : d \in disk}
             /\ Return(-1)
    <3>1. \A d \in disk : LET e == [d EXCEPT !.media = Renamed(@, "output", "inbox")] IN
            /\ e \in FileSystem /\ e.rows = d.rows /\ e.marker = d.marker /\ e.sidecar = d.sidecar
            /\ d.media # {} => e.media # {}
      BY <1>0 DEF FileSystem, Renamed
    <3>2. \A d \in disk : Good([d EXCEPT !.media = Renamed(@, "output", "inbox")])
      BY <1>0, <1>p, <3>1 DEF Good
    <3>3. fs' \in disk' /\ \A d \in disk' : d \in FileSystem /\ Good(d)
      BY <1>0, <2>2, <3>1, <3>2
    <3> QED
      BY <1>c, <2>2, <3>3, ErrorReturn, SMTT(30)
  <2> QED
    BY <1>4, <2>1, <2>2 DEF RestoreSong, Do
<1> QED
  BY <1>1, <1>2, <1>3, <1>4

(* Verification, the sidecar, the folder, and the sync before the receipt. *)
LEMMA CommitInv ==
  ASSUME Inv, Verify \/ Sidecar \/ vcm_video_folder \/ CommitSync
  PROVE  Inv'
<1> USE DEF Inv
<1>0. fs \in disk /\ fs \in FileSystem /\ disk \subseteq FileSystem /\ \A d \in disk : Good(d)
  BY DEF TypeOK
<1>c. {0, -1, -1001, -1002, -1003, -1005, -1008} = Codes
  BY DEF Codes
<1>p. /\ pc \in {"verify", "sidecar", "folder", "sync"} /\ submits > 0 /\ fs.marker = "journal"
      /\ \A d \in disk : d.marker = "journal"
  BY <1>0 DEF PlaceInv, Verify, Sidecar, vcm_video_folder, CommitSync
<1>q. ASSUME NEW label \in {"sidecar", "folder", "sync"}, Quiet(label), PlaceInv'
      PROVE  Inv'
  <2>1. Goto(label) /\ fs' = fs /\ disk' = disk
    BY <1>q DEF Quiet
  <2>2. fs' \in disk' /\ \A d \in disk' : d \in FileSystem /\ Good(d)
    BY <1>0, <2>1
  <2> QED
    BY <1>p, <1>q, <2>1, <2>2, Jump DEF Places
<1>1. CASE Verify
  <2>1. CASE Fail(-1008)
    BY <1>c, <2>1, Failure
  <2>2. CASE "output" \in fs.media /\ fs.rows = 1 /\ Quiet("sidecar")
    <3>1. pc = "verify"
      BY <1>1 DEF Verify
    <3>2. PlaceInv'
      BY <1>p, <2>2, <3>1 DEF PlaceInv, Unexported, Quiet, Goto
    <3> QED
      BY <1>q, <2>2, <3>2
  <2> QED
    BY <1>1, <2>1, <2>2 DEF Verify
<1>2. CASE Sidecar
  <2>0. /\ pc = "sidecar" /\ fs.rows = 1 /\ "output" \in fs.media
        /\ item.subtitle => "inbox" \in fs.sidecar
    BY <1>2 DEF Sidecar, PlaceInv
  <2>1. CASE Fail(-1)
    BY <1>c, <2>1, Failure
  <2>2. CASE ~item.subtitle /\ Quiet("folder")
    <3>1. PlaceInv'
      BY <1>p, <2>0, <2>2 DEF PlaceInv, Unexported, Quiet, Goto
    <3> QED
      BY <1>q, <2>2, <3>1
  <2>3. CASE /\ item.subtitle /\ Goto("folder")
             /\ fs' = [fs EXCEPT !.sidecar = Renamed(@, "inbox", "output")]
             /\ disk' = disk \cup {[d EXCEPT !.sidecar = Renamed(@, "inbox", "output")] : d \in disk}
    <3>1. \A d \in disk : LET e == [d EXCEPT !.sidecar = Renamed(@, "inbox", "output")] IN
            /\ e \in FileSystem /\ e.rows = d.rows /\ e.marker = "journal" /\ e.media = d.media
            /\ d.sidecar # {} => e.sidecar # {}
            /\ "inbox" \in d.sidecar => "output" \in e.sidecar
      BY <1>0, <1>p DEF FileSystem, Renamed
    <3>2. \A d \in disk : Good([d EXCEPT !.sidecar = Renamed(@, "inbox", "output")])
      BY <1>0, <1>p, <3>1 DEF Good
    <3>3. /\ fs' \in disk' /\ "output" \in fs'.sidecar /\ fs'.rows = 1 /\ "output" \in fs'.media
          /\ fs'.marker = "journal"
          /\ \A d \in disk' : d \in FileSystem /\ Good(d) /\ d.marker = "journal"
      BY <1>0, <1>p, <2>0, <2>3, <3>1, <3>2
    <3>4. PlaceInv'
      BY <1>p, <2>0, <2>3, <3>3 DEF PlaceInv, Unexported, Goto
    <3> QED
      BY <1>p, <2>3, <3>3, <3>4, Jump DEF Places
  <2> QED
    BY <1>2, <2>1, <2>2, <2>3 DEF Sidecar, Do
<1>3. CASE vcm_video_folder
  <2>1. CASE Fail(-1)
    BY <1>c, <2>1, Failure
  <2>2. CASE Quiet("sync")
    <3>1. pc = "folder"
      BY <1>3 DEF vcm_video_folder
    <3>2. PlaceInv'
      BY <1>p, <2>2, <3>1 DEF PlaceInv, Unexported, Quiet, Goto
    <3> QED
      BY <1>q, <2>2, <3>2
  <2> QED
    BY <1>3, <2>1, <2>2 DEF vcm_video_folder
<1>4. CASE CommitSync
  <2>1. CASE Fail(-1003)
    BY <1>c, <2>1, Failure
  <2>2. CASE Synced /\ Goto("receipt")
    <3>1. pc = "sync"
      BY <1>4 DEF CommitSync
    <3>2. /\ fs' = fs /\ disk' = {fs} /\ fs' \in disk'
          /\ \A d \in disk' : d \in FileSystem /\ Good(d)
      BY <2>2, SyncedFacts
    <3>3. PlaceInv'
      BY <1>p, <2>2, <3>1, <3>2 DEF PlaceInv, Unexported, Goto
    <3> QED
      BY <1>p, <2>2, <3>2, <3>3, Jump DEF Places
  <2> QED
    BY <1>4, <2>1, <2>2 DEF CommitSync
<1> QED
  BY <1>1, <1>2, <1>3, <1>4

(* The receipt is written only after everything it vouches for is synced,  *)
(* and the staged upload goes only after the receipt is.                   *)
LEMMA ReceiptInv ==
  ASSUME Inv, Receipt \/ ReceiptSync \/ Remove
  PROVE  Inv'
<1> USE DEF Inv
<1>0. fs \in disk /\ fs \in FileSystem /\ disk \subseteq FileSystem /\ \A d \in disk : Good(d)
  BY DEF TypeOK
<1>c. {0, -1, -1001, -1002, -1003, -1005, -1008} = Codes
  BY DEF Codes
<1>1. CASE Receipt
  <2>0. pc = "receipt" /\ disk = {fs} /\ Present(fs) /\ submits > 0
    BY <1>1 DEF Receipt, PlaceInv, Present
  <2>1. CASE Fail(-1003)
    BY <1>c, <2>1, Failure
  <2>2. CASE /\ fs' = [fs EXCEPT !.marker = "done"] /\ Goto("receipt_sync")
             /\ disk' = disk \cup {[d EXCEPT !.marker = "done"] : d \in disk}
    <3>1. LET e == [fs EXCEPT !.marker = "done"] IN
            /\ e \in FileSystem /\ e.marker = "done"
            /\ e.rows = fs.rows /\ e.media = fs.media /\ e.sidecar = fs.sidecar
      BY <1>0 DEF FileSystem
    <3>2. disk' = {fs, fs'}
      BY <2>0, <2>2
    <3>3. Present(fs') /\ Good(fs') /\ fs'.marker = "done" /\ fs' \in FileSystem
      BY <1>0, <2>0, <2>2, <3>1 DEF Good, Present
    <3>4. fs' \in disk' /\ \A d \in disk' : d \in FileSystem /\ Good(d) /\ Present(d)
      BY <1>0, <2>0, <3>2, <3>3
    <3>5. PlaceInv'
      BY <2>0, <2>2, <3>4 DEF PlaceInv, Unexported, Goto, Present
    <3> QED
      BY <2>0, <2>2, <3>3, <3>4, <3>5, Jump DEF Places
  <2> QED
    BY <1>1, <2>1, <2>2 DEF Receipt, Do
<1>2. CASE ReceiptSync
  <2>1. CASE Fail(-1003)
    BY <1>c, <2>1, Failure
  <2>2. CASE Synced /\ Goto("remove")
    <3>1. pc = "receipt_sync" /\ fs.marker = "done" /\ submits > 0
      BY <1>2 DEF ReceiptSync, TypeOK, PlaceInv
    <3>2. /\ fs' = fs /\ disk' = {fs} /\ fs' \in disk'
          /\ \A d \in disk' : d \in FileSystem /\ Good(d)
      BY <2>2, SyncedFacts
    <3>3. PlaceInv'
      BY <2>2, <3>1, <3>2 DEF PlaceInv, Unexported, Goto
    <3> QED
      BY <2>2, <3>1, <3>2, <3>3, Jump DEF Places
  <2> QED
    BY <1>2, <2>1, <2>2 DEF ReceiptSync
<1>3. CASE Remove
  <2>0. disk = {fs} /\ fs.marker = "done" /\ Present(fs)
    BY <1>0, <1>3 DEF Remove, PlaceInv, TypeOK, Good
  <2>1. CASE Fail(0)
    <3>1. Return(0) /\ fs' = fs /\ disk' = disk
      BY <2>1 DEF Fail
    <3> QED
      BY <1>0, <2>0, <3>1, Success
  <2>2. ASSUME NEW source \in {"inbox", "staged"}, Return(0),
               fs' = [fs EXCEPT !.media = @ \ {source}],
               disk' = disk \cup {[d EXCEPT !.media = @ \ {source}] : d \in disk}
        PROVE  Inv'
    <3>1. LET e == [fs EXCEPT !.media = @ \ {source}] IN
            /\ e \in FileSystem /\ e.marker = "done" /\ e.rows = fs.rows /\ e.sidecar = fs.sidecar
            /\ "output" \in e.media
      BY <1>0, <2>0 DEF FileSystem, Present
    <3>2. disk' = {fs, fs'}
      BY <2>0, <2>2
    <3>3. fs' \in FileSystem /\ Good(fs') /\ fs'.marker = "done"
      BY <1>0, <2>0, <2>2, <3>1 DEF Good, Present
    <3>4. fs' \in disk' /\ \A d \in disk' : d \in FileSystem /\ Good(d) /\ d.marker = "done"
      BY <1>0, <2>0, <3>2, <3>3
    <3> QED
      BY <2>2, <3>4, Success
  <2> QED
    BY <1>3, <2>1, <2>2 DEF Remove, Do
<1> QED
  BY <1>1, <1>2, <1>3

(* Nothing was uploaded yet.                                               *)
LEMMA InitInv == Init => Inv
<1> SUFFICES ASSUME Init PROVE Inv
  OBVIOUS
<1>1. Empty \in FileSystem /\ Empty.rows = 0 /\ Empty.marker = "none"
  BY DEF Empty, FileSystem
<1>2. TypeOK
  <2>1. item \in Item /\ moved \in BOOLEAN
    BY Zenon DEF Init
  <2>2. /\ fs \in FileSystem /\ disk \subseteq FileSystem /\ fs \in disk /\ pc \in Places
        /\ result \in Codes \cup {NoResult}
        /\ submits \in 0 .. MaxSubmits /\ crashes \in 0 .. MaxCrashes
    BY <1>1, JournalAssumption DEF Init, Places
  <2> QED
    BY <2>1, <2>2 DEF Init, TypeOK
<1>3. \A d \in disk : Good(d)
  BY <1>1 DEF Init, Good
<1>4. PlaceInv /\ SuccessIsDurable
  BY DEF Init, PlaceInv, Unexported, SuccessIsDurable, NoResult
<1> QED
  BY <1>2, <1>3, <1>4 DEF Inv

(* A new upload finds whatever the last import or power loss left.         *)
LEMMA SubmitInv ==
  ASSUME Inv, Submit
  PROVE  Inv'
<1> USE DEF Inv
<1>0. fs \in disk /\ fs \in FileSystem /\ Good(fs)
  BY DEF TypeOK
<1> DEFINE media == fs.media \cup {"inbox"}
           sidecar == IF item.subtitle THEN fs.sidecar \cup {"inbox"} ELSE fs.sidecar
           published == [fs EXCEPT !.media = media]
<1>1. /\ pc' = "begin" /\ submits' = submits + 1 /\ submits < MaxSubmits /\ result' = NoResult
      /\ UNCHANGED <<item, moved, crashes>> /\ disk' = {fs'}
  BY DEF Submit
<1>2. /\ media \in SUBSET {"inbox", "staged", "output"} /\ sidecar \in SUBSET {"inbox", "output"}
      /\ item.subtitle => "inbox" \in sidecar
      /\ fs.media \subseteq media /\ "inbox" \in media /\ fs.sidecar \subseteq sidecar
  BY <1>0 DEF FileSystem
<1>3. fs' = [published EXCEPT !.sidecar = sidecar]
  BY Zenon DEF Submit
<1> HIDE DEF media, sidecar
<1>4. /\ published \in FileSystem /\ published.media = media
      /\ published.rows = fs.rows /\ published.marker = fs.marker
  BY <1>0, <1>2 DEF FileSystem
<1> HIDE DEF published
<1>5. /\ fs' \in FileSystem /\ fs'.media = media /\ fs'.sidecar = sidecar
      /\ fs'.rows = fs.rows /\ fs'.marker = fs.marker
  BY <1>2, <1>3, <1>4 DEF FileSystem
<1>6. TypeOK'
  <2>1. item' \in Item /\ moved' \in BOOLEAN
    BY <1>1, Zenon DEF TypeOK
  <2>2. /\ fs' \in FileSystem /\ disk' \subseteq FileSystem /\ fs' \in disk' /\ pc' \in Places
        /\ result' \in Codes \cup {NoResult}
        /\ submits' \in 0 .. MaxSubmits /\ crashes' \in 0 .. MaxCrashes
    BY <1>1, <1>5, JournalAssumption DEF TypeOK, Places
  <2> QED
    BY <1>1, <2>1, <2>2 DEF TypeOK
<1>7. \A d \in disk' : Good(d)'
  BY <1>0, <1>1, <1>2, <1>5 DEF Good, Present
<1>8. PlaceInv' /\ SuccessIsDurable'
  <2>1. submits' > 0
    BY <1>1 DEF TypeOK
  <2> QED
    BY <1>1, <1>2, <1>5, <2>1 DEF PlaceInv, Unexported, SuccessIsDurable, NoResult
<1> QED
  BY <1>6, <1>7, <1>8

(* A power loss, at any point of an import.                                *)
LEMMA CrashInv ==
  ASSUME Inv, Crash
  PROVE  Inv'
<1> USE DEF Inv
<1>1. /\ fs' \in disk /\ disk' = {fs'} /\ pc' = "idle" /\ result' = NoResult /\ moved' = FALSE
      /\ crashes' = crashes + 1 /\ crashes < MaxCrashes /\ UNCHANGED <<item, submits>>
  BY DEF Crash
<1>2. fs' \in FileSystem /\ Good(fs')
  BY <1>1 DEF TypeOK
<1>3. TypeOK'
  <2>1. item' \in Item /\ moved' \in BOOLEAN
    BY <1>1, Zenon DEF TypeOK
  <2>2. /\ fs' \in FileSystem /\ disk' \subseteq FileSystem /\ fs' \in disk' /\ pc' \in Places
        /\ result' \in Codes \cup {NoResult}
        /\ submits' \in 0 .. MaxSubmits /\ crashes' \in 0 .. MaxCrashes
    BY <1>1, <1>2, JournalAssumption DEF TypeOK, Places
  <2> QED
    BY <1>1, <2>1, <2>2 DEF TypeOK
<1>4. \A d \in disk' : Good(d)'
  BY <1>1, <1>2 DEF Good, Present
<1>5. PlaceInv' /\ SuccessIsDurable'
  BY <1>1 DEF PlaceInv, Unexported, SuccessIsDurable, NoResult
<1> QED
  BY <1>3, <1>4, <1>5

(* A step that changes nothing.                                            *)
LEMMA StutterInv ==
  ASSUME Inv, UNCHANGED vars
  PROVE  Inv'
<1> USE DEF Inv
<1>1. UNCHANGED <<item, fs, disk, pc, moved, result, submits, crashes>>
  BY DEF vars
<1>2. TypeOK'
  <2>1. item' \in Item /\ moved' \in BOOLEAN
    BY <1>1, Zenon DEF TypeOK
  <2>2. /\ fs' \in FileSystem /\ disk' \subseteq FileSystem /\ fs' \in disk' /\ pc' \in Places
        /\ result' \in Codes \cup {NoResult}
        /\ submits' \in 0 .. MaxSubmits /\ crashes' \in 0 .. MaxCrashes
    BY <1>1 DEF TypeOK
  <2> QED
    BY <1>1, <2>1, <2>2 DEF TypeOK
<1>3. \A d \in disk' : Good(d)'
  BY <1>1 DEF Good, Present
<1>4. PlaceInv' /\ SuccessIsDurable'
  BY <1>1 DEF PlaceInv, Unexported, SuccessIsDurable, Present
<1> QED
  BY <1>2, <1>3, <1>4

-----------------------------------------------------------------------------
(* The inductive invariant holds in every behaviour of an import, for any  *)
(* number of submissions of the ID and of power losses.                    *)
THEOREM Invariance == Spec => []Inv
<1>1. Inv /\ [Next]_vars => Inv'
  BY EntryInv, ExportInv, SongInv, CommitInv, ReceiptInv, SubmitInv, CrashInv, StutterInv
     DEF Next, Import, Rest
<1> QED
  BY <1>1, InitInv, PTL DEF Spec

(* Every variable keeps its type, and an import past its first steps has   *)
(* its journal (the guards of vcm_sync_import).                            *)
THEOREM TypeCorrect == Spec => []TypeOK
  BY Invariance, PTL DEF Inv

(* The vendor's library never gets a second row for one transfer ID,       *)
(* however often it is submitted and wherever the power fails.             *)
THEOREM NoSecondExport == Spec => []AtMostOneExport
<1>1. Inv => AtMostOneExport
  BY DEF Inv, TypeOK, Good, AtMostOneExport
<1> QED
  BY <1>1, Invariance, PTL

(* A done receipt is never found without what it vouches for.              *)
THEOREM TruthfulReceipt == Spec => []ReceiptIsTruthful
<1>1. Inv => ReceiptIsTruthful
  BY DEF Inv, TypeOK, Good, Present, ReceiptIsTruthful
<1> QED
  BY <1>1, Invariance, PTL

(* No failure and no power loss makes the uploaded media or its sidecar    *)
(* disappear.                                                              *)
THEOREM Retention == Spec => []NothingLost
<1>1. Inv => NothingLost
  BY DEF Inv, TypeOK, Good, NothingLost
<1> QED
  BY <1>1, Invariance, PTL

(* What vcm_sync_import reports as imported survives every power loss.     *)
THEOREM Durability == Spec => []SuccessIsDurable
  BY Invariance, PTL DEF Inv
=============================================================================
