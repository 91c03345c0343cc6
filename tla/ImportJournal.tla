----------------------------- MODULE ImportJournal -----------------------------
(***************************************************************************)
(* vcm_sync_import: how one upload becomes an item of the Vita's library,  *)
(* with the journal and the receipt that make it safe against a power loss *)
(* at any point and against the same transfer ID being submitted again.    *)
(*                                                                         *)
(* The file system is a record: where copies of the media and of the       *)
(* subtitle sidecar exist, whether the import journal or the done receipt  *)
(* exists (the code never reads their text, so it is left out) and how     *)
(* many library rows name the output.  An operation that was not synced    *)
(* may or may not survive a power loss, independently of the others: disk  *)
(* is the set of file systems the device may come back with.               *)
(***************************************************************************)
EXTENDS Integers, FiniteSets

CONSTANTS
  Kinds,         \* subset of {"photo", "music", "mp3", "video"}
  MaxSubmits,    \* bound: how often the transfer ID is uploaded
  MaxCrashes     \* bound: how often the device loses power

ASSUME JournalAssumption ==
  /\ Kinds \subseteq {"photo", "music", "mp3", "video"}
  /\ MaxSubmits \in Nat /\ MaxCrashes \in Nat

VARIABLES
  item,          \* what the queue says of the upload
  fs,            \* the file system as the running system sees it
  disk,          \* the file systems a power loss may leave behind
  pc,            \* the place in vcm_sync_import
  moved,         \* vcm_music_sync_mp3: the rename to the output succeeded
  result,        \* what the last call returned, or NoResult
  submits, crashes

vars == <<item, fs, disk, pc, moved, result, submits, crashes>>

Item == [kind : Kinds, subtitle : BOOLEAN, folder : BOOLEAN]
FileSystem == [media : SUBSET {"inbox", "staged", "output"},
               sidecar : SUBSET {"inbox", "output"},
               marker : {"none", "journal", "done"}, rows : Nat]
NoResult == 1
Empty == [media |-> {}, sidecar |-> {}, marker |-> "none", rows |-> 0]

Init ==
  /\ item \in {i \in Item : i.subtitle \/ i.folder => i.kind = "video"}
  /\ fs = Empty /\ disk = {Empty}
  /\ pc = "idle" /\ moved = FALSE /\ result = NoResult
  /\ submits = 0 /\ crashes = 0

\* A file operation that is not synced yet.
Do(op(_)) == fs' = op(fs) /\ disk' = disk \cup {op(d) : d \in disk}

\* sceIoSync("ux0:").
Synced == disk' = {fs} /\ UNCHANGED fs

Renamed(places, from, to) ==
  IF from \in places THEN (places \ {from}) \cup {to} ELSE places

Goto(label) ==
  pc' = label /\ UNCHANGED <<item, moved, result, submits, crashes>>

Return(status) ==
  pc' = "idle" /\ result' = status /\ moved' = FALSE /\ UNCHANGED <<item, submits, crashes>>

\* A failure: the log and the journal take its text, and the journal stays
\* behind.  The status -1 stands for every code that has no text of its own.
Fail(status) == Return(status) /\ UNCHANGED <<fs, disk>>

Quiet(label) == Goto(label) /\ UNCHANGED <<fs, disk>>

-----------------------------------------------------------------------------
(* The way to an import: receive_file publishes the media, then the        *)
(* sidecar, under names that must be free, and syncs the device.           *)

Submit ==
  /\ pc = "idle" /\ submits < MaxSubmits
  /\ "inbox" \notin fs.media /\ (item.subtitle => "inbox" \notin fs.sidecar)
  /\ fs' = [fs EXCEPT !.media = @ \cup {"inbox"},
                      !.sidecar = IF item.subtitle THEN @ \cup {"inbox"} ELSE @]
  /\ disk' = {fs'}
  /\ pc' = "begin" /\ submits' = submits + 1 /\ result' = NoResult
  /\ UNCHANGED <<item, moved, crashes>>

-----------------------------------------------------------------------------
(* vcm_sync_import.                                                        *)

AlreadyDone == pc = "begin" /\ fs.marker = "done" /\ Fail(0)

Interrupted ==
  /\ pc = "begin" /\ fs.marker = "journal"
  /\ Fail(-1002)

\* close_media_apps asks four system apps to close and waits for them.
close_media_apps ==
  /\ pc = "begin" /\ fs.marker = "none"
  /\ Fail(-1001) \/ Quiet("journal")

\* receipt(journal); it may fail with or without having created the file.
Journal ==
  /\ pc = "journal"
  /\ \/ Do(LAMBDA d : [d EXCEPT !.marker = "journal"]) /\ (Goto("journal_sync") \/ Return(-1003))
     \/ Fail(-1003)

Start == IF item.kind = "mp3" THEN "mp3" ELSE "stage"

JournalSync_Skipped == pc = "journal_sync" /\ Quiet(Start)
JournalSync ==
  /\ pc = "journal_sync"
  /\ (Synced /\ Goto(Start)) \/ Fail(-1003)

\* stage_named: mkdir, rename, and the journal again, which exists already.
stage_named ==
  /\ pc = "stage"
  /\ \/ /\ Do(LAMBDA d : [d EXCEPT !.media = Renamed(@, "inbox", "staged")])
        /\ Goto("export") \/ Return(-1)
     \/ Fail(-1)

\* The vendor's exporter adds the file and its library row.  The one for
\* videos may consume the source.  Any of the calls before it may fail, and
\* nothing it reports is relied on: it may name a path, name none or fail,
\* having done its work or not.
Exported(d, consumes) ==
  [d EXCEPT !.media = (IF consumes THEN @ \ {"staged"} ELSE @) \cup {"output"}, !.rows = @ + 1]

Export ==
  /\ pc = "export"
  /\ \/ \E consumes \in {FALSE, item.kind = "video"} : Do(LAMBDA d : Exported(d, consumes))
     \/ UNCHANGED <<fs, disk>>
  /\ Goto("verify") \/ Return(-1005) \/ Return(-1)

\* vcm_music_sync_mp3 up to the rename; where that fails the file is copied,
\* and a copy that fails is no copy of the media.
MoveSong ==
  /\ pc = "mp3"
  /\ \/ /\ "output" \notin fs.media /\ "inbox" \in fs.media
        /\ \/ /\ Do(LAMBDA d : [d EXCEPT !.media = Renamed(@, "inbox", "output")])
              /\ moved' = TRUE
           \/ /\ Do(LAMBDA d : [d EXCEPT !.media = @ \cup {"output"}])
              /\ moved' = FALSE
        /\ pc' = "mp3_sync" /\ UNCHANGED <<item, result, submits, crashes>>
     \/ Fail(-1)

SongSync ==
  /\ pc = "mp3_sync"
  /\ (Synced /\ Goto("register")) \/ Quiet("restore")

\* register_song_with_facts: one transaction, synchronous=FULL, so a row that
\* was committed is on the disk whatever else is.  Closing the database after
\* the commit may still fail, and the song is put back then too.
register_song_with_facts ==
  /\ pc = "register"
  /\ \/ /\ fs' = [fs EXCEPT !.rows = @ + 1]
        /\ disk' = {[d EXCEPT !.rows = @ + 1] : d \in disk}
        /\ Goto("verify") \/ Goto("restore")
     \/ Quiet("restore")

\* The song goes back to the inbox if it was moved; the rename may fail.
RestoreSong_Removes ==
  /\ pc = "restore"
  /\ Do(LAMBDA d : [d EXCEPT !.media = @ \ {"output"}]) /\ Return(-1)
RestoreSong ==
  /\ pc = "restore"
  /\ \/ moved /\ Do(LAMBDA d : [d EXCEPT !.media = Renamed(@, "output", "inbox")]) /\ Return(-1)
     \/ Fail(-1)

\* The output exists in full and exactly one row of the library names it.
Verify ==
  /\ pc = "verify"
  /\ \/ "output" \in fs.media /\ fs.rows = 1 /\ Quiet("sidecar")
     \/ Fail(-1008)

Sidecar ==
  /\ pc = "sidecar"
  /\ \/ ~item.subtitle /\ Quiet("folder")
     \/ item.subtitle /\ Do(LAMBDA d : [d EXCEPT !.sidecar = Renamed(@, "inbox", "output")])
                      /\ Goto("folder")
     \/ item.subtitle /\ Fail(-1)

\* vcm_video_folder is one transaction on the video database.
vcm_video_folder ==
  /\ pc = "folder"
  /\ Quiet("sync") \/ (item.folder /\ Fail(-1))

CommitSync_Skipped == pc = "sync" /\ Quiet("receipt")
CommitSync ==
  /\ pc = "sync"
  /\ (Synced /\ Goto("receipt")) \/ Fail(-1003)

\* receipt(journal), then the rename that turns it into the done receipt.
Receipt ==
  /\ pc = "receipt"
  /\ (Do(LAMBDA d : [d EXCEPT !.marker = "done"]) /\ Goto("receipt_sync")) \/ Fail(-1003)

ReceiptSync_Skipped == pc = "receipt_sync" /\ Quiet("remove")
ReceiptSync ==
  /\ pc = "receipt_sync"
  /\ (Synced /\ Goto("remove")) \/ Fail(-1003)

\* sceIoRemove(source), whose failure is ignored.
Remove ==
  /\ pc = "remove"
  /\ \/ /\ Do(LAMBDA d : [d EXCEPT !.media = @ \ {IF item.kind = "mp3" THEN "inbox" ELSE "staged"}])
        /\ Return(0)
     \/ Fail(0)

\* Power is lost; the application comes back with an empty queue.
Crash ==
  /\ crashes < MaxCrashes
  /\ fs' \in disk /\ disk' = {fs'}
  /\ pc' = "idle" /\ result' = NoResult /\ moved' = FALSE /\ crashes' = crashes + 1
  /\ UNCHANGED <<item, submits>>

Import ==
  \/ AlreadyDone \/ Interrupted \/ close_media_apps \/ Journal \/ JournalSync
  \/ stage_named \/ Export \/ MoveSong \/ SongSync \/ register_song_with_facts \/ RestoreSong
  \/ Verify \/ Sidecar \/ vcm_video_folder \/ CommitSync \/ Receipt \/ ReceiptSync \/ Remove

\* No import is running; the ID may never be submitted again.
Rest == pc = "idle" /\ UNCHANGED vars

Next == Submit \/ Import \/ Crash \/ Rest

Spec == Init /\ [][Next]_vars

-----------------------------------------------------------------------------
(* Properties.                                                             *)

Codes == {0, -1, -1001, -1002, -1003, -1005, -1008}
Places == {"idle", "begin", "journal", "journal_sync", "stage", "export", "mp3", "mp3_sync",
           "register", "restore", "verify", "sidecar", "folder", "sync", "receipt",
           "receipt_sync", "remove"}

(* Every variable has its type, what the system sees is one of the states a *)
(* power loss may leave, and past its first steps the import has its        *)
(* journal, which is the done receipt only from the rename on.              *)
TypeOK ==
  /\ item \in Item /\ fs \in FileSystem /\ disk \subseteq FileSystem /\ fs \in disk
  /\ pc \in Places /\ moved \in BOOLEAN /\ result \in Codes \cup {NoResult}
  /\ submits \in 0 .. MaxSubmits /\ crashes \in 0 .. MaxCrashes
  /\ pc \notin {"idle", "begin", "journal"} =>
       fs.marker = IF pc \in {"receipt_sync", "remove"} THEN "done" ELSE "journal"

(* "An interrupted vendor export needs recovery, not blind resubmission."    *)
(* (sync_import.c): however often the ID is uploaded again and wherever the  *)
(* power fails, the library gets at most one row for it.                     *)
AtMostOneExport == fs.rows <= 1

(* A done receipt tells the truth, also after a power loss: the library has *)
(* the row and the media, and the sidecar lies next to it.                  *)
ReceiptIsTruthful ==
  fs.marker = "done" => /\ fs.rows = 1 /\ "output" \in fs.media
                        /\ item.subtitle => "output" \in fs.sidecar

(* Once an upload was published its media, and its sidecar, always exist    *)
(* somewhere: "Delete only our staged upload after export/DB commit and a   *)
(* durable receipt." (sync_import.c).                                       *)
NothingLost ==
  submits > 0 => fs.media # {} /\ (item.subtitle => fs.sidecar # {})

(* When the call reports success, the item is in the library on every file  *)
(* system a power loss could leave, so "imported" is never taken back.      *)
SuccessIsDurable ==
  result = 0 => \A d \in disk : d.marker = "done" /\ d.rows = 1 /\ "output" \in d.media
=============================================================================
