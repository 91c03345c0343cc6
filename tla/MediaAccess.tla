----------------------------- MODULE MediaAccess -----------------------------
(***************************************************************************)
(* What the Vita's threads share below the queue: the AppUtil session and  *)
(* the music mount, the SQLite library with its arena, and the media       *)
(* databases.                                                              *)
(*                                                                         *)
(* The UI thread opens music access for USB mode and releases it at exit,  *)
(* the importer opens or borrows it for a song and opens it for good after *)
(* a photo, and the server's music audit opens it for one request.  The    *)
(* server also builds the USB catalogue: it counts the three libraries,    *)
(* allocates, and enumerates them, while imports and other applications    *)
(* change them.  No lock covers any of this (vcm_lock does nothing), so an *)
(* action is one call.                                                     *)
(***************************************************************************)
EXTENDS Integers, FiniteSets, Sequences

CONSTANTS
    Photos, Songs, Videos,   \* the media that can exist, as numbers (mrid)
    AtFirst,                 \* those that are there when the application starts
    Coming,                  \* those that other applications add or delete
    Subtitled,               \* the videos with an .m4t beside them
    BadNames,                \* the media with a name copy_name refuses
    Limit,                   \* the entries that 24 MiB hold
    MaxChanges               \* bound: changes by other applications and items imported

Media == Photos \cup Songs \cup Videos

ASSUME MediaAssumption ==
    /\ Media \subseteq Nat \ {0} /\ IsFiniteSet(Media) /\ Limit \in Nat /\ MaxChanges \in Nat
    /\ Photos \cap Songs = {} /\ Photos \cap Videos = {} /\ Songs \cap Videos = {}
    /\ AtFirst \subseteq Media /\ Coming \subseteq Media /\ Subtitled \subseteq Videos
    /\ BadNames \subseteq Media

Users == {"ui", "importer", "audit"}
Threads == {"server", "importer"}
Session == "session"
Mount == "mount"
PhotoMount == "photo mount"
Places == {"out", "init", "mount", "in", "shutdown",
           "export", "photo init", "photo mount", "verify"}

VARIABLES
    opened,      \* what is open of {Session, Mount, PhotoMount}
    owns,        \* what each user opened and is to close
    unowned,     \* what photo imports opened, which nobody closes
    at,          \* where each user is
    phase,       \* the application: "run", the two joins and the release of its exit, "done"
    lent,        \* history: the importer borrowed what its owner does not keep until the exit
    boot, space, ready,   \* initialize_database: where each thread is, db_space is set, ready
    replaced,    \* history: how often db_space was assigned while SQLite was ready
    rows, files, song, changes,   \* the libraries, the song being imported
    srv, k, counts, capacity, catalog, cursor,   \* vcm_mtp_snapshot_build
    quiet, faulted   \* history: no change, no failing call since the build began

access == <<opened, owns, unowned, at, lent>>
database == <<boot, space, ready, replaced>>
library == <<rows, files, song, changes>>
snapshot == <<srv, k, counts, capacity, catalog, cursor, faulted>>
vars == <<access, phase, database, library, snapshot, quiet>>

(***************************************************************************)
(* AppUtil: the first to initialise or mount gets it, the others BUSY.     *)
(***************************************************************************)

Go(u, place) == at' = [at EXCEPT ![u] = place]

Opens(u, what) ==
    /\ what \notin opened
    /\ opened' = opened \cup {what}
    /\ owns' = [owns EXCEPT ![u] = @ \cup {what}]

Closes(u, what) ==
    IF what \in owns[u]
    THEN /\ opened' = opened \ {what}
         /\ owns' = [owns EXCEPT ![u] = @ \ {what}]
    ELSE UNCHANGED <<opened, owns>>

Shuts(u) == Closes(u, Session)

\* A call that is never undone.
OpensForGood(what) == opened' = opened \cup {what} /\ unowned' = unowned \cup {what}

\* EnsureMusicAccess, from UsbModePressed, which ignores how it ends: BUSY is a failure like
\* any other, and a session without the mount is given back.
EnsureMusicAccess ==
    /\ \/ /\ at["ui"] = "out" /\ phase = "run"
          /\ Go("ui", "init")
          /\ UNCHANGED <<opened, owns>>
       \/ /\ at["ui"] = "init"
          /\ \/ Opens("ui", Session) /\ Go("ui", "mount")
             \/ Go("ui", "out") /\ UNCHANGED <<opened, owns>>
       \/ /\ at["ui"] = "mount"
          /\ \/ Opens("ui", Mount) /\ Go("ui", "in")
             \/ Shuts("ui") /\ Go("ui", "out")
    /\ UNCHANGED <<unowned, lent, phase, database, library, snapshot, quiet>>

\* The importer takes BUSY for an answer.  What the audit opened, and a session the UI has no
\* mount for yet, may be closed under it; what a photo import left stays.
Borrows(what) ==
    /\ what \in opened
    /\ lent' = (lent \/ what \in owns["audit"] \/ (what \in owns["ui"] /\ at["ui"] # "in"))
    /\ UNCHANGED <<opened, owns>>

\* mount_music_for_file_import, up to vcm_music_sync_mp3's work.
mount_music_for_file_import ==
    /\ \/ /\ at["importer"] = "out" /\ phase \notin {"release", "done"}
          /\ Go("importer", "init")
          /\ lent' = FALSE
          /\ UNCHANGED <<opened, owns>>
       \/ /\ at["importer"] = "init"
          /\ \/ Opens("importer", Session) /\ Go("importer", "mount") /\ UNCHANGED lent
             \/ Borrows(Session) /\ Go("importer", "mount")
             \/ Go("importer", "out") /\ UNCHANGED <<opened, owns, lent>>
       \/ /\ at["importer"] = "mount"
          /\ \/ Opens("importer", Mount) /\ Go("importer", "in") /\ UNCHANGED lent
             \/ Borrows(Mount) /\ Go("importer", "in")
             \/ Shuts("importer") /\ Go("importer", "out") /\ UNCHANGED lent
    /\ UNCHANGED <<unowned, phase, database, library, snapshot, quiet>>

\* vcm_sync_import of anything but an mp3.  The exporter, the vendor's, adds file and row, or
\* fails and may leave the file.  After a photo the session and the photo mount are opened,
\* for good and whatever the calls return, and the row is looked up (initialize_database).
vcm_sync_import ==
    /\ \/ /\ at["importer"] = "out" /\ phase \notin {"release", "done"}
          /\ Go("importer", "export")
          /\ UNCHANGED <<opened, unowned, rows, files, changes, quiet>>
       \/ /\ at["importer"] = "export" /\ changes < MaxChanges
          /\ \E m \in Media \ (rows \cup files) :
               /\ files' = files \cup {m}
               /\ \/ /\ rows' = rows \cup {m}
                     /\ Go("importer", IF m \in Photos THEN "photo init" ELSE "verify")
                  \/ UNCHANGED rows /\ Go("importer", "out")
          /\ changes' = changes + 1 /\ quiet' = FALSE
          /\ UNCHANGED <<opened, unowned>>
       \/ /\ at["importer"] = "photo init"
          /\ \/ Session \notin opened /\ OpensForGood(Session)
             \/ UNCHANGED <<opened, unowned>>
          /\ Go("importer", "photo mount")
          /\ UNCHANGED <<rows, files, changes, quiet>>
       \/ /\ at["importer"] = "photo mount"
          /\ \/ Session \in opened /\ PhotoMount \notin opened /\ OpensForGood(PhotoMount)
             \/ UNCHANGED <<opened, unowned>>
          /\ Go("importer", "verify")
          /\ UNCHANGED <<rows, files, changes, quiet>>
       \/ /\ at["importer"] \in {"export", "verify"} /\ boot["importer"] = "no"
          /\ Go("importer", "out")
          /\ UNCHANGED <<opened, unowned, rows, files, changes, quiet>>
    /\ UNCHANGED <<owns, lent, phase, database, song, snapshot>>

\* The end of vcm_music_sync_mp3 and of vcm_library_audit_music.
Leaves(u) ==
    /\ \/ /\ at[u] = "in"
          /\ u = "importer" => song = 0 /\ boot[u] = "no"
          /\ Closes(u, Mount) /\ Go(u, "shutdown")
       \/ /\ at[u] = "shutdown"
          /\ Shuts(u) /\ Go(u, "out")
    /\ UNCHANGED <<unowned, lent, phase, database, library, snapshot, quiet>>

\* vcm_library_audit_music works with whatever it got.
vcm_library_audit_music ==
    /\ \/ /\ at["audit"] = "out" /\ srv = "idle" /\ phase \in {"run", "join server"}
          /\ ready
          /\ Go("audit", "init")
          /\ UNCHANGED <<opened, owns>>
       \/ /\ at["audit"] = "init"
          /\ \/ Opens("audit", Session) /\ Go("audit", "mount")
             \/ Go("audit", "in") /\ UNCHANGED <<opened, owns>>
       \/ /\ at["audit"] = "mount"
          /\ Go("audit", "in")
          /\ Opens("audit", Mount) \/ UNCHANGED <<opened, owns>>
    /\ UNCHANGED <<unowned, lent, phase, database, library, snapshot, quiet>>

ReleaseMusicAccess ==
    IF at["ui"] = "in"
    THEN Closes("ui", Mount) /\ Go("ui", "shutdown") /\ UNCHANGED phase
    ELSE Shuts("ui") /\ Go("ui", "out") /\ phase' = "done"

\* RunPafApplication after its main loop: stop and join the server, join the importer,
\* release.
Exit_ReleasesFirst ==
    /\ \/ /\ phase = "run" /\ at["ui"] \in {"out", "in"}
          /\ phase' = "release"
          /\ UNCHANGED <<opened, owns, at>>
       \/ phase = "release" /\ ReleaseMusicAccess
    /\ UNCHANGED <<unowned, lent, database, library, snapshot, quiet>>
Exit ==
    /\ \/ /\ phase = "run" /\ at["ui"] \in {"out", "in"}
          /\ phase' = "join server"
          /\ UNCHANGED <<opened, owns, at>>
       \/ /\ phase = "join server" /\ srv = "idle" /\ at["audit"] = "out" /\ boot["server"] = "no"
          /\ phase' = "join importer"
          /\ UNCHANGED <<opened, owns, at>>
       \/ /\ phase = "join importer" /\ at["importer"] = "out"
          /\ phase' = "release"
          /\ UNCHANGED <<opened, owns, at>>
       \/ phase = "release" /\ ReleaseMusicAccess
    /\ UNCHANGED <<unowned, lent, database, library, snapshot, quiet>>

(***************************************************************************)
(* initialize_database, without a lock: the flag and db_space, the block,  *)
(* the allocator, the rest.                                                *)
(***************************************************************************)

\* Where a thread needs the database: the server at a library request, the importer when
\* it takes a song (probe) and when it looks up what an exporter imported.
Needs(t) == IF t = "server" THEN phase \in {"run", "join server"} /\ srv = "idle" /\ at["audit"] = "out"
            ELSE (at["importer"] = "in" /\ song = 0) \/ at["importer"] = "verify"

Arrives(t, place) == boot' = [boot EXCEPT ![t] = place]

\* db_space is assigned; a failed creation clears it.
CreateSpace(t) ==
    /\ \/ space' = TRUE /\ Arrives(t, "created")
       \/ space' = FALSE /\ Arrives(t, "no")
    /\ replaced' = IF ready THEN replaced + 1 ELSE replaced

initialize_database_ReadyFirst(t) ==
    /\ \/ /\ boot[t] = "no" /\ Needs(t) /\ ~ready /\ ~space
          /\ Arrives(t, "checked")
          /\ UNCHANGED <<space, ready, replaced>>
       \/ /\ boot[t] = "checked" /\ ready' = TRUE
          /\ Arrives(t, "allocated") \/ Arrives(t, "no")
          /\ UNCHANGED <<space, replaced>>
       \/ /\ boot[t] = "allocated"
          /\ CreateSpace(t) \/ (Arrives(t, "no") /\ UNCHANGED <<space, replaced>>)
          /\ UNCHANGED ready
       \/ /\ boot[t] = "created"
          /\ Arrives(t, "no")
          /\ UNCHANGED <<space, ready, replaced>>
    /\ UNCHANGED <<access, phase, library, snapshot, quiet>>
initialize_database(t) ==
    /\ \/ /\ boot[t] = "no" /\ Needs(t) /\ ~ready /\ ~space
          /\ Arrives(t, "checked")
          /\ UNCHANGED <<space, ready, replaced>>
       \/ /\ boot[t] = "checked"                               \* the module, the block
          /\ Arrives(t, "allocated") \/ Arrives(t, "no")
          /\ UNCHANGED <<space, ready, replaced>>
       \/ /\ boot[t] = "allocated"                             \* a failed mapping keeps the block
          /\ CreateSpace(t) \/ (Arrives(t, "no") /\ UNCHANGED <<space, replaced>>)
          /\ UNCHANGED ready
       \/ /\ boot[t] = "created"                               \* configure, sqlite3_initialize
          /\ Arrives(t, "no")
          /\ ready' \in {ready, TRUE}
          /\ UNCHANGED <<space, replaced>>
    /\ UNCHANGED <<access, phase, library, snapshot, quiet>>

(***************************************************************************)
(* The media                                                               *)
(***************************************************************************)

\* vcm_music_sync_mp3: the file is put into ux0:/music, then the row is written.  A failed
\* transaction takes the row back, and the file if it was moved and not copied.
ImportSong ==
    /\ at["importer"] = "in" /\ ready /\ boot["importer"] = "no"
    /\ \/ /\ song = 0 /\ changes < MaxChanges
          /\ \E m \in Songs \ (rows \cup files) : song' = m /\ files' = files \cup {m}
          /\ changes' = changes + 1
          /\ UNCHANGED rows
       \/ /\ song # 0 /\ song \notin rows
          /\ \/ rows' = rows \cup {song} /\ UNCHANGED <<files, song>>
             \/ files' \in {files, files \ {song}} /\ song' = 0 /\ UNCHANGED rows
          /\ UNCHANGED changes
       \/ /\ song \in rows
          /\ \/ UNCHANGED <<rows, files>>
             \/ rows' = rows \ {song} /\ files' \in {files, files \ {song}}
          /\ song' = 0
          /\ UNCHANGED changes
    /\ quiet' = FALSE
    /\ UNCHANGED <<access, phase, database, snapshot>>

\* Other applications.
MediaChange ==
    /\ changes < MaxChanges
    /\ \E m \in Coming :
         \/ /\ files' = IF m \in files THEN files \ {m} ELSE files \cup {m}
            /\ UNCHANGED rows
         \/ /\ rows' = IF m \in rows THEN rows \ {m} ELSE rows \cup {m}
            /\ UNCHANGED files
    /\ changes' = changes + 1
    /\ quiet' = FALSE
    /\ UNCHANGED <<access, phase, database, song, snapshot>>

(***************************************************************************)
(* The catalogue                                                           *)
(***************************************************************************)

Library == <<Photos, Songs, Videos>>
Entry(m) == [id |-> m, sidecar |-> FALSE]
Sidecar(m) == [id |-> m, sidecar |-> TRUE]
Folders == <<[id |-> 0, sidecar |-> FALSE], [id |-> 0, sidecar |-> FALSE], [id |-> 0, sidecar |-> FALSE]>>

\* send_usb_catalog or send_usb_catalog_summary begins.
BuildBegins ==
    /\ srv = "idle" /\ at["audit"] = "out" /\ boot["server"] = "no" /\ ready
    /\ phase \in {"run", "join server"}
    /\ srv' = "count" /\ k' = 1 /\ cursor' = 0
    /\ counts' = <<0, 0, 0>> /\ capacity' = 0 /\ catalog' = <<>>
    /\ quiet' = TRUE /\ faulted' = FALSE
    /\ UNCHANGED <<access, phase, database, library>>

\* vcm_library_count for each library.
vcm_library_count ==
    /\ srv = "count"
    /\ counts' = [counts EXCEPT ![k] = Cardinality(rows \cap Library[k])]
    /\ IF k < 3 THEN k' = k + 1 /\ UNCHANGED srv ELSE k' = 1 /\ srv' = "allocate"
    /\ UNCHANGED <<capacity, catalog, cursor, faulted>>

\* Every video may have a sidecar.
Needed_OnePerVideo == 3 + counts[1] + counts[2] + counts[3]
Needed == 3 + counts[1] + counts[2] + 2 * counts[3]

\* The block, vcm_mtp_catalog_init; too large or no memory.
Allocate ==
    /\ srv = "allocate"
    /\ \/ /\ Needed <= Limit
          /\ srv' = "row" /\ capacity' = Needed /\ catalog' = Folders
          /\ UNCHANGED faulted
       \/ /\ srv' = "failed" /\ faulted' = TRUE
          /\ UNCHANGED <<capacity, catalog>>
    /\ UNCHANGED <<k, counts, cursor>>

\* vcm_mtp_catalog_add
Fits_Exactly(m) == Len(catalog) <= capacity /\ m \notin BadNames
Fits(m) == Len(catalog) < capacity /\ m \notin BadNames
Add(entry, place) == catalog' = Append(catalog, entry) /\ srv' = place

\* vcm_library_enumerate: the rows in the order of their numbers, those without a file
\* skipped; the end of a library, and of the last one.
vcm_library_enumerate ==
    /\ srv = "row"
    /\ LET left == {m \in rows \cap Library[k] : m > cursor}
           m    == CHOOSE x \in left : \A y \in left : x <= y
       IN \/ /\ left # {}
             /\ cursor' = m
             /\ \/ m \notin files /\ UNCHANGED <<srv, catalog>>
                \/ m \in files /\ Fits(m) /\ Add(Entry(m), IF m \in Subtitled THEN "sidecar" ELSE "row")
                \/ m \in files /\ ~Fits(m) /\ srv' = "failed" /\ UNCHANGED catalog
             /\ UNCHANGED k
          \/ /\ left = {}
             /\ IF k < 3 THEN k' = k + 1 /\ UNCHANGED srv ELSE k' = 1 /\ srv' = "built"
             /\ cursor' = 0
             /\ UNCHANGED catalog
    /\ UNCHANGED <<counts, capacity, faulted>>

\* The sidecar of the video just added.
SidecarRow ==
    /\ srv = "sidecar"
    /\ \/ Fits(cursor) /\ Add(Sidecar(cursor), "row")
       \/ ~Fits(cursor) /\ srv' = "failed" /\ UNCHANGED catalog
    /\ UNCHANGED <<k, counts, capacity, cursor, faulted>>

\* A database call fails.
QueryFails ==
    /\ srv \in {"count", "row"}
    /\ srv' = "failed" /\ faulted' = TRUE
    /\ UNCHANGED <<k, counts, capacity, catalog, cursor>>

\* The answer, and vcm_mtp_snapshot_destroy.
BuildEnds ==
    /\ srv \in {"built", "failed"}
    /\ srv' = "idle" /\ capacity' = 0 /\ catalog' = <<>>
    /\ k' = 1 /\ counts' = <<0, 0, 0>> /\ cursor' = 0 /\ faulted' = FALSE

Build == /\ \/ vcm_library_count
            \/ Allocate
            \/ vcm_library_enumerate
            \/ SidecarRow
            \/ QueryFails
            \/ BuildEnds
         /\ UNCHANGED <<access, phase, database, library, quiet>>

(***************************************************************************)
(* Specification                                                           *)
(***************************************************************************)

Init ==
    /\ opened = {} /\ owns = [u \in Users |-> {}] /\ unowned = {} /\ at = [u \in Users |-> "out"]
    /\ phase = "run" /\ lent = FALSE
    /\ boot = [t \in Threads |-> "no"] /\ space = FALSE /\ ready = FALSE /\ replaced = 0
    /\ rows = AtFirst /\ files = AtFirst /\ song = 0 /\ changes = 0
    /\ srv = "idle" /\ k = 1 /\ counts = <<0, 0, 0>> /\ capacity = 0 /\ catalog = <<>> /\ cursor = 0
    /\ quiet = TRUE /\ faulted = FALSE

Done == phase = "done" /\ UNCHANGED vars

Next ==
    \/ EnsureMusicAccess
    \/ mount_music_for_file_import
    \/ vcm_sync_import
    \/ vcm_library_audit_music
    \/ \E u \in {"importer", "audit"} : Leaves(u)
    \/ Exit
    \/ \E t \in Threads : initialize_database(t)
    \/ ImportSong
    \/ MediaChange
    \/ BuildBegins
    \/ Build
    \/ Done

Spec == Init /\ [][Next]_vars

(***************************************************************************)
(* Properties                                                              *)
(***************************************************************************)

TypeOK ==
    /\ opened \subseteq {Session, Mount, PhotoMount} /\ owns \in [Users -> SUBSET {Session, Mount}]
    /\ unowned \subseteq {Session, PhotoMount} /\ at \in [Users -> Places]
    /\ phase \in {"run", "join server", "join importer", "release", "done"}
    /\ lent \in BOOLEAN /\ ready \in BOOLEAN /\ space \in BOOLEAN
    /\ boot \in [Threads -> {"no", "checked", "allocated", "created"}] /\ replaced \in Nat
    /\ rows \subseteq Media /\ files \subseteq Media /\ song \in Songs \cup {0} /\ changes \in Nat
    /\ srv \in {"idle", "count", "allocate", "row", "sidecar", "built", "failed"}
    /\ k \in 1 .. 3 /\ counts \in [1 .. 3 -> Nat] /\ capacity \in Nat /\ cursor \in Nat
    /\ catalog \in Seq([id : Media \cup {0}, sidecar : BOOLEAN])
    /\ quiet \in BOOLEAN /\ faulted \in BOOLEAN

\* What is open was opened by one of UI, importer and audit, which is going to close it, or
\* was left by a photo import: whoever borrowed and whatever failed, nobody closes what another
\* opened, and after the exit nothing is open but what photo imports left.  A song is imported
\* with session and mount open to the end, though they may be the UI's, which releases them at
\* the exit only after it joined the importer.  Two lenders give no such guarantee: the audit,
\* and a UI that has the session and fails to mount.
AccessIsKept ==
    /\ opened = unowned \cup UNION {owns[u] : u \in Users}
    /\ \A u \in Users : owns[u] \cap unowned = {}
    /\ \A u, v \in Users : u # v => owns[u] \cap owns[v] = {}
    /\ \A u \in Users : at[u] \notin {"mount", "in", "shutdown"} => owns[u] = {}
    /\ phase = "done" => opened = unowned
    /\ at["importer"] = "in" => {Session, Mount} \subseteq opened \/ lent

\* The race for db_space ends: once SQLite is ready the arena it allocates from is replaced at
\* most once, by the one thread that had passed the tests of ready and db_space before, and
\* never after that thread is through.
ArenaSettles ==
    IF ready THEN replaced + Cardinality({t \in Threads : boot[t] \in {"checked", "allocated"}}) <= 1
             ELSE replaced = 0

\* The catalogue is never written past its block, although it was sized by an earlier count,
\* and a sidecar stands behind its video.
CatalogFits ==
    /\ Len(catalog) <= capacity
    /\ \A i \in DOMAIN catalog : catalog[i].sidecar => i > 1 /\ catalog[i - 1] = Entry(catalog[i].id)

\* What the catalogue is to hold: the media with a row and a file, and the sidecars.
Present == {Entry(m) : m \in rows \cap files} \cup {Sidecar(m) : m \in rows \cap files \cap Subtitled}
Shelf(m) == IF m \in Photos THEN 1 ELSE IF m \in Songs THEN 2 ELSE 3
Before(e, f) ==
    \/ Shelf(e.id) < Shelf(f.id)
    \/ Shelf(e.id) = Shelf(f.id) /\ e.id < f.id
    \/ e.id = f.id /\ ~e.sidecar /\ f.sidecar
Listed == {catalog[i] : i \in 4 .. Len(catalog)}
InOrder == \A i, j \in 4 .. Len(catalog) : i < j => Before(catalog[i], catalog[j])

\* While the libraries stay as they are, a catalogue is built unless memory, a query or a
\* name fails it, and behind its folders it holds every medium that has a file once, photos,
\* songs and videos in this order and each by its number, a sidecar behind its video.
QuietBuildIsComplete ==
    quiet => /\ srv = "built" => SubSeq(catalog, 1, 3) = Folders /\ Listed = Present /\ InOrder
             /\ srv = "failed" => faulted \/ BadNames \cap rows \cap files # {}
=============================================================================
