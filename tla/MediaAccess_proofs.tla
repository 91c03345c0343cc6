-------------------------- MODULE MediaAccess_proofs --------------------------
(***************************************************************************)
(* Proofs about MediaAccess for any libraries, any number of media and any *)
(* interleaving of UI, importer and server.                                *)
(*                                                                         *)
(* The three concerns of the module are independent, and so are their      *)
(* strengthenings: who holds session and mount at which place of which     *)
(* thread (PlacesInv), how far initialize_database is (BootInv), and what  *)
(* the catalogue holds at which place of the enumeration (SidecarInv,      *)
(* QuietInv).                                                              *)
(***************************************************************************)
EXTENDS MediaAccess, FiniteSetTheorems, SequenceTheorems, TLAPS

(* The importer's session or mount is its own, that of a UI that keeps it  *)
(* until the exit, or one that a photo import left.                        *)
Kept(what) ==
  what \in owns["importer"] \cup unowned \/ (what \in owns["ui"] /\ at["ui"] = "in")

(* What each user owns at each place, and where each may be at the exit.   *)
PlacesInv ==
  /\ \A u \in Users : at[u] \in {"mount", "shutdown"} => owns[u] \subseteq {Session}
  /\ at["ui"] = "mount" => owns["ui"] = {Session}
  /\ at["ui"] = "in" => owns["ui"] = {Session, Mount}
  /\ phase # "run" => at["ui"] \in {"out", "in", "shutdown"}
  /\ at["ui"] = "shutdown" => phase = "release"
  /\ phase \in {"join importer", "release", "done"} => at["audit"] = "out"
  /\ phase \in {"release", "done"} => at["importer"] = "out"
  /\ phase = "done" => at["ui"] = "out"
  /\ at["importer"] \in {"mount", "in"} /\ ~lent => Kept(Session)
  /\ at["importer"] = "in" /\ ~lent => Kept(Mount)

(* The threads that passed the tests and may still assign db_space.        *)
Inside == {t \in Threads : boot[t] \in {"checked", "allocated"}}

(* Two threads: once SQLite is ready either db_space was replaced and       *)
(* nobody is inside, or it was not and at most one is.                      *)
BootInv ==
  IF ready THEN /\ replaced \in {0, 1}
                /\ replaced = 1 => Inside = {}
                /\ \A t, o \in Inside : t = o
           ELSE replaced = 0

(* Where a sidecar is due its video is the last entry; before the           *)
(* allocation there is no catalogue.                                        *)
SidecarInv ==
  /\ srv = "sidecar" => /\ Len(catalog) > 3 /\ catalog[Len(catalog)] = Entry(cursor)
                        /\ k = 3 /\ cursor \in Subtitled
  /\ srv \in {"idle", "count", "allocate"} => catalog = <<>> /\ capacity = 0 /\ cursor = 0
  /\ srv = "allocate" => k = 1
  /\ srv \in {"row", "sidecar", "built"} =>
       Len(catalog) >= 3 /\ \A i \in 1 .. 3 : catalog[i] = Folders[i]

(* What has been enumerated so far.                                        *)
Reached(e) ==
  \/ Shelf(e.id) < k
  \/ Shelf(e.id) = k /\ e.id <= cursor /\ ~(srv = "sidecar" /\ e.id = cursor /\ e.sidecar)

(* The size of a library's part, and of the block they need.               *)
Size(l) == Cardinality(rows \cap Library[l])

(* While the libraries do not change: the counts are true, the catalogue is *)
(* the part of the media that was enumerated, and a name is the only reason *)
(* to fail that no call gave.                                               *)
SoFar ==
  /\ srv = "count" => \A l \in 1 .. k - 1 : counts[l] = Size(l)
  /\ srv = "allocate" => \A l \in 1 .. 3 : counts[l] = Size(l)
  /\ srv \in {"row", "sidecar"} => /\ capacity = 3 + Size(1) + Size(2) + 2 * Size(3)
                                   /\ Listed = {e \in Present : Reached(e)}
                                   /\ InOrder
  /\ srv = "sidecar" => cursor \in rows \cap files
  /\ srv = "built" => Listed = Present /\ InOrder
NameRefused == BadNames \cap rows \cap files # {}
QuietInv == quiet => SoFar /\ (srv = "failed" => faulted \/ NameRefused)

-----------------------------------------------------------------------------
(* Session and mount.                                                      *)

(* The part of AccessIsKept that says who has to close what is open.       *)
Owned ==
  /\ opened = unowned \cup UNION {owns[u] : u \in Users}
  /\ \A u \in Users : owns[u] \cap unowned = {}
  /\ \A u, v \in Users : u # v => owns[u] \cap owns[v] = {}

(* The types of what the three users share.                                *)
AccessType ==
  /\ opened \subseteq {Session, Mount, PhotoMount} /\ owns \in [Users -> SUBSET {Session, Mount}]
  /\ unowned \subseteq {Session, PhotoMount} /\ at \in [Users -> Places]
  /\ phase \in {"run", "join server", "join importer", "release", "done"}
  /\ lent \in BOOLEAN

(* Three users, so the union has three parts.                              *)
LEMMA UnionOfUsers ==
  UNION {owns[u] : u \in Users} = owns["ui"] \cup owns["importer"] \cup owns["audit"]
  BY DEF Users

(* Who owns what is about these three variables only.                      *)
LEMMA OwnedFrame ==
  ASSUME Owned, UNCHANGED <<opened, owns, unowned>>
  PROVE  Owned'
<1>1. opened' = opened /\ owns' = owns /\ unowned' = unowned
  OBVIOUS
<1> QED
  BY <1>1, Zenon DEF Owned

(* Opening what is closed gives it an owner.                               *)
LEMMA OpensOwned ==
  ASSUME AccessType, Owned, NEW u \in Users, NEW what \in {Session, Mount}, Opens(u, what),
         unowned' = unowned
  PROVE  Owned' /\ owns'[u] = owns[u] \cup {what} /\ what \in opened'
         /\ opened' \subseteq {Session, Mount, PhotoMount} /\ owns' \in [Users -> SUBSET {Session, Mount}]
         /\ (\A v \in Users \ {u} : owns'[v] = owns[v] /\ what \notin owns[v])
<1>1. /\ what \notin opened /\ opened' = opened \cup {what}
      /\ owns' = [owns EXCEPT ![u] = @ \cup {what}]
  BY DEF Opens
<1>2. \A v \in Users : owns'[v] = IF v = u THEN owns[v] \cup {what} ELSE owns[v]
  BY <1>1 DEF AccessType
<1>3. what \notin unowned /\ \A v \in Users : what \notin owns[v]
  BY <1>1 DEF Owned
<1>4. opened' = unowned' \cup UNION {owns'[v] : v \in Users}
  BY <1>1, <1>2 DEF Owned
<1>5. \A v, w \in Users : v # w => owns'[v] \cap owns'[w] = {}
  BY <1>2, <1>3 DEF Owned
<1>8. \A v \in Users : owns'[v] \cap unowned' = {}
  BY <1>2, <1>3 DEF Owned
<1>6. Owned'
  BY <1>4, <1>5, <1>8 DEF Owned
<1>7. owns' \in [Users -> SUBSET {Session, Mount}] /\ opened' \subseteq {Session, Mount, PhotoMount}
  BY <1>1 DEF AccessType
<1> QED
  BY <1>1, <1>2, <1>3, <1>6, <1>7

(* Closing what one owns takes it from nobody else.                        *)
LEMMA ClosesOwned ==
  ASSUME AccessType, Owned, NEW u \in Users, NEW what \in {Session, Mount}, Closes(u, what),
         unowned' = unowned
  PROVE  Owned' /\ owns'[u] = owns[u] \ {what}
         /\ opened' \subseteq {Session, Mount, PhotoMount} /\ owns' \in [Users -> SUBSET {Session, Mount}]
         /\ (\A v \in Users \ {u} : owns'[v] = owns[v])
<1>1. CASE what \in owns[u]
  <2>1. opened' = opened \ {what} /\ owns' = [owns EXCEPT ![u] = @ \ {what}]
    BY <1>1 DEF Closes
  <2>2. \A v \in Users : owns'[v] = IF v = u THEN owns[v] \ {what} ELSE owns[v]
    BY <2>1 DEF AccessType
  <2>3. what \notin unowned /\ \A v \in Users \ {u} : what \notin owns[v]
    BY <1>1 DEF Owned
  <2>7. \A v \in Users : owns'[v] \cap unowned' = {}
    BY <2>2 DEF Owned
  <2>4. opened' = unowned' \cup UNION {owns'[v] : v \in Users}
    BY <2>1, <2>2, <2>3 DEF Owned
  <2>5. \A v, w \in Users : v # w => owns'[v] \cap owns'[w] = {}
    BY <2>2 DEF Owned
  <2>6. owns' \in [Users -> SUBSET {Session, Mount}] /\ opened' \subseteq {Session, Mount, PhotoMount}
    BY <2>1 DEF AccessType
  <2> QED
    BY <2>2, <2>4, <2>5, <2>6, <2>7 DEF Owned
<1>2. CASE what \notin owns[u]
  <2>1. UNCHANGED <<opened, owns>> /\ owns[u] = owns[u] \ {what}
    BY <1>2 DEF Closes
  <2> QED
    BY <2>1, OwnedFrame DEF AccessType
<1> QED
  BY <1>1, <1>2

(* The rest of AccessIsKept with the strengthening.                        *)
AtRest == \A u \in Users : at[u] \notin {"mount", "in", "shutdown"} => owns[u] = {}
AccessInv == AccessType /\ Owned /\ AtRest /\ PlacesInv

(* EnsureMusicAccess on the UI thread.                                     *)
LEMMA EnsureKeeps ==
  ASSUME AccessInv, EnsureMusicAccess
  PROVE  AccessInv'
<1> USE DEF AccessInv, Places
<1>0. UNCHANGED <<unowned, lent, phase>> /\ at \in [Users -> Places]
  BY DEF EnsureMusicAccess, AccessType
<1>1. CASE at["ui"] = "out" /\ phase = "run" /\ Go("ui", "init") /\ UNCHANGED <<opened, owns>>
  <2>1. Owned' /\ AccessType'
    BY <1>0, <1>1, OwnedFrame DEF AccessType, Go
  <2> QED
    BY <1>0, <1>1, <2>1 DEF AtRest, PlacesInv, Kept, Go, Users
<1>2. CASE at["ui"] = "init" /\ Opens("ui", Session) /\ Go("ui", "mount")
  <2>1. /\ Owned' /\ owns'["ui"] = owns["ui"] \cup {Session}
        /\ opened' \subseteq {Session, Mount, PhotoMount} /\ owns' \in [Users -> SUBSET {Session, Mount}]
        /\ (\A v \in Users \ {"ui"} : owns'[v] = owns[v])
    BY <1>0, <1>2, OpensOwned DEF Users
  <2>2. at' = [at EXCEPT !["ui"] = "mount"]
    BY <1>2 DEF Go
  <2> QED
    BY <1>0, <1>2, <2>1, <2>2 DEF AccessType, AtRest, PlacesInv, Kept, Users, Session, Mount
<1>3. CASE at["ui"] = "init" /\ Go("ui", "out") /\ UNCHANGED <<opened, owns>>
  <2>1. Owned' /\ AccessType'
    BY <1>0, <1>3, OwnedFrame DEF AccessType, Go
  <2> QED
    BY <1>0, <1>3, <2>1 DEF AtRest, PlacesInv, Kept, Go, Users
<1>4. CASE at["ui"] = "mount" /\ Opens("ui", Mount) /\ Go("ui", "in")
  <2>1. /\ Owned' /\ owns'["ui"] = owns["ui"] \cup {Mount}
        /\ opened' \subseteq {Session, Mount, PhotoMount} /\ owns' \in [Users -> SUBSET {Session, Mount}]
        /\ (\A v \in Users \ {"ui"} : owns'[v] = owns[v])
    BY <1>0, <1>4, OpensOwned DEF Users
  <2>2. at' = [at EXCEPT !["ui"] = "in"]
    BY <1>4 DEF Go
  <2> QED
    BY <1>0, <1>4, <2>1, <2>2 DEF AccessType, AtRest, PlacesInv, Kept, Users, Session, Mount
<1>5. CASE at["ui"] = "mount" /\ Shuts("ui") /\ Go("ui", "out")
  <2>1. /\ Owned' /\ owns'["ui"] = owns["ui"] \ {Session}
        /\ opened' \subseteq {Session, Mount, PhotoMount} /\ owns' \in [Users -> SUBSET {Session, Mount}]
        /\ (\A v \in Users \ {"ui"} : owns'[v] = owns[v])
    BY <1>0, <1>5, ClosesOwned DEF Users, Shuts
  <2>2. at' = [at EXCEPT !["ui"] = "out"]
    BY <1>5 DEF Go
  <2> QED
    BY <1>0, <1>5, <2>1, <2>2 DEF AccessType, AtRest, PlacesInv, Kept, Users, Session, Mount
<1> QED
  BY <1>1, <1>2, <1>3, <1>4, <1>5 DEF EnsureMusicAccess

(* mount_music_for_file_import, which borrows what is open.                *)
LEMMA MountKeeps ==
  ASSUME AccessInv, mount_music_for_file_import
  PROVE  AccessInv'
<1> USE DEF AccessInv, Places
<1>0. UNCHANGED <<unowned, phase>> /\ at \in [Users -> Places]
  BY DEF mount_music_for_file_import, AccessType
<1>1. CASE at["importer"] = "out" /\ phase \notin {"release", "done"} /\ Go("importer", "init")
           /\ lent' = FALSE /\ UNCHANGED <<opened, owns>>
  <2>1. Owned' /\ AccessType'
    BY <1>0, <1>1, OwnedFrame DEF AccessType, Go
  <2> QED
    BY <1>0, <1>1, <2>1 DEF AtRest, PlacesInv, Kept, Go, Users
<1>2. CASE at["importer"] = "init" /\ Opens("importer", Session) /\ Go("importer", "mount")
           /\ UNCHANGED lent
  <2>1. /\ Owned' /\ owns'["importer"] = owns["importer"] \cup {Session}
        /\ opened' \subseteq {Session, Mount, PhotoMount} /\ owns' \in [Users -> SUBSET {Session, Mount}]
        /\ (\A v \in Users \ {"importer"} : owns'[v] = owns[v])
    BY <1>0, <1>2, OpensOwned DEF Users
  <2>2. at' = [at EXCEPT !["importer"] = "mount"]
    BY <1>2 DEF Go
  <2> QED
    BY <1>0, <1>2, <2>1, <2>2 DEF AccessType, AtRest, PlacesInv, Kept, Users, Session, Mount
<1>3. CASE at["importer"] = "init" /\ Borrows(Session) /\ Go("importer", "mount")
  <2>1. /\ Session \in opened /\ UNCHANGED <<opened, owns>> /\ lent' \in BOOLEAN
        /\ ~lent' => ~lent /\ Session \notin owns["audit"]
                     /\ (Session \in owns["ui"] => at["ui"] = "in")
    BY <1>3 DEF Borrows
  <2>2. Owned' /\ AccessType'
    BY <1>0, <1>3, <2>1, OwnedFrame DEF AccessType, Go
  <2>3. ~lent' => Kept(Session)
    BY <2>1, UnionOfUsers DEF Owned, Kept
  <2> QED
    BY <1>0, <1>3, <2>1, <2>2, <2>3 DEF AtRest, PlacesInv, Kept, Go, Users
<1>4. CASE at["importer"] \in {"init", "mount"} /\ Go("importer", "out")
           /\ (UNCHANGED <<opened, owns>> \/ Shuts("importer")) /\ UNCHANGED lent
           /\ (at["importer"] = "mount" => Shuts("importer"))
  <2>1. CASE Shuts("importer")
    <3>1. /\ Owned' /\ owns'["importer"] = owns["importer"] \ {Session}
          /\ opened' \subseteq {Session, Mount, PhotoMount} /\ owns' \in [Users -> SUBSET {Session, Mount}]
          /\ (\A v \in Users \ {"importer"} : owns'[v] = owns[v])
      BY <1>0, <2>1, ClosesOwned DEF Users, Shuts
    <3> QED
      BY <1>0, <1>4, <3>1 DEF AccessType, AtRest, PlacesInv, Kept, Go, Users, Session, Mount
  <2>2. CASE at["importer"] = "init" /\ UNCHANGED <<opened, owns>>
    <3>1. Owned' /\ AccessType'
      BY <1>0, <1>4, <2>2, OwnedFrame DEF AccessType, Go
    <3> QED
      BY <1>0, <1>4, <2>2, <3>1 DEF AtRest, PlacesInv, Kept, Go, Users
  <2> QED
    BY <1>4, <2>1, <2>2
<1>5. CASE at["importer"] = "mount" /\ Opens("importer", Mount) /\ Go("importer", "in")
           /\ UNCHANGED lent
  <2>1. /\ Owned' /\ owns'["importer"] = owns["importer"] \cup {Mount}
        /\ opened' \subseteq {Session, Mount, PhotoMount} /\ owns' \in [Users -> SUBSET {Session, Mount}]
        /\ (\A v \in Users \ {"importer"} : owns'[v] = owns[v])
    BY <1>0, <1>5, OpensOwned DEF Users
  <2>2. at' = [at EXCEPT !["importer"] = "in"]
    BY <1>5 DEF Go
  <2> QED
    BY <1>0, <1>5, <2>1, <2>2 DEF AccessType, AtRest, PlacesInv, Kept, Users, Session, Mount
<1>6. CASE at["importer"] = "mount" /\ Borrows(Mount) /\ Go("importer", "in")
  <2>1. /\ Mount \in opened /\ UNCHANGED <<opened, owns>> /\ lent' \in BOOLEAN
        /\ ~lent' => ~lent /\ Mount \notin owns["audit"]
                     /\ (Mount \in owns["ui"] => at["ui"] = "in")
    BY <1>6 DEF Borrows
  <2>2. Owned' /\ AccessType'
    BY <1>0, <1>6, <2>1, OwnedFrame DEF AccessType, Go
  <2>3. ~lent' => Kept(Mount)
    BY <2>1, UnionOfUsers DEF Owned, Kept
  <2> QED
    BY <1>0, <1>6, <2>1, <2>2, <2>3 DEF AtRest, PlacesInv, Kept, Go, Users
<1> QED
  BY <1>1, <1>2, <1>3, <1>4, <1>5, <1>6 DEF mount_music_for_file_import

(* The importer around the exporters: a photo leaves session and mount.     *)
LEMMA SyncKeeps ==
  ASSUME AccessInv, vcm_sync_import
  PROVE  AccessInv'
<1> USE DEF AccessInv, Places
<1>0. UNCHANGED <<owns, lent, phase>> /\ at \in [Users -> Places]
  BY DEF vcm_sync_import, AccessType
<1>1. CASE /\ UNCHANGED <<opened, unowned>>
           /\ \/ /\ at["importer"] = "out" /\ phase \notin {"release", "done"}
                 /\ Go("importer", "export")
              \/ /\ at["importer"] \in {"export", "photo init", "photo mount", "verify"}
                 /\ \E place \in {"out", "photo init", "photo mount", "verify"} :
                      Go("importer", place)
  <2>1. Owned'
    BY <1>0, <1>1, OwnedFrame
  <2>2. PICK place \in {"out", "export", "photo init", "photo mount", "verify"} :
          /\ at' = [at EXCEPT !["importer"] = place]
          /\ at["importer"] \in {"out", "export", "photo init", "photo mount", "verify"}
          /\ phase \notin {"release", "done"}
    BY <1>1 DEF Go, PlacesInv
  <2>3. AccessType'
    BY <1>0, <1>1, <2>2 DEF AccessType
  <2> QED
    BY <1>0, <1>1, <2>1, <2>2, <2>3 DEF AtRest, PlacesInv, Kept, Users
<1>2. CASE /\ at["importer"] \in {"photo init", "photo mount"}
           /\ \E what \in {Session, PhotoMount} : what \notin opened /\ OpensForGood(what)
           /\ \E place \in {"photo mount", "verify"} : Go("importer", place)
  <2>1. PICK what \in {Session, PhotoMount} :
          /\ what \notin opened /\ opened' = opened \cup {what} /\ unowned' = unowned \cup {what}
    BY <1>2 DEF OpensForGood
  <2>2. PICK place \in {"photo mount", "verify"} : at' = [at EXCEPT !["importer"] = place]
    BY <1>2 DEF Go
  <2>3. \A u \in Users : what \notin owns[u]
    BY <2>1 DEF Owned
  <2>4. Owned'
    <3>1. opened' = unowned' \cup UNION {owns'[u] : u \in Users}
      BY <1>0, <2>1 DEF Owned
    <3>2. \A u \in Users : owns'[u] \cap unowned' = {}
      BY <1>0, <2>1, <2>3 DEF Owned
    <3>3. \A u, v \in Users : u # v => owns'[u] \cap owns'[v] = {}
      BY <1>0 DEF Owned
    <3> QED
      BY <3>1, <3>2, <3>3 DEF Owned
  <2>5. AccessType'
    BY <1>0, <2>1, <2>2 DEF AccessType
  <2> QED
    BY <1>0, <1>2, <2>1, <2>2, <2>4, <2>5 DEF AtRest, PlacesInv, Kept, Users
<1>3. CASE at["importer"] = "out"
  BY <1>1, <1>3 DEF vcm_sync_import
<1>4. CASE at["importer"] = "export"
  <2>1. UNCHANGED <<opened, unowned>>
    BY <1>4 DEF vcm_sync_import
  <2>2. \E place \in {"out", "photo init", "verify"} : Go("importer", place)
    BY <1>4 DEF vcm_sync_import
  <2> QED
    BY <1>1, <1>4, <2>1, <2>2
<1>5. CASE at["importer"] = "photo init"
  <2>1. Go("importer", "photo mount")
    BY <1>5 DEF vcm_sync_import
  <2>2. (Session \notin opened /\ OpensForGood(Session)) \/ UNCHANGED <<opened, unowned>>
    BY <1>5 DEF vcm_sync_import
  <2> QED
    BY <1>1, <1>2, <1>5, <2>1, <2>2
<1>6. CASE at["importer"] = "photo mount"
  <2>1. Go("importer", "verify")
    BY <1>6 DEF vcm_sync_import
  <2>2. (PhotoMount \notin opened /\ OpensForGood(PhotoMount)) \/ UNCHANGED <<opened, unowned>>
    BY <1>6 DEF vcm_sync_import
  <2> QED
    BY <1>1, <1>2, <1>6, <2>1, <2>2
<1>7. CASE at["importer"] = "verify"
  BY <1>1, <1>7 DEF vcm_sync_import
<1> QED
  BY <1>3, <1>4, <1>5, <1>6, <1>7 DEF vcm_sync_import

(* The audit works with whatever it got.                                   *)
LEMMA AuditKeeps ==
  ASSUME AccessInv, vcm_library_audit_music
  PROVE  AccessInv'
<1> USE DEF AccessInv, Places
<1>0. UNCHANGED <<unowned, lent, phase>> /\ at \in [Users -> Places]
  BY DEF vcm_library_audit_music, AccessType
<1>1. CASE /\ UNCHANGED <<opened, owns>>
           /\ \/ at["audit"] = "out" /\ phase \in {"run", "join server"} /\ Go("audit", "init")
              \/ at["audit"] \in {"init", "mount"} /\ Go("audit", "in")
  <2>1. Owned' /\ AccessType'
    BY <1>0, <1>1, OwnedFrame DEF AccessType, Go
  <2> QED
    BY <1>0, <1>1, <2>1 DEF AtRest, PlacesInv, Kept, Go, Users
<1>2. CASE at["audit"] = "init" /\ Opens("audit", Session) /\ Go("audit", "mount")
  <2>1. /\ Owned' /\ owns'["audit"] = owns["audit"] \cup {Session}
        /\ opened' \subseteq {Session, Mount, PhotoMount} /\ owns' \in [Users -> SUBSET {Session, Mount}]
        /\ (\A v \in Users \ {"audit"} : owns'[v] = owns[v])
    BY <1>0, <1>2, OpensOwned DEF Users
  <2>2. at' = [at EXCEPT !["audit"] = "mount"]
    BY <1>2 DEF Go
  <2> QED
    BY <1>0, <1>2, <2>1, <2>2 DEF AccessType, AtRest, PlacesInv, Kept, Users, Session, Mount
<1>3. CASE at["audit"] = "mount" /\ Opens("audit", Mount) /\ Go("audit", "in")
  <2>1. /\ Owned' /\ owns'["audit"] = owns["audit"] \cup {Mount}
        /\ opened' \subseteq {Session, Mount, PhotoMount} /\ owns' \in [Users -> SUBSET {Session, Mount}]
        /\ (\A v \in Users \ {"audit"} : owns'[v] = owns[v])
    BY <1>0, <1>3, OpensOwned DEF Users
  <2>2. at' = [at EXCEPT !["audit"] = "in"]
    BY <1>3 DEF Go
  <2> QED
    BY <1>0, <1>3, <2>1, <2>2 DEF AccessType, AtRest, PlacesInv, Kept, Users, Session, Mount
<1> QED
  BY <1>1, <1>2, <1>3 DEF vcm_library_audit_music

(* Importer and audit close what they own.                                 *)
LEMMA LeavesKeeps ==
  ASSUME AccessInv, NEW u \in {"importer", "audit"}, Leaves(u)
  PROVE  AccessInv'
<1> USE DEF AccessInv, Places
<1>0. UNCHANGED <<unowned, lent, phase>> /\ at \in [Users -> Places]
  BY DEF Leaves, AccessType
<1>1. CASE at[u] = "in" /\ Closes(u, Mount) /\ Go(u, "shutdown")
  <2>1. /\ Owned' /\ owns'[u] = owns[u] \ {Mount}
        /\ opened' \subseteq {Session, Mount, PhotoMount} /\ owns' \in [Users -> SUBSET {Session, Mount}]
        /\ (\A v \in Users \ {u} : owns'[v] = owns[v])
    BY <1>0, <1>1, ClosesOwned DEF Users
  <2>2. /\ at' \in [Users -> Places] /\ at'[u] = "shutdown"
        /\ \A v \in Users \ {u} : at'[v] = at[v]
    BY <1>0, <1>1 DEF Go, Users
  <2>3. AccessType'
    BY <1>0, <2>1, <2>2 DEF AccessType
  <2>4. owns \in [Users -> SUBSET {Session, Mount}]
    BY DEF AccessType
  <2>5. CASE u = "importer"
    <3>1. /\ at'["importer"] = "shutdown" /\ at'["ui"] = at["ui"] /\ at'["audit"] = at["audit"]
          /\ owns'["importer"] = owns["importer"] \ {Mount} /\ owns'["ui"] = owns["ui"]
          /\ owns'["audit"] = owns["audit"]
      BY <2>1, <2>2, <2>5 DEF Users
    <3>2. AtRest'
      BY <1>1, <2>4, <2>5, <3>1 DEF AtRest, PlacesInv, Users, Session, Mount
    <3>3. PlacesInv'
      BY <1>0, <1>1, <2>4, <2>5, <3>1 DEF PlacesInv, Kept, Users, Session, Mount
    <3> QED
      BY <2>1, <2>3, <3>2, <3>3
  <2>6. CASE u = "audit"
    <3>1. /\ at'["audit"] = "shutdown" /\ at'["ui"] = at["ui"] /\ at'["importer"] = at["importer"]
          /\ owns'["audit"] = owns["audit"] \ {Mount} /\ owns'["ui"] = owns["ui"]
          /\ owns'["importer"] = owns["importer"]
      BY <2>1, <2>2, <2>6 DEF Users
    <3>2. AtRest'
      BY <1>1, <2>4, <2>6, <3>1 DEF AtRest, PlacesInv, Users, Session, Mount
    <3>3. PlacesInv'
      BY <1>0, <1>1, <2>4, <2>6, <3>1 DEF PlacesInv, Kept, Users, Session, Mount
    <3> QED
      BY <2>1, <2>3, <3>2, <3>3
  <2> QED
    BY <2>5, <2>6
<1>2. CASE at[u] = "shutdown" /\ Shuts(u) /\ Go(u, "out")
  <2>1. /\ Owned' /\ owns'[u] = owns[u] \ {Session}
        /\ opened' \subseteq {Session, Mount, PhotoMount} /\ owns' \in [Users -> SUBSET {Session, Mount}]
        /\ (\A v \in Users \ {u} : owns'[v] = owns[v])
    BY <1>0, <1>2, ClosesOwned DEF Users, Shuts
  <2>2. /\ at' \in [Users -> Places] /\ at'[u] = "out"
        /\ \A v \in Users \ {u} : at'[v] = at[v]
    BY <1>0, <1>2 DEF Go, Users
  <2>3. AccessType'
    BY <1>0, <2>1, <2>2 DEF AccessType
  <2>4. owns \in [Users -> SUBSET {Session, Mount}]
    BY DEF AccessType
  <2>5. CASE u = "importer"
    <3>1. /\ at'["importer"] = "out" /\ at'["ui"] = at["ui"] /\ at'["audit"] = at["audit"]
          /\ owns'["importer"] = owns["importer"] \ {Session} /\ owns'["ui"] = owns["ui"]
          /\ owns'["audit"] = owns["audit"]
      BY <2>1, <2>2, <2>5 DEF Users
    <3>2. AtRest'
      BY <1>2, <2>4, <2>5, <3>1 DEF AtRest, PlacesInv, Users, Session, Mount
    <3>3. PlacesInv'
      BY <1>0, <1>2, <2>4, <2>5, <3>1 DEF PlacesInv, Kept, Users, Session, Mount
    <3> QED
      BY <2>1, <2>3, <3>2, <3>3
  <2>6. CASE u = "audit"
    <3>1. /\ at'["audit"] = "out" /\ at'["ui"] = at["ui"] /\ at'["importer"] = at["importer"]
          /\ owns'["audit"] = owns["audit"] \ {Session} /\ owns'["ui"] = owns["ui"]
          /\ owns'["importer"] = owns["importer"]
      BY <2>1, <2>2, <2>6 DEF Users
    <3>2. AtRest'
      BY <1>2, <2>4, <2>6, <3>1 DEF AtRest, PlacesInv, Users, Session, Mount
    <3>3. PlacesInv'
      BY <1>0, <1>2, <2>4, <2>6, <3>1 DEF PlacesInv, Kept, Users, Session, Mount
    <3> QED
      BY <2>1, <2>3, <3>2, <3>3
  <2> QED
    BY <2>5, <2>6
<1> QED
  BY <1>1, <1>2 DEF Leaves

(* The exit joins the importer before it releases what it may have lent.   *)
LEMMA ExitKeeps ==
  ASSUME AccessInv, Exit
  PROVE  AccessInv'
<1> USE DEF AccessInv, Places
<1>0. UNCHANGED <<unowned, lent>> /\ at \in [Users -> Places]
  BY DEF Exit, AccessType
<1>1. CASE /\ UNCHANGED <<opened, owns, at>>
           /\ \/ phase = "run" /\ at["ui"] \in {"out", "in"} /\ phase' = "join server"
              \/ phase = "join server" /\ at["audit"] = "out" /\ phase' = "join importer"
              \/ phase = "join importer" /\ at["importer"] = "out" /\ phase' = "release"
  <2>1. Owned' /\ AccessType'
    BY <1>0, <1>1, OwnedFrame DEF AccessType
  <2> QED
    BY <1>0, <1>1, <2>1 DEF AtRest, PlacesInv, Kept, Users
<1>2. CASE phase = "release" /\ at["ui"] = "in" /\ Closes("ui", Mount) /\ Go("ui", "shutdown")
           /\ UNCHANGED phase
  <2>1. /\ Owned' /\ owns'["ui"] = owns["ui"] \ {Mount}
        /\ opened' \subseteq {Session, Mount, PhotoMount} /\ owns' \in [Users -> SUBSET {Session, Mount}]
        /\ (\A v \in Users \ {"ui"} : owns'[v] = owns[v])
    BY <1>0, <1>2, ClosesOwned DEF Users, Shuts
  <2>2. at' = [at EXCEPT !["ui"] = "shutdown"]
    BY <1>2 DEF Go
  <2> QED
    BY <1>0, <1>2, <2>1, <2>2 DEF AccessType, AtRest, PlacesInv, Kept, Users, Session, Mount
<1>3. CASE phase = "release" /\ at["ui"] # "in" /\ Shuts("ui") /\ Go("ui", "out")
           /\ phase' = "done"
  <2>1. /\ Owned' /\ owns'["ui"] = owns["ui"] \ {Session}
        /\ opened' \subseteq {Session, Mount, PhotoMount} /\ owns' \in [Users -> SUBSET {Session, Mount}]
        /\ (\A v \in Users \ {"ui"} : owns'[v] = owns[v])
    BY <1>0, <1>3, ClosesOwned DEF Users, Shuts
  <2>2. at' = [at EXCEPT !["ui"] = "out"]
    BY <1>3 DEF Go
  <2> QED
    BY <1>0, <1>3, <2>1, <2>2 DEF AccessType, AtRest, PlacesInv, Kept, Users, Session, Mount
<1> QED
  BY <1>1, <1>2, <1>3 DEF Exit, ReleaseMusicAccess

(* Every other step leaves session and mount alone.                        *)
LEMMA AccessStep == AccessInv /\ [Next]_vars => AccessInv'
<1> SUFFICES ASSUME AccessInv, [Next]_vars PROVE AccessInv'
  OBVIOUS
<1>1. CASE UNCHANGED <<opened, owns, unowned, at, lent, phase>>
  <2>1. Owned'
    BY <1>1, OwnedFrame DEF AccessInv
  <2>2. AccessType' /\ AtRest' /\ PlacesInv'
    BY <1>1, Zenon DEF AccessInv, AccessType, AtRest, PlacesInv, Kept
  <2> QED
    BY <2>1, <2>2 DEF AccessInv
<1>2. CASE \/ \E t \in Threads : initialize_database(t)
           \/ ImportSong \/ MediaChange \/ BuildBegins \/ Build \/ Done \/ UNCHANGED vars
  BY <1>1, <1>2 DEF initialize_database, ImportSong, MediaChange, BuildBegins, Build, Done, vars,
                    access
<1> QED
  BY <1>2, EnsureKeeps, MountKeeps, SyncKeeps, AuditKeeps, LeavesKeeps, ExitKeeps DEF Next

(* The inductive invariant holds.                                          *)
LEMMA AccessInvariance == Spec => []AccessInv
<1>1. Init => AccessInv
  <2> SUFFICES ASSUME Init PROVE AccessInv
    OBVIOUS
  <2>1. Owned /\ AccessType /\ AtRest
    BY DEF Init, Owned, AccessType, AtRest, Users, Places
  <2>2. PlacesInv
    BY DEF Init, PlacesInv, Kept, Users
  <2> QED
    BY <2>1, <2>2 DEF AccessInv
<1> QED
  BY <1>1, AccessStep, PTL DEF Spec

(* What is open is going to be closed by the one of UI, importer and audit  *)
(* that opened it, or was left by a photo import; after the exit nothing    *)
(* but that is open, and a song is imported with session and mount to its   *)
(* end, unless it borrowed from the audit or from a UI that had not mounted *)
(* yet.                                                                     *)
THEOREM AccessKept == Spec => []AccessIsKept
<1>1. AccessInv => AccessIsKept
  <2> SUFFICES ASSUME AccessInv PROVE AccessIsKept
    OBVIOUS
  <2>1. phase = "done" => opened = unowned
    <3> SUFFICES ASSUME phase = "done" PROVE opened = unowned
      OBVIOUS
    <3>1. \A u \in Users : at[u] = "out"
      BY DEF AccessInv, PlacesInv, Users
    <3>2. \A u \in Users : owns[u] = {}
      BY <3>1 DEF AccessInv, AtRest
    <3> QED
      BY <3>2 DEF AccessInv, Owned
  <2>2. at["importer"] = "in" => {Session, Mount} \subseteq opened \/ lent
    <3>1. \A what : Kept(what) => what \in opened
      BY UnionOfUsers DEF AccessInv, Owned, Kept
    <3> QED
      BY <3>1 DEF AccessInv, PlacesInv
  <2> QED
    BY <2>1, <2>2, Zenon DEF AccessIsKept, AccessInv, Owned, AtRest
<1> QED
  BY <1>1, AccessInvariance, PTL

-----------------------------------------------------------------------------
(* initialize_database.                                                    *)

(* The types of its statics.                                               *)
BootType ==
  /\ boot \in [Threads -> {"no", "checked", "allocated", "created"}] /\ replaced \in Nat
  /\ ready \in BOOLEAN /\ space \in BOOLEAN

(* A thread that goes on as long as SQLite is not ready, or is no longer   *)
(* inside, leaves the others where they are.                                *)
LEMMA ArrivesBoot ==
  ASSUME BootType, NEW t \in Threads, NEW place \in {"no", "checked", "allocated", "created"},
         Arrives(t, place)
  PROVE  /\ boot' \in [Threads -> {"no", "checked", "allocated", "created"}]
         /\ place \notin {"checked", "allocated"} => Inside' = Inside \ {t}
         /\ Inside' \subseteq Inside \cup {t}
  BY DEF BootType, Arrives, Inside

(* A thread in initialize_database.                                        *)
LEMMA BootKeeps ==
  ASSUME BootType, BootInv, NEW t \in Threads, initialize_database(t)
  PROVE  BootType' /\ BootInv'
<1>1. CASE boot[t] = "no"
  <2>1. ~ready /\ Arrives(t, "checked") /\ UNCHANGED <<space, ready, replaced>>
    BY <1>1 DEF initialize_database
  <2>2. BootType'
    BY <2>1, ArrivesBoot DEF BootType
  <2> QED
    BY <2>1, <2>2, Zenon DEF BootInv
<1>2. CASE boot[t] = "checked"
  <2>1. /\ Arrives(t, "allocated") \/ Arrives(t, "no")
        /\ UNCHANGED <<space, ready, replaced>> /\ t \in Inside
    BY <1>2 DEF initialize_database, Inside
  <2>2. BootType' /\ Inside' \subseteq Inside
    BY <2>1, ArrivesBoot DEF BootType
  <2> QED
    BY <2>1, <2>2 DEF BootInv
<1>3. CASE boot[t] = "allocated"
  <2>1. /\ CreateSpace(t) \/ (Arrives(t, "no") /\ UNCHANGED <<space, replaced>>)
        /\ UNCHANGED ready /\ t \in Inside
    BY <1>3 DEF initialize_database, Inside
  <2>2. /\ \E place \in {"no", "created"} : Arrives(t, place)
        /\ space' \in BOOLEAN
        /\ replaced' = replaced \/ replaced' = IF ready THEN replaced + 1 ELSE replaced
    BY <2>1 DEF CreateSpace, BootType
  <2>3. Inside' = Inside \ {t} /\ boot' \in [Threads -> {"no", "checked", "allocated", "created"}]
    BY <2>2, ArrivesBoot
  <2>4. BootType'
    BY <2>1, <2>2, <2>3 DEF BootType
  <2>5. CASE ~ready
    BY <2>1, <2>2, <2>4, <2>5 DEF BootInv
  <2>6. CASE ready
    <3>1. replaced = 0 /\ Inside = {t}
      BY <2>1, <2>6 DEF BootInv
    <3> QED
      BY <2>1, <2>2, <2>3, <2>4, <2>6, <3>1 DEF BootInv
  <2> QED
    BY <2>4, <2>5, <2>6
<1>4. CASE boot[t] = "created"
  <2>1. Arrives(t, "no") /\ ready' \in {ready, TRUE} /\ UNCHANGED <<space, replaced>>
    BY <1>4 DEF initialize_database
  <2>2. Inside' = Inside \ {t} /\ t \notin Inside
        /\ boot' \in [Threads -> {"no", "checked", "allocated", "created"}]
    BY <1>4, <2>1, ArrivesBoot DEF Inside
  <2>3. ready' \in BOOLEAN /\ BootType'
    BY <2>1, <2>2 DEF BootType
  <2>4. \A a, b \in Threads \ {t} : a = b
    BY DEF Threads
  <2>5. \A a, b \in Inside' : a = b
    BY <2>2, <2>4 DEF Inside
  <2>6. CASE ready
    BY <2>1, <2>2, <2>3, <2>6 DEF BootInv
  <2>7. CASE ~ready
    <3>1. replaced' = 0
      BY <2>1, <2>7 DEF BootInv
    <3> QED
      BY <2>3, <2>5, <3>1 DEF BootInv
  <2> QED
    BY <2>6, <2>7
<1> QED
  BY <1>1, <1>2, <1>3, <1>4 DEF initialize_database

(* Every other step leaves the statics alone.                              *)
LEMMA BootStep == BootType /\ BootInv /\ [Next]_vars => BootType' /\ BootInv'
<1> SUFFICES ASSUME BootType, BootInv, [Next]_vars PROVE BootType' /\ BootInv'
  OBVIOUS
<1>1. CASE UNCHANGED <<boot, space, ready, replaced>>
  BY <1>1, Zenon DEF BootType, BootInv, Inside
<1>2. CASE ~(\E t \in Threads : initialize_database(t))
  BY <1>1, <1>2 DEF Next, EnsureMusicAccess, mount_music_for_file_import, vcm_sync_import,
                    vcm_library_audit_music, Leaves, Exit, ImportSong, MediaChange, BuildBegins,
                    Build, Done, vars, database
<1> QED
  BY <1>2, BootKeeps

(* The inductive invariant holds.                                          *)
LEMMA BootInvariance == Spec => [](BootType /\ BootInv)
<1>1. Init => BootType /\ BootInv
  <2> SUFFICES ASSUME Init PROVE BootType /\ BootInv
    OBVIOUS
  <2>1. boot = [t \in Threads |-> "no"] /\ replaced = 0 /\ ready = FALSE /\ space = FALSE
    BY DEF Init
  <2> QED
    BY <2>1 DEF BootType, BootInv
<1> QED
  BY <1>1, BootStep, PTL DEF Spec

(* However server and importer interleave in initialize_database, and       *)
(* wherever it fails, the allocator of a running SQLite is replaced at most *)
(* once, and only by a thread that was inside when SQLite became ready.     *)
THEOREM AllocatorSettles == Spec => []ArenaSettles
<1>1. BootInv => ArenaSettles
  <2> SUFFICES ASSUME BootInv PROVE ArenaSettles
    OBVIOUS
  <2>1. CASE ~ready
    BY <2>1 DEF BootInv, ArenaSettles
  <2>2. CASE ready /\ Inside = {}
    BY <2>2, FS_EmptySet DEF BootInv, ArenaSettles, Inside
  <2>3. CASE ready /\ Inside # {}
    <3>1. PICK t \in Inside : Inside = {t}
      BY <2>3 DEF BootInv
    <3>2. replaced = 0 /\ Cardinality(Inside) = 1
      BY <2>3, <3>1, FS_Singleton DEF BootInv
    <3> QED
      BY <2>3, <3>2 DEF ArenaSettles, Inside
  <2> QED
    BY <2>1, <2>2, <2>3
<1> QED
  BY <1>1, BootInvariance, PTL

-----------------------------------------------------------------------------
(* The libraries and the catalogue.                                        *)

(* Every nonempty set of numbers has a least one.                          *)
LEMMA Least ==
  ASSUME NEW S, S \subseteq Nat, S # {}
  PROVE  \E x \in S : \A y \in S : x <= y
<1>1. IsWellFoundedOn(OpToRel(<, Nat), Nat)
  BY NatLessThanWellFounded
<1>2. \E x \in S : \A y \in S : ~(<<y, x>> \in OpToRel(<, Nat))
  BY <1>1, WFMin
<1>3. \E x \in S : \A y \in S : ~(y < x)
  BY <1>2 DEF OpToRel
<1> QED
  BY <1>3

(* The types of the libraries, and of the build.                           *)
EntryType == [id : Media \cup {0}, sidecar : BOOLEAN]
LibraryType ==
  rows \subseteq Media /\ files \subseteq Media /\ song \in Songs \cup {0} /\ changes \in Nat
BuildType ==
  /\ srv \in {"idle", "count", "allocate", "row", "sidecar", "built", "failed"}
  /\ k \in 1 .. 3 /\ counts \in [1 .. 3 -> Nat] /\ capacity \in Nat /\ cursor \in Nat
  /\ catalog \in Seq(EntryType)

(* The importer and the applications only handle media.                    *)
LEMMA LibraryStep == LibraryType /\ [Next]_vars => LibraryType'
<1> SUFFICES ASSUME LibraryType, [Next]_vars PROVE LibraryType'
  OBVIOUS
<1>0. Songs \subseteq Media /\ Coming \subseteq Media
  BY MediaAssumption DEF Media
<1>1. CASE UNCHANGED <<rows, files, song, changes>>
  BY <1>1 DEF LibraryType
<1>2. CASE ImportSong
  BY <1>0, <1>2 DEF ImportSong, LibraryType
<1>3. CASE MediaChange
  BY <1>0, <1>3 DEF MediaChange, LibraryType
<1>5. CASE vcm_sync_import
  <2>1. UNCHANGED <<rows, files, changes>> \/ \E m \in Media :
          files' = files \cup {m} /\ rows' \in {rows, rows \cup {m}} /\ changes' = changes + 1
    BY <1>5 DEF vcm_sync_import
  <2>2. song' = song
    BY <1>5 DEF vcm_sync_import
  <2> QED
    BY <2>1, <2>2 DEF LibraryType
<1>4. CASE ~ImportSong /\ ~MediaChange /\ ~vcm_sync_import
  BY <1>1, <1>4 DEF Next, EnsureMusicAccess, mount_music_for_file_import, vcm_library_audit_music,
                    Leaves, Exit, initialize_database, BuildBegins, Build, Done, vars, library
<1> QED
  BY <1>2, <1>3, <1>4, <1>5

(* A library's part of the rows is finite.                                 *)
LEMMA PartIsFinite ==
  ASSUME LibraryType, NEW l \in 1 .. 3
  PROVE  IsFiniteSet(rows \cap Library[l]) /\ Size(l) \in Nat /\ Library[l] \subseteq Media
<1>1. IsFiniteSet(rows)
  BY MediaAssumption, FS_Subset DEF LibraryType
<1>2. IsFiniteSet(rows \cap Library[l])
  BY <1>1, FS_Intersection
<1>3. Library[l] \subseteq Media
  BY DEF Library, Media
<1> QED
  BY <1>2, <1>3, FS_CardinalityType DEF Size

(* What a step of the enumeration does: it takes the next row of the        *)
(* library, or there is none and it goes on to the next library.            *)
NextRow(m) ==
  /\ m \in rows \cap Library[k] /\ m > cursor
  /\ \A y \in rows \cap Library[k] : y > cursor => m <= y
NoRow == \A y \in rows \cap Library[k] : y <= cursor
LEMMA EnumerationStep ==
  ASSUME LibraryType, BuildType, vcm_library_enumerate
  PROVE  \/ /\ NextRow(cursor') /\ UNCHANGED k
            /\ LET m == cursor' IN
               \/ m \notin files /\ UNCHANGED <<srv, catalog>>
               \/ m \in files /\ Fits(m) /\ Add(Entry(m), IF m \in Subtitled THEN "sidecar" ELSE "row")
               \/ m \in files /\ ~Fits(m) /\ srv' = "failed" /\ UNCHANGED catalog
         \/ /\ NoRow
            /\ IF k < 3 THEN k' = k + 1 /\ UNCHANGED srv ELSE k' = 1 /\ srv' = "built"
            /\ cursor' = 0 /\ UNCHANGED catalog
<1> DEFINE left == {m \in rows \cap Library[k] : m > cursor}
           first == CHOOSE x \in left : \A y \in left : x <= y
<1>1. left \subseteq Nat /\ cursor \in Nat
  BY PartIsFinite, MediaAssumption DEF BuildType
<1>2. CASE left # {}
  <2>1. first \in left /\ \A y \in left : first <= y
    BY <1>1, <1>2, Least
  <2>2. NextRow(first)
    BY <2>1 DEF NextRow
  <2>3. /\ cursor' = first /\ UNCHANGED k
        /\ \/ first \notin files /\ UNCHANGED <<srv, catalog>>
           \/ /\ first \in files /\ Fits(first)
              /\ Add(Entry(first), IF first \in Subtitled THEN "sidecar" ELSE "row")
           \/ first \in files /\ ~Fits(first) /\ srv' = "failed" /\ UNCHANGED catalog
    BY <1>2 DEF vcm_library_enumerate
  <2> HIDE DEF first
  <2> QED
    BY <2>2, <2>3
<1>3. CASE left = {}
  <2>1. NoRow
    <3>1. \A y \in rows \cap Library[k] : y \in Nat /\ ~(y > cursor)
      BY <1>3, PartIsFinite, MediaAssumption DEF BuildType
    <3> QED
      BY <1>1, <3>1 DEF NoRow
  <2>2. /\ IF k < 3 THEN k' = k + 1 /\ UNCHANGED srv ELSE k' = 1 /\ srv' = "built"
        /\ cursor' = 0 /\ UNCHANGED catalog
    BY <1>3 DEF vcm_library_enumerate
  <2> QED
    BY <2>1, <2>2
<1> QED
  BY <1>2, <1>3

(* An entry is added behind the others.                                    *)
LEMMA Added ==
  ASSUME BuildType, NEW e \in EntryType, catalog' = Append(catalog, e)
  PROVE  /\ catalog' \in Seq(EntryType) /\ Len(catalog) \in Nat /\ Len(catalog') = Len(catalog) + 1
         /\ \A i \in 1 .. Len(catalog) : catalog'[i] = catalog[i]
         /\ catalog'[Len(catalog) + 1] = e
         /\ DOMAIN catalog = 1 .. Len(catalog) /\ DOMAIN catalog' = 1 .. Len(catalog) + 1
  BY DEF BuildType

(* The three folders.                                                      *)
LEMMA FolderEntries ==
  Folders \in Seq(EntryType) /\ Len(Folders) = 3 /\ \A i \in DOMAIN Folders : ~Folders[i].sidecar
  BY DEF Folders, EntryType

BuildInv == BuildType /\ CatalogFits /\ SidecarInv

(* A row is added if it fits, and stands where a sidecar will look for it. *)
LEMMA AddRowKeeps ==
  ASSUME LibraryType, BuildInv, srv = "row", UNCHANGED <<k, counts, capacity>>,
         NEW m, m \in rows \cap Library[k], cursor' = m, Fits(m),
         Add(Entry(m), IF m \in Subtitled THEN "sidecar" ELSE "row")
  PROVE  BuildInv'
<1>0. /\ Entry(m) \in EntryType /\ m \in Nat /\ (m \in Subtitled => k = 3)
      /\ catalog' = Append(catalog, Entry(m))
      /\ srv' = IF m \in Subtitled THEN "sidecar" ELSE "row"
  <2>1. k \in 1 .. 3 /\ m \in Media
    BY PartIsFinite DEF BuildInv, BuildType
  <2>2. m \in Subtitled => k = 3
    BY <2>1, MediaAssumption DEF Library
  <2> QED
    BY <2>1, <2>2, MediaAssumption DEF Entry, EntryType, Add
<1>1. /\ catalog' \in Seq(EntryType) /\ Len(catalog) \in Nat /\ Len(catalog') = Len(catalog) + 1
      /\ \A i \in 1 .. Len(catalog) : catalog'[i] = catalog[i]
      /\ catalog'[Len(catalog) + 1] = Entry(m)
      /\ DOMAIN catalog = 1 .. Len(catalog) /\ DOMAIN catalog' = 1 .. Len(catalog) + 1
  BY <1>0, Added DEF BuildInv
<1>2. BuildType'
  BY <1>0, <1>1 DEF BuildInv, BuildType
<1>3. Len(catalog') <= capacity'
  BY <1>1 DEF Fits, BuildInv, BuildType
<1>4. ASSUME NEW i \in DOMAIN catalog', catalog'[i].sidecar
      PROVE  i > 1 /\ catalog'[i - 1] = Entry(catalog'[i].id)
  <2>1. i # Len(catalog) + 1
    BY <1>1, <1>4 DEF Entry
  <2>2. i \in DOMAIN catalog /\ catalog'[i] = catalog[i]
    BY <1>1, <2>1
  <2>3. i > 1 /\ catalog[i - 1] = Entry(catalog[i].id)
    BY <1>4, <2>2 DEF BuildInv, CatalogFits
  <2>4. catalog'[i - 1] = catalog[i - 1]
    BY <1>1, <2>2, <2>3
  <2> QED
    BY <2>2, <2>3, <2>4
<1>5. SidecarInv'
  BY <1>0, <1>1 DEF BuildInv, SidecarInv
<1> QED
  BY <1>2, <1>3, <1>4, <1>5 DEF BuildInv, CatalogFits

(* A sidecar is added behind its video.                                    *)
LEMMA AddSidecarKeeps ==
  ASSUME LibraryType, BuildInv, srv = "sidecar", UNCHANGED <<k, counts, capacity, cursor>>,
         Fits(cursor), Add(Sidecar(cursor), "row")
  PROVE  BuildInv'
<1>0. /\ Sidecar(cursor) \in EntryType /\ catalog' = Append(catalog, Sidecar(cursor)) /\ srv' = "row"
      /\ Len(catalog) > 3 /\ catalog[Len(catalog)] = Entry(cursor)
  <2>1. cursor \in Media
    BY MediaAssumption DEF BuildInv, SidecarInv, Media
  <2> QED
    BY <2>1 DEF Sidecar, EntryType, Add, BuildInv, SidecarInv
<1>1. /\ catalog' \in Seq(EntryType) /\ Len(catalog) \in Nat /\ Len(catalog') = Len(catalog) + 1
      /\ \A i \in 1 .. Len(catalog) : catalog'[i] = catalog[i]
      /\ catalog'[Len(catalog) + 1] = Sidecar(cursor)
      /\ DOMAIN catalog = 1 .. Len(catalog) /\ DOMAIN catalog' = 1 .. Len(catalog) + 1
  BY <1>0, Added DEF BuildInv
<1>2. BuildType'
  BY <1>0, <1>1 DEF BuildInv, BuildType
<1>3. Len(catalog') <= capacity'
  BY <1>1 DEF Fits, BuildInv, BuildType
<1>4. ASSUME NEW i \in DOMAIN catalog', catalog'[i].sidecar
      PROVE  i > 1 /\ catalog'[i - 1] = Entry(catalog'[i].id)
  <2>1. CASE i = Len(catalog) + 1
    <3>1. i - 1 = Len(catalog) /\ Len(catalog) \in 1 .. Len(catalog) /\ i > 1
      BY <1>0, <1>1, <2>1
    <3>2. catalog'[Len(catalog)] = Entry(cursor)
      BY <1>0, <1>1, <3>1
    <3>3. catalog'[i].id = cursor
      BY <1>1, <2>1 DEF Sidecar
    <3> QED
      BY <3>1, <3>2, <3>3
  <2>2. CASE i # Len(catalog) + 1
    <3>1. i \in DOMAIN catalog /\ catalog'[i] = catalog[i]
      BY <1>1, <2>2
    <3>2. i > 1 /\ catalog[i - 1] = Entry(catalog[i].id)
      BY <1>4, <3>1 DEF BuildInv, CatalogFits
    <3>3. catalog'[i - 1] = catalog[i - 1]
      BY <1>1, <3>1, <3>2
    <3> QED
      BY <3>1, <3>2, <3>3
  <2> QED
    BY <2>1, <2>2
<1>5. SidecarInv'
  BY <1>0, <1>1 DEF BuildInv, SidecarInv
<1> QED
  BY <1>2, <1>3, <1>4, <1>5 DEF BuildInv, CatalogFits

(* The other steps of the build add nothing, or start with the folders.    *)
LEMMA BuildKeeps ==
  ASSUME LibraryType, BuildInv, Build \/ BuildBegins
  PROVE  BuildInv'
<1>1. CASE BuildBegins
  <2>1. /\ srv' = "count" /\ k' = 1 /\ cursor' = 0 /\ capacity' = 0 /\ catalog' = <<>>
        /\ counts' = <<0, 0, 0>>
    BY <1>1, Zenon DEF BuildBegins
  <2> QED
    BY <2>1 DEF BuildInv, BuildType, CatalogFits, SidecarInv
<1>2. CASE vcm_library_count
  <2>1. Size(k) \in Nat
    BY PartIsFinite DEF BuildInv, BuildType
  <2>2. /\ srv = "count" /\ counts' = [counts EXCEPT ![k] = Size(k)]
        /\ IF k < 3 THEN k' = k + 1 /\ UNCHANGED srv ELSE k' = 1 /\ srv' = "allocate"
        /\ UNCHANGED <<capacity, catalog, cursor>>
    BY <1>2 DEF vcm_library_count, Size
  <2> QED
    BY <2>1, <2>2 DEF BuildInv, BuildType, CatalogFits, SidecarInv
<1>3. CASE Allocate
  <2>1. Needed \in Nat /\ Needed >= 3
    BY DEF Needed, BuildInv, BuildType
  <2>2. CASE srv' = "failed" /\ UNCHANGED <<k, counts, capacity, catalog, cursor>>
    BY <2>2 DEF BuildInv, BuildType, CatalogFits, SidecarInv
  <2>3. CASE srv' = "row" /\ capacity' = Needed /\ catalog' = Folders /\ UNCHANGED <<k, counts, cursor>>
    BY <2>1, <2>3, FolderEntries DEF BuildInv, BuildType, CatalogFits, SidecarInv
  <2> QED
    BY <1>3, <2>2, <2>3 DEF Allocate
<1>4. CASE vcm_library_enumerate
  <2>0. srv = "row" /\ UNCHANGED <<counts, capacity>>
    BY <1>4 DEF vcm_library_enumerate
  <2>1. CASE NextRow(cursor') /\ UNCHANGED <<k, catalog>> /\ srv' \in {srv, "failed"}
    <3>1. cursor' \in Nat
      <4>1. cursor' \in Media
        BY <2>1, PartIsFinite DEF NextRow, BuildInv, BuildType
      <4> QED
        BY <4>1, MediaAssumption
    <3> QED
      BY <2>0, <2>1, <3>1 DEF BuildInv, BuildType, CatalogFits, SidecarInv
  <2>2. CASE /\ NextRow(cursor') /\ UNCHANGED k /\ Fits(cursor')
             /\ Add(Entry(cursor'), IF cursor' \in Subtitled THEN "sidecar" ELSE "row")
    BY <2>0, <2>2, AddRowKeeps DEF NextRow
  <2>3. CASE /\ IF k < 3 THEN k' = k + 1 /\ UNCHANGED srv ELSE k' = 1 /\ srv' = "built"
             /\ cursor' = 0 /\ UNCHANGED catalog
    BY <2>0, <2>3 DEF BuildInv, BuildType, CatalogFits, SidecarInv
  <2> QED
    BY <1>4, <2>1, <2>2, <2>3, EnumerationStep DEF BuildInv
<1>5. CASE SidecarRow
  <2>1. CASE ~Fits(cursor) /\ srv' = "failed" /\ UNCHANGED <<k, counts, capacity, cursor, catalog>>
    BY <2>1 DEF BuildInv, BuildType, CatalogFits, SidecarInv
  <2> QED
    BY <1>5, <2>1, AddSidecarKeeps DEF SidecarRow
<1>6. CASE QueryFails
  BY <1>6 DEF QueryFails, BuildInv, BuildType, CatalogFits, SidecarInv
<1>7. CASE BuildEnds
  BY <1>7 DEF BuildEnds, BuildInv, BuildType, CatalogFits, SidecarInv
<1> QED
  BY <1>1, <1>2, <1>3, <1>4, <1>5, <1>6, <1>7 DEF Build

(* Every other step leaves the catalogue alone.                            *)
LEMMA BuildStep == LibraryType /\ BuildInv /\ [Next]_vars => BuildInv'
<1> SUFFICES ASSUME LibraryType, BuildInv, [Next]_vars PROVE BuildInv'
  OBVIOUS
<1>1. CASE UNCHANGED <<srv, k, counts, capacity, catalog, cursor>>
  BY <1>1 DEF BuildInv, BuildType, CatalogFits, SidecarInv
<1>2. CASE ~Build /\ ~BuildBegins
  BY <1>1, <1>2 DEF Next, EnsureMusicAccess, mount_music_for_file_import, vcm_sync_import,
                    vcm_library_audit_music, Leaves, Exit, initialize_database, ImportSong,
                    MediaChange, Done, vars, snapshot
<1> QED
  BY <1>2, BuildKeeps

(* The libraries and the catalogue keep their types, and the catalogue its  *)
(* shape.                                                                   *)
LEMMA BuildInvariance == Spec => [](LibraryType /\ BuildInv)
<1>1. Init => LibraryType /\ BuildInv
  BY MediaAssumption DEF Init, LibraryType, BuildInv, BuildType, CatalogFits, SidecarInv
<1> QED
  BY <1>1, LibraryStep, BuildStep, PTL DEF Spec

(* The catalogue is never written past the block that an earlier count      *)
(* sized, whatever is added to the libraries meanwhile, and every sidecar   *)
(* stands behind its video.                                                 *)
THEOREM CatalogIsBounded == Spec => []CatalogFits
  BY BuildInvariance, PTL DEF BuildInv

-----------------------------------------------------------------------------
(* The catalogue of libraries that do not change.                          *)

(* Each medium stands on the shelf of its library.                         *)
LEMMA Shelving ==
  ASSUME NEW m \in Media
  PROVE  /\ m \in Nat /\ m > 0 /\ Shelf(m) \in 1 .. 3
         /\ \A l \in 1 .. 3 : (Shelf(m) = l) <=> (m \in Library[l])
  BY MediaAssumption DEF Shelf, Library, Media

(* What the entries are.                                                   *)
LEMMA PresentEntries ==
  ASSUME LibraryType, NEW e \in Present
  PROVE  /\ e \in EntryType /\ e.id \in rows \cap files /\ e.id \in Media
         /\ e = (IF e.sidecar THEN Sidecar(e.id) ELSE Entry(e.id))
         /\ e.sidecar => e.id \in Subtitled
<1>1. CASE \E m \in rows \cap files : e = Entry(m)
  <2>1. PICK m \in rows \cap files : e = Entry(m)
    BY <1>1
  <2>2. e.id = m /\ e.sidecar = FALSE
    BY <2>1 DEF Entry
  <2>3. m \in Media /\ e \in EntryType
    BY <2>1 DEF LibraryType, Entry, EntryType
  <2> QED
    BY <2>1, <2>2, <2>3
<1>2. CASE \E m \in rows \cap files \cap Subtitled : e = Sidecar(m)
  <2>1. PICK m \in rows \cap files \cap Subtitled : e = Sidecar(m)
    BY <1>2
  <2>2. e.id = m /\ e.sidecar = TRUE
    BY <2>1 DEF Sidecar
  <2>3. m \in Media /\ e \in EntryType
    BY <2>1 DEF LibraryType, Sidecar, EntryType
  <2> QED
    BY <2>1, <2>2, <2>3
<1> QED
  BY <1>1, <1>2 DEF Present

(* No entry stands before itself.                                          *)
LEMMA BeforeIsStrict ==
  ASSUME NEW e, e.id \in Media
  PROVE  ~Before(e, e)
  BY Shelving DEF Before

(* The rows are those of the three libraries.                              *)
LEMMA RowsSize ==
  ASSUME LibraryType
  PROVE  /\ IsFiniteSet(rows) /\ Cardinality(rows) = Size(1) + Size(2) + Size(3)
         /\ \A l \in 1 .. 3 : Size(l) \in Nat
<1> DEFINE P == rows \cap Photos
           S == rows \cap Songs
           V == rows \cap Videos
<1>1. /\ rows = (P \cup S) \cup V /\ (P \cup S) \cap V = {} /\ P \cap S = {}
  BY MediaAssumption DEF LibraryType, Media
<1>2. \A l \in 1 .. 3 : Size(l) \in Nat
  BY PartIsFinite
<1>3. /\ P = rows \cap Library[1] /\ S = rows \cap Library[2] /\ V = rows \cap Library[3]
  BY DEF Library
<1>4. /\ IsFiniteSet(P) /\ IsFiniteSet(S) /\ IsFiniteSet(V)
      /\ Cardinality(P) = Size(1) /\ Cardinality(S) = Size(2) /\ Cardinality(V) = Size(3)
  <2>1. 1 \in 1 .. 3 /\ 2 \in 1 .. 3 /\ 3 \in 1 .. 3
    OBVIOUS
  <2>2. \A l \in 1 .. 3 : IsFiniteSet(rows \cap Library[l]) /\ Cardinality(rows \cap Library[l]) = Size(l)
    BY PartIsFinite DEF Size
  <2> HIDE DEF P, S, V
  <2> QED
    BY <1>3, <2>1, <2>2
<1>5. Cardinality({}) = 0
  BY FS_EmptySet
<1> HIDE DEF P, S, V
<1>6. IsFiniteSet(P \cup S) /\ Cardinality(P \cup S) = Size(1) + Size(2) - Cardinality(P \cap S)
  BY <1>4, FS_Union
<1>7. /\ IsFiniteSet((P \cup S) \cup V)
      /\ Cardinality((P \cup S) \cup V)
           = Cardinality(P \cup S) + Size(3) - Cardinality((P \cup S) \cap V)
  BY <1>4, <1>6, FS_Union
<1>8. Cardinality(P \cap S) = 0 /\ Cardinality((P \cup S) \cap V) = 0
  BY <1>1, <1>5, Zenon
<1>9. Cardinality((P \cup S) \cup V) = Size(1) + Size(2) + Size(3)
  <2>1. Size(1) \in Nat /\ Size(2) \in Nat /\ Size(3) \in Nat
    BY <1>2
  <2> QED
    BY <1>6, <1>7, <1>8, <2>1
<1> QED
  BY <1>1, <1>2, <1>7, <1>9

(* There are at most two entries for each video and one for the others.    *)
LEMMA PresentSize ==
  ASSUME LibraryType
  PROVE  /\ IsFiniteSet(Present) /\ Cardinality(Present) \in Nat
         /\ Cardinality(Present) <= Size(1) + Size(2) + 2 * Size(3)
<1> DEFINE V == rows \cap Library[3]
           A == {Entry(m) : m \in rows}
           B == {Sidecar(m) : m \in V}
           fa == [m \in rows |-> Entry(m)]
           fb == [m \in V |-> Sidecar(m)]
<1>1. IsFiniteSet(V) /\ Cardinality(V) = Size(3)
  BY PartIsFinite DEF Size
<1>2. fa \in Surjection(rows, A) /\ fb \in Surjection(V, B)
  BY DEF Surjection
<1>3. Present \subseteq A \cup B
  BY MediaAssumption DEF Present, Library
<1> HIDE DEF V, A, B, fa, fb
<1>4. IsFiniteSet(A) /\ Cardinality(A) <= Size(1) + Size(2) + Size(3)
  BY <1>2, RowsSize, FS_Surjection
<1>5. IsFiniteSet(B) /\ Cardinality(B) <= Size(3)
  BY <1>1, <1>2, FS_Surjection
<1>6. /\ IsFiniteSet(A \cup B)
      /\ Cardinality(A \cup B) = Cardinality(A) + Cardinality(B) - Cardinality(A \cap B)
  BY <1>4, <1>5, FS_Union
<1>7. Cardinality(A) \in Nat /\ Cardinality(B) \in Nat /\ Cardinality(A \cap B) \in Nat
  BY <1>4, <1>5, FS_CardinalityType, FS_Intersection
<1>8. IsFiniteSet(Present) /\ Cardinality(Present) <= Cardinality(A \cup B)
  BY <1>3, <1>6, FS_Subset
<1>9. Cardinality(Present) \in Nat
  BY <1>8, FS_CardinalityType
<1> QED
  BY <1>4, <1>5, <1>6, <1>7, <1>8, <1>9, RowsSize

(* As long as an entry is missing there is room for it: what is listed is   *)
(* distinct, and the block has a place for everything that can be listed.   *)
LEMMA RoomForOneMore ==
  ASSUME LibraryType, BuildType, Len(catalog) >= 3, InOrder, Listed \subseteq Present,
         NEW e \in Present, e \notin Listed
  PROVE  Len(catalog) < 3 + Size(1) + Size(2) + 2 * Size(3)
<1> DEFINE T == Present \ {e}
           I == 4 .. Len(catalog)
           f == [i \in I |-> catalog[i]]
<1>0. Len(catalog) \in Nat
  BY DEF BuildType
<1>1. \A i \in I : catalog[i] \in T
  BY DEF Listed
<1>2. \A i, j \in I : catalog[i] = catalog[j] => i = j
  <2> SUFFICES ASSUME NEW i \in I, NEW j \in I, catalog[i] = catalog[j], i < j
               PROVE  FALSE
    BY <1>0
  <2>1. Before(catalog[i], catalog[i])
    BY DEF InOrder
  <2>2. catalog[i].id \in Media
    BY <1>1, PresentEntries
  <2> QED
    BY <2>1, <2>2, BeforeIsStrict
<1>3. f \in Injection(I, T)
  BY <1>1, <1>2 DEF Injection, IsInjective
<1>4. /\ IsFiniteSet(T) /\ Cardinality(T) = Cardinality(Present) - 1
  BY PresentSize, FS_RemoveElement
<1>5. Cardinality(I) = Len(catalog) - 3
  BY <1>0, FS_Interval
<1> HIDE DEF T, I, f
<1>6. Cardinality(I) <= Cardinality(T)
  BY <1>3, <1>4, FS_Injection
<1>7. /\ Cardinality(Present) \in Nat
      /\ Cardinality(Present) <= Size(1) + Size(2) + 2 * Size(3)
  BY PresentSize
<1>8. Size(1) \in Nat /\ Size(2) \in Nat /\ Size(3) \in Nat
  BY RowsSize
<1> HIDE DEF Size
<1> QED
  BY <1>0, <1>4, <1>5, <1>6, <1>7, <1>8

(* An entry that belongs behind all others is added.                       *)
LEMMA AddedInOrder ==
  ASSUME BuildType, Len(catalog) >= 3, NEW e \in EntryType, catalog' = Append(catalog, e),
         InOrder, \A x \in Listed : Before(x, e)
  PROVE  Listed' = Listed \cup {e} /\ InOrder'
<1>1. /\ Len(catalog) \in Nat /\ Len(catalog') = Len(catalog) + 1
      /\ \A i \in 1 .. Len(catalog) : catalog'[i] = catalog[i]
      /\ catalog'[Len(catalog) + 1] = e
  BY Added
<1>2. \A i \in 4 .. Len(catalog) : catalog'[i] = catalog[i] /\ catalog[i] \in Listed
  BY <1>1 DEF Listed
<1>3. 4 .. Len(catalog') = (4 .. Len(catalog)) \cup {Len(catalog) + 1}
  BY <1>1
<1>4. Listed' = Listed \cup {e}
  BY <1>1, <1>2, <1>3 DEF Listed
<1>5. ASSUME NEW i \in 4 .. Len(catalog'), NEW j \in 4 .. Len(catalog'), i < j
      PROVE  Before(catalog'[i], catalog'[j])
  <2>1. i \in 4 .. Len(catalog)
    BY <1>1, <1>3, <1>5
  <2>2. CASE j = Len(catalog) + 1
    BY <1>1, <1>2, <2>1, <2>2
  <2>3. CASE j \in 4 .. Len(catalog)
    BY <1>2, <1>5, <2>1, <2>3 DEF InOrder
  <2> QED
    BY <1>3, <2>2, <2>3
<1>6. InOrder'
  BY <1>5 DEF InOrder
<1> QED
  BY <1>4, <1>6

(* What is found next is not listed yet and belongs behind what is.        *)
LEMMA NextInOrder ==
  ASSUME LibraryType, BuildInv, srv \in {"row", "sidecar"}, SoFar, NEW e \in Present,
         ~Reached(e), \A x \in Present : Reached(x) => Before(x, e)
  PROVE  /\ Len(catalog) < capacity
         /\ catalog' = Append(catalog, e) => Listed' = Listed \cup {e} /\ InOrder'
<1>1. /\ Len(catalog) >= 3 /\ InOrder /\ Listed = {x \in Present : Reached(x)}
      /\ capacity = 3 + Size(1) + Size(2) + 2 * Size(3) /\ BuildType
  BY DEF SoFar, BuildInv, SidecarInv
<1>2. Listed \subseteq Present /\ e \notin Listed /\ \A x \in Listed : Before(x, e)
  BY <1>1
<1>3. e \in EntryType
  BY PresentEntries
<1>4. Len(catalog) < capacity
  BY <1>1, <1>2, RoomForOneMore
<1>5. ASSUME catalog' = Append(catalog, e) PROVE Listed' = Listed \cup {e} /\ InOrder'
  BY <1>1, <1>2, <1>3, <1>5, AddedInOrder
<1> QED
  BY <1>4, <1>5

(* A row whose medium has a file is the next entry.                        *)
LEMMA RowIsNext ==
  ASSUME LibraryType, BuildInv, srv = "row", NEW m, NextRow(m), m \in files
  PROVE  /\ Entry(m) \in Present /\ ~Reached(Entry(m))
         /\ \A x \in Present : Reached(x) => Before(x, Entry(m))
<1>1. m \in rows \cap Library[k] /\ m > cursor /\ k \in 1 .. 3 /\ cursor \in Nat
  BY DEF NextRow, BuildInv, BuildType
<1>2. m \in Media /\ Entry(m) \in Present /\ Entry(m).id = m
  BY <1>1, PartIsFinite DEF Present, Entry
<1>3. m \in Nat /\ Shelf(m) = k
  BY <1>1, <1>2, Shelving
<1>4. ~Reached(Entry(m))
  BY <1>1, <1>2, <1>3 DEF Reached
<1>5. ASSUME NEW x \in Present, Reached(x) PROVE Before(x, Entry(m))
  <2>1. x.id \in Media
    BY PresentEntries
  <2>2. x.id \in Nat /\ Shelf(x.id) \in 1 .. 3
    BY <2>1, Shelving
  <2>3. Shelf(x.id) < k \/ (Shelf(x.id) = k /\ x.id <= cursor)
    BY <1>5 DEF Reached
  <2> QED
    BY <1>1, <1>2, <1>3, <2>2, <2>3 DEF Before
<1> QED
  BY <1>2, <1>4, <1>5

(* So is the sidecar of the video just listed.                             *)
LEMMA SidecarIsNext ==
  ASSUME LibraryType, BuildInv, srv = "sidecar", SoFar
  PROVE  /\ Sidecar(cursor) \in Present /\ ~Reached(Sidecar(cursor))
         /\ \A x \in Present : Reached(x) => Before(x, Sidecar(cursor))
<1>1. cursor \in rows \cap files \cap Subtitled /\ k = 3 /\ cursor \in Nat
  BY DEF SoFar, BuildInv, SidecarInv, BuildType
<1>2. cursor \in Media /\ Sidecar(cursor) \in Present
  BY <1>1 DEF Present, LibraryType
<1>3. Sidecar(cursor).id = cursor /\ Sidecar(cursor).sidecar = TRUE
  BY DEF Sidecar
<1>4. Shelf(cursor) = 3
  <2>1. cursor \in Library[3]
    BY <1>1, MediaAssumption DEF Library
  <2> QED
    BY <1>2, <2>1, Shelving
<1>5. ~Reached(Sidecar(cursor))
  BY <1>1, <1>3, <1>4 DEF Reached
<1>6. ASSUME NEW x \in Present, Reached(x) PROVE Before(x, Sidecar(cursor))
  <2>1. x.id \in Media
    BY PresentEntries
  <2>2. x.id \in Nat /\ Shelf(x.id) \in 1 .. 3
    BY <2>1, Shelving
  <2>3. Shelf(x.id) < 3 \/ (Shelf(x.id) = 3 /\ x.id < cursor) \/ (x.id = cursor /\ ~x.sidecar)
    BY <1>1, <1>6, <2>2 DEF Reached
  <2> QED
    BY <1>1, <1>3, <1>4, <2>2, <2>3 DEF Before
<1> QED
  BY <1>2, <1>5, <1>6

(* As long as the libraries are the same, so is what there is to list.     *)
LEMMA SameLibraries ==
  ASSUME UNCHANGED <<rows, files>>
  PROVE  Present' = Present /\ (\A l \in 1 .. 3 : Size(l)' = Size(l)) /\ NameRefused' = NameRefused
<1>1. rows' = rows /\ files' = files
  OBVIOUS
<1> QED
  BY <1>1, Zenon DEF Present, Size, NameRefused

(* A row without a file is passed over.                                    *)
LEMMA SkipSoFar ==
  ASSUME LibraryType, BuildInv, SoFar, srv = "row", NextRow(cursor'), cursor' \notin files,
         UNCHANGED <<srv, k, counts, capacity, catalog, rows, files>>
  PROVE  SoFar'
<1>1. /\ k \in 1 .. 3 /\ cursor \in Nat /\ cursor' > cursor /\ cursor' \in rows \cap Library[k]
      /\ \A y \in rows \cap Library[k] : y > cursor => cursor' <= y
  BY DEF NextRow, BuildInv, BuildType
<1>2. cursor' \in Nat
  <2>1. cursor' \in Media
    BY <1>1, PartIsFinite
  <2> QED
    BY <2>1, MediaAssumption
<1>3. ASSUME NEW e \in Present PROVE Reached(e)' <=> Reached(e)
  <2>1. e.id \in Media /\ e.id \in rows \cap files
    BY PresentEntries
  <2>2. e.id \in Nat /\ Shelf(e.id) \in 1 .. 3 /\ (Shelf(e.id) = k => e.id \in Library[k])
    BY <1>1, <2>1, Shelving
  <2>3. Shelf(e.id) = k => (e.id <= cursor' <=> e.id <= cursor)
    BY <1>1, <1>2, <2>1, <2>2
  <2>4. (Reached(e) <=> Shelf(e.id) < k \/ (Shelf(e.id) = k /\ e.id <= cursor))
    BY DEF Reached
  <2>5. (Reached(e)' <=> Shelf(e.id) < k \/ (Shelf(e.id) = k /\ e.id <= cursor'))
    BY DEF Reached, Shelf
  <2> QED
    BY <2>3, <2>4, <2>5
<1>4. /\ Listed' = Listed /\ (InOrder' <=> InOrder)
  BY DEF Listed, InOrder, Before, Shelf
<1>5. Listed' = {e \in Present' : Reached(e)'}
  <2>1. Listed = {e \in Present : Reached(e)}
    BY DEF SoFar
  <2> QED
    BY <1>3, <1>4, <2>1, SameLibraries
<1>6. capacity' = 3 + Size(1)' + Size(2)' + 2 * Size(3)' /\ InOrder'
  BY <1>4, SameLibraries DEF SoFar
<1>7. srv' = "row"
  OBVIOUS
<1> QED
  BY <1>5, <1>6, <1>7 DEF SoFar

(* A row with a file is listed.                                            *)
LEMMA RowSoFar ==
  ASSUME LibraryType, BuildInv, SoFar, srv = "row", NextRow(cursor'), cursor' \in files,
         UNCHANGED <<k, counts, capacity, rows, files>>,
         Add(Entry(cursor'), IF cursor' \in Subtitled THEN "sidecar" ELSE "row")
  PROVE  SoFar'
<1>1. /\ k \in 1 .. 3 /\ cursor \in Nat /\ cursor' > cursor /\ cursor' \in rows \cap Library[k]
      /\ \A y \in rows \cap Library[k] : y > cursor => cursor' <= y
  BY DEF NextRow, BuildInv, BuildType
<1>2. cursor' \in Media /\ cursor' \in Nat /\ Shelf(cursor') = k
  <2>1. cursor' \in Media
    BY <1>1, PartIsFinite
  <2> QED
    BY <1>1, <2>1, Shelving
<1>3. Listed' = Listed \cup {Entry(cursor')} /\ InOrder' /\ Entry(cursor') \in Present
  BY RowIsNext, NextInOrder DEF Add
<1>4. srv' = (IF cursor' \in Subtitled THEN "sidecar" ELSE "row")
  BY DEF Add
<1>5. ASSUME NEW e \in Present PROVE Reached(e)' <=> Reached(e) \/ e = Entry(cursor')
  <2>1. /\ e.id \in Media /\ e.id \in rows \cap files
        /\ e = (IF e.sidecar THEN Sidecar(e.id) ELSE Entry(e.id)) /\ (e.sidecar => e.id \in Subtitled)
    BY PresentEntries
  <2>2. e.id \in Nat /\ Shelf(e.id) \in 1 .. 3 /\ (Shelf(e.id) = k => e.id \in Library[k])
    BY <1>1, <2>1, Shelving
  <2>3. Shelf(e.id) = k => (e.id <= cursor' <=> e.id <= cursor \/ e.id = cursor')
    BY <1>1, <1>2, <2>1, <2>2
  <2>4. e = Entry(cursor') <=> e.id = cursor' /\ ~e.sidecar
    <3>1. Entry(cursor').id = cursor' /\ ~Entry(cursor').sidecar
      BY DEF Entry
    <3> QED
      BY <2>1, <3>1
  <2>5. (Reached(e) <=> Shelf(e.id) < k \/ (Shelf(e.id) = k /\ e.id <= cursor))
    BY DEF Reached
  <2>6. Reached(e)' <=> \/ Shelf(e.id) < k
                        \/ /\ Shelf(e.id) = k /\ e.id <= cursor'
                           /\ ~(cursor' \in Subtitled /\ e.id = cursor' /\ e.sidecar)
    BY <1>4 DEF Reached, Shelf
  <2>7. CASE e.id = cursor'
    BY <1>1, <1>2, <2>1, <2>4, <2>5, <2>6, <2>7
  <2>8. CASE e.id # cursor'
    BY <2>3, <2>4, <2>5, <2>6, <2>8
  <2> QED
    BY <2>7, <2>8
<1>6. Listed' = {e \in Present' : Reached(e)'}
  <2>1. Listed = {e \in Present : Reached(e)}
    BY DEF SoFar
  <2> QED
    BY <1>3, <1>5, <2>1, SameLibraries
<1>7. capacity' = 3 + Size(1)' + Size(2)' + 2 * Size(3)'
  BY SameLibraries DEF SoFar
<1>8. srv' \in {"row", "sidecar"} /\ cursor' \in rows' \cap files'
  BY <1>1, <1>4
<1> QED
  BY <1>3, <1>6, <1>7, <1>8 DEF SoFar

(* The sidecar is listed.                                                  *)
LEMMA SidecarSoFar ==
  ASSUME LibraryType, BuildInv, SoFar, srv = "sidecar", Add(Sidecar(cursor), "row"),
         UNCHANGED <<k, counts, capacity, cursor, rows, files>>
  PROVE  SoFar'
<1>1. Listed' = Listed \cup {Sidecar(cursor)} /\ InOrder' /\ Sidecar(cursor) \in Present
  BY SidecarIsNext, NextInOrder DEF Add
<1>2. srv' = "row" /\ k = 3 /\ cursor \in Media /\ cursor \in Nat /\ Shelf(cursor) = 3
  <2>1. cursor \in Subtitled /\ k = 3 /\ srv' = "row"
    BY DEF BuildInv, SidecarInv, Add
  <2>2. cursor \in Library[3] /\ cursor \in Media
    BY <2>1, MediaAssumption DEF Library, Media
  <2> QED
    BY <2>1, <2>2, Shelving
<1>3. ASSUME NEW e \in Present PROVE Reached(e)' <=> Reached(e) \/ e = Sidecar(cursor)
  <2>1. /\ e.id \in Media
        /\ e = (IF e.sidecar THEN Sidecar(e.id) ELSE Entry(e.id))
    BY PresentEntries
  <2>2. e.id \in Nat /\ Shelf(e.id) \in 1 .. 3
    BY <2>1, Shelving
  <2>3. e = Sidecar(cursor) <=> e.id = cursor /\ e.sidecar
    <3>1. Sidecar(cursor).id = cursor /\ Sidecar(cursor).sidecar
      BY DEF Sidecar
    <3> QED
      BY <2>1, <3>1
  <2>4. (Reached(e) <=> Shelf(e.id) < 3 \/ (Shelf(e.id) = 3 /\ e.id <= cursor /\ ~(e.id = cursor /\ e.sidecar)))
    BY <1>2 DEF Reached
  <2>5. (Reached(e)' <=> Shelf(e.id) < 3 \/ (Shelf(e.id) = 3 /\ e.id <= cursor))
    BY <1>2 DEF Reached, Shelf
  <2>6. CASE e.id = cursor
    BY <1>2, <2>3, <2>4, <2>5, <2>6
  <2>7. CASE e.id # cursor
    BY <2>3, <2>4, <2>5, <2>7
  <2> QED
    BY <2>6, <2>7
<1>4. Listed' = {e \in Present' : Reached(e)'}
  <2>1. Listed = {e \in Present : Reached(e)}
    BY DEF SoFar
  <2> QED
    BY <1>1, <1>3, <2>1, SameLibraries
<1>5. capacity' = 3 + Size(1)' + Size(2)' + 2 * Size(3)'
  BY SameLibraries DEF SoFar
<1> QED
  BY <1>1, <1>2, <1>4, <1>5 DEF SoFar

(* At the end of a library everything on its shelf is listed.              *)
LEMMA ShelfSoFar ==
  ASSUME LibraryType, BuildInv, SoFar, srv = "row", NoRow, cursor' = 0,
         IF k < 3 THEN k' = k + 1 /\ UNCHANGED srv ELSE k' = 1 /\ srv' = "built",
         UNCHANGED <<counts, capacity, catalog, rows, files>>
  PROVE  SoFar'
<1>1. k \in 1 .. 3 /\ cursor \in Nat /\ \A y \in rows \cap Library[k] : y <= cursor
  BY DEF NoRow, BuildInv, BuildType
<1>2. ASSUME NEW e \in Present
      PROVE  /\ e.id \in Nat \ {0} /\ Shelf(e.id) \in 1 .. 3
             /\ Reached(e) <=> Shelf(e.id) <= k
  <2>1. e.id \in Media /\ e.id \in rows \cap files
    BY PresentEntries
  <2>2. e.id \in Nat \ {0} /\ Shelf(e.id) \in 1 .. 3 /\ (Shelf(e.id) = k => e.id \in Library[k])
    BY <1>1, <2>1, Shelving
  <2>3. Shelf(e.id) = k => e.id <= cursor
    BY <1>1, <2>1, <2>2
  <2>4. (Reached(e) <=> Shelf(e.id) < k \/ (Shelf(e.id) = k /\ e.id <= cursor))
    BY DEF Reached
  <2> QED
    BY <1>1, <2>2, <2>3, <2>4
<1>3. /\ Listed' = Listed /\ (InOrder' <=> InOrder) /\ Present' = Present
      /\ Listed = {e \in Present : Reached(e)} /\ InOrder
  BY SameLibraries DEF Listed, InOrder, Before, Shelf, SoFar
<1>4. CASE k < 3
  <2>1. k' = k + 1 /\ srv' = "row"
    BY <1>4
  <2>2. ASSUME NEW e \in Present PROVE Reached(e)' <=> Shelf(e.id) <= k
    <3>1. Reached(e)' <=> Shelf(e.id) < k + 1 \/ (Shelf(e.id) = k + 1 /\ e.id <= 0)
      BY <2>1 DEF Reached, Shelf
    <3> QED
      BY <1>1, <1>2, <3>1
  <2>3. Listed' = {e \in Present' : Reached(e)'}
    BY <1>2, <1>3, <2>2
  <2>4. capacity' = 3 + Size(1)' + Size(2)' + 2 * Size(3)'
    BY SameLibraries DEF SoFar
  <2> QED
    BY <1>3, <2>1, <2>3, <2>4 DEF SoFar
<1>5. CASE ~(k < 3)
  <2>1. srv' = "built" /\ k = 3
    BY <1>1, <1>5
  <2>2. Listed = Present
    BY <1>2, <1>3, <2>1
  <2> QED
    BY <1>3, <2>1, <2>2 DEF SoFar
<1> QED
  BY <1>4, <1>5

(* Nothing of the catalogue is known until it is allocated, or after its    *)
(* end.                                                                     *)
LEMMA NothingSoFar ==
  ASSUME srv' \in {"idle", "failed"} \/ (srv' = "count" /\ k' = 1)
  PROVE  SoFar'
  BY DEF SoFar

(* The counts are those of the libraries, and the block has room for them. *)
LEMMA CountSoFar ==
  ASSUME LibraryType, BuildInv, SoFar, vcm_library_count \/ Allocate, UNCHANGED <<rows, files>>
  PROVE  SoFar'
<1>1. CASE vcm_library_count
  <2>1. /\ srv = "count" /\ counts' = [counts EXCEPT ![k] = Size(k)]
        /\ IF k < 3 THEN k' = k + 1 /\ UNCHANGED srv ELSE k' = 1 /\ srv' = "allocate"
        /\ k \in 1 .. 3 /\ counts \in [1 .. 3 -> Nat]
    BY <1>1 DEF vcm_library_count, Size, BuildInv, BuildType
  <2>2. \A l \in 1 .. k : counts'[l] = Size(l)'
    <3>1. \A l \in 1 .. k - 1 : counts[l] = Size(l)
      BY <2>1 DEF SoFar
    <3> QED
      BY <2>1, <3>1, SameLibraries
  <2>3. srv' = "count" => k' = k + 1
    BY <2>1
  <2>4. srv' = "allocate" => k = 3
    BY <2>1
  <2>5. srv' \in {"count", "allocate"}
    BY <2>1
  <2> QED
    BY <2>1, <2>2, <2>3, <2>4, <2>5 DEF SoFar
<1>2. CASE Allocate /\ srv' = "failed"
  BY <1>2, NothingSoFar
<1>3. CASE Allocate /\ srv' # "failed"
  <2>1. /\ srv = "allocate" /\ srv' = "row" /\ capacity' = Needed /\ catalog' = Folders
        /\ UNCHANGED <<k, cursor>>
    BY <1>3, Zenon DEF Allocate
  <2>2. \A l \in 1 .. 3 : counts[l] = Size(l)'
    BY <2>1, SameLibraries DEF SoFar
  <2>3. capacity' = 3 + Size(1)' + Size(2)' + 2 * Size(3)'
    <3>1. counts[1] = Size(1)' /\ counts[2] = Size(2)' /\ counts[3] = Size(3)'
      BY <2>2
    <3> QED
      BY <2>1, <3>1 DEF Needed
  <2>4. 4 .. Len(catalog') = {}
    BY <2>1 DEF Folders
  <2>5. Listed' = {} /\ InOrder'
    BY <2>4 DEF Listed, InOrder
  <2>6. k' = 1 /\ cursor' = 0
    BY <2>1 DEF BuildInv, SidecarInv
  <2>7. ASSUME NEW e \in Present PROVE ~Reached(e)'
    <3>1. e.id \in Media
      BY PresentEntries
    <3>2. e.id \in Nat \ {0} /\ Shelf(e.id) \in 1 .. 3
      BY <3>1, Shelving
    <3>3. Reached(e)' => Shelf(e.id) < 1 \/ e.id <= 0
      BY <2>6 DEF Reached, Shelf
    <3> QED
      BY <3>2, <3>3
  <2>8. Listed' = {e \in Present' : Reached(e)'}
    BY <2>5, <2>7, SameLibraries
  <2> QED
    BY <2>1, <2>3, <2>5, <2>8 DEF SoFar
<1> QED
  BY <1>1, <1>2, <1>3

(* A step of the build.  It fails by itself only over a name: there always *)
(* is room.                                                                *)
LEMMA QuietBuild ==
  ASSUME LibraryType, BuildInv, SoFar, UNCHANGED <<rows, files>>,
         \/ vcm_library_count \/ Allocate \/ vcm_library_enumerate \/ SidecarRow \/ QueryFails
         \/ BuildEnds
  PROVE  SoFar' /\ (srv' = "failed" => faulted' \/ srv = "failed" \/ NameRefused')
<1>1. CASE vcm_library_count
  <2>1. srv' # "failed"
    BY <1>1 DEF vcm_library_count
  <2> QED
    BY <1>1, <2>1, CountSoFar
<1>2. CASE Allocate
  <2>1. srv' = "failed" => faulted'
    <3>1. CASE srv' = "row"
      BY <3>1
    <3>2. CASE faulted' = TRUE
      BY <3>2
    <3> QED
      BY <1>2, <3>1, <3>2, Zenon DEF Allocate
  <2> QED
    BY <1>2, <2>1, CountSoFar
<1>3. CASE vcm_library_enumerate
  <2>0. srv = "row" /\ UNCHANGED <<counts, capacity>>
    BY <1>3 DEF vcm_library_enumerate
  <2>1. CASE /\ NextRow(cursor') /\ UNCHANGED k
             /\ cursor' \notin files /\ UNCHANGED <<srv, catalog>>
    <3>1. SoFar'
      BY <2>0, <2>1, SkipSoFar
    <3> QED
      BY <2>0, <2>1, <3>1
  <2>2. CASE /\ NextRow(cursor') /\ UNCHANGED k /\ cursor' \in files
             /\ Add(Entry(cursor'), IF cursor' \in Subtitled THEN "sidecar" ELSE "row")
    <3>1. SoFar'
      BY <2>0, <2>2, RowSoFar
    <3>2. srv' # "failed"
      BY <2>2 DEF Add
    <3> QED
      BY <3>1, <3>2
  <2>3. CASE NextRow(cursor') /\ cursor' \in files /\ ~Fits(cursor') /\ srv' = "failed"
    <3>1. Len(catalog) < capacity
      BY <2>0, <2>3, RowIsNext, NextInOrder
    <3>2. cursor' \in BadNames /\ cursor' \in rows'
      BY <2>3, <3>1 DEF Fits, NextRow
    <3>3. NameRefused'
      BY <2>3, <3>2 DEF NameRefused
    <3> QED
      BY <2>3, <3>3, NothingSoFar
  <2>4. CASE /\ NoRow
             /\ IF k < 3 THEN k' = k + 1 /\ UNCHANGED srv ELSE k' = 1 /\ srv' = "built"
             /\ cursor' = 0 /\ UNCHANGED catalog
    <3>1. SoFar'
      BY <2>0, <2>4, ShelfSoFar
    <3>2. srv' # "failed"
      BY <2>0, <2>4
    <3> QED
      BY <3>1, <3>2
  <2> QED
    BY <1>3, <2>1, <2>2, <2>3, <2>4, EnumerationStep DEF BuildInv
<1>4. CASE SidecarRow
  <2>0. srv = "sidecar" /\ UNCHANGED <<k, counts, capacity, cursor>>
    BY <1>4 DEF SidecarRow
  <2>1. CASE Add(Sidecar(cursor), "row")
    <3>1. SoFar'
      BY <2>0, <2>1, SidecarSoFar
    <3>2. srv' # "failed"
      BY <2>1 DEF Add
    <3> QED
      BY <3>1, <3>2
  <2>2. CASE ~Fits(cursor) /\ srv' = "failed"
    <3>1. Len(catalog) < capacity
      BY <2>0, SidecarIsNext, NextInOrder
    <3>2. cursor \in BadNames /\ cursor \in rows' \cap files'
      BY <2>0, <2>2, <3>1 DEF Fits, SoFar
    <3>3. NameRefused'
      BY <3>2 DEF NameRefused
    <3> QED
      BY <2>2, <3>3, NothingSoFar
  <2> QED
    BY <1>4, <2>1, <2>2 DEF SidecarRow
<1>5. CASE QueryFails
  <2>1. srv' = "failed" /\ faulted' = TRUE
    BY <1>5, Zenon DEF QueryFails
  <2> QED
    BY <2>1, NothingSoFar
<1>6. CASE BuildEnds
  <2>1. srv' = "idle"
    BY <1>6 DEF BuildEnds
  <2> QED
    BY <2>1, NothingSoFar
<1> QED
  BY <1>1, <1>2, <1>3, <1>4, <1>5, <1>6

(* QuietInv is about these variables only.                                 *)
LEMMA QuietFrame ==
  ASSUME QuietInv, UNCHANGED <<rows, files, snapshot, quiet>>
  PROVE  QuietInv'
<1>1. /\ rows' = rows /\ files' = files /\ srv' = srv /\ k' = k /\ counts' = counts
      /\ capacity' = capacity /\ catalog' = catalog /\ cursor' = cursor
  BY Zenon DEF snapshot
<1>2. faulted' = faulted /\ quiet' = quiet
  BY Zenon DEF snapshot
<1>3. Present' = Present /\ Listed' = Listed /\ (InOrder => InOrder') /\ (NameRefused => NameRefused')
  BY <1>1 DEF Present, Listed, InOrder, NameRefused, Before, Shelf
<1>4. \A e : Reached(e)' = Reached(e)
  BY <1>1, Zenon DEF Reached, Shelf
<1>5. \A l : Size(l)' = Size(l)
  BY <1>1, Zenon DEF Size
<1>6. SoFar => SoFar'
  BY <1>1, <1>3, <1>4, <1>5 DEF SoFar
<1>7. ASSUME quiet' PROVE SoFar' /\ (srv' = "failed" => faulted' \/ NameRefused')
  <2>1. quiet
    BY <1>2, <1>7, Zenon
  <2>2. SoFar /\ (srv = "failed" => faulted \/ NameRefused)
    BY <2>1, Zenon DEF QuietInv
  <2>3. srv' = "failed" => faulted \/ NameRefused'
    BY <1>1, <1>3, <2>2
  <2> QED
    BY <1>2, <1>6, <2>2, <2>3, Zenon
<1> QED
  BY <1>7, Zenon DEF QuietInv

(* Every step keeps the catalogue true, or the libraries have changed.     *)
LEMMA QuietStep == LibraryType /\ BuildInv /\ QuietInv /\ [Next]_vars => QuietInv'
<1> SUFFICES ASSUME LibraryType, BuildInv, QuietInv, [Next]_vars PROVE QuietInv'
  OBVIOUS
<1>1. CASE UNCHANGED <<rows, files, snapshot, quiet>>
  BY <1>1, QuietFrame
<1>2. CASE quiet' = FALSE
  BY <1>2, Zenon DEF QuietInv
<1>3. CASE BuildBegins
  <2>1. srv' = "count" /\ k' = 1
    BY <1>3, Zenon DEF BuildBegins
  <2>2. SoFar' /\ srv' # "failed"
    BY <2>1, NothingSoFar
  <2> QED
    BY <2>2, Zenon DEF QuietInv
<1>4. CASE Build
  <2>1. /\ \/ vcm_library_count \/ Allocate \/ vcm_library_enumerate \/ SidecarRow \/ QueryFails
           \/ BuildEnds
        /\ UNCHANGED <<rows, files>> /\ quiet' = quiet
    BY <1>4, Zenon DEF Build, library
  <2>2. ASSUME quiet PROVE SoFar' /\ (srv' = "failed" => faulted' \/ NameRefused')
    <3>1. SoFar
      BY <2>2, Zenon DEF QuietInv
    <3>2. SoFar' /\ (srv' = "failed" => faulted' \/ srv = "failed" \/ NameRefused')
      BY <2>1, <3>1, QuietBuild
    <3>3. srv = "failed" => srv' # "failed"
      BY <2>1 DEF vcm_library_count, Allocate, vcm_library_enumerate, SidecarRow, QueryFails, BuildEnds
    <3> QED
      BY <3>2, <3>3, Zenon
  <2> QED
    BY <2>1, <2>2, Zenon DEF QuietInv
<1>5. CASE Done \/ UNCHANGED vars
  BY <1>1, <1>5 DEF Done, vars, library
<1>6. CASE \/ EnsureMusicAccess \/ mount_music_for_file_import \/ vcm_library_audit_music
           \/ (\E u \in {"importer", "audit"} : Leaves(u)) \/ Exit
           \/ (\E t \in Threads : initialize_database(t))
  BY <1>1, <1>6 DEF EnsureMusicAccess, mount_music_for_file_import, vcm_library_audit_music,
                    Leaves, Exit, initialize_database, library
<1>7. CASE ImportSong \/ MediaChange
  BY <1>2, <1>7, Zenon DEF ImportSong, MediaChange
<1>8. CASE vcm_sync_import
  <2>1. quiet' = FALSE \/ UNCHANGED <<rows, files, snapshot, quiet>>
    BY <1>8 DEF vcm_sync_import
  <2> QED
    BY <1>1, <1>2, <2>1
<1> QED
  BY <1>3, <1>4, <1>5, <1>6, <1>7, <1>8 DEF Next

(* The first three entries are the folders.                                *)
LEMMA FoldersFirst ==
  ASSUME BuildInv, srv = "built"
  PROVE  SubSeq(catalog, 1, 3) = Folders
<1>1. catalog \in Seq(EntryType) /\ Len(catalog) \in Nat /\ Len(catalog) >= 3
      /\ \A i \in 1 .. 3 : catalog[i] = Folders[i]
  BY DEF BuildInv, BuildType, SidecarInv
<1>2. /\ SubSeq(catalog, 1, 3) \in Seq(EntryType) /\ Len(SubSeq(catalog, 1, 3)) = 3
      /\ \A i \in 1 .. 3 : SubSeq(catalog, 1, 3)[i] = catalog[i]
  BY <1>1
<1> QED
  BY <1>1, <1>2, FolderEntries, SeqEqual

(* While the libraries stay as they are, a catalogue lists every medium     *)
(* with a row and a file once, in the order of libraries and numbers, each  *)
(* sidecar behind its video; building it fails only if memory, a query or   *)
(* a name does.                                                             *)
THEOREM CompleteBuild == Spec => []QuietBuildIsComplete
<1>1. Init => QuietInv
  <2>1. Init => srv = "idle"
    BY DEF Init
  <2> QED
    BY <2>1 DEF QuietInv, SoFar
<1>2. LibraryType /\ BuildInv /\ QuietInv => QuietBuildIsComplete
  <2> SUFFICES ASSUME BuildInv, QuietInv, quiet
               PROVE  /\ srv = "built" => /\ SubSeq(catalog, 1, 3) = Folders /\ Listed = Present
                                          /\ InOrder
                      /\ srv = "failed" => faulted \/ BadNames \cap rows \cap files # {}
    BY DEF QuietBuildIsComplete
  <2>1. SoFar /\ (srv = "failed" => faulted \/ NameRefused)
    BY Zenon DEF QuietInv
  <2> QED
    BY <2>1, FoldersFirst DEF SoFar, NameRefused
<1> QED
  BY <1>1, <1>2, BuildInvariance, QuietStep, PTL DEF Spec

-----------------------------------------------------------------------------
(* Types.                                                                  *)

(* The two history flags of the build are Boolean.                         *)
LEMMA FlagsStep ==
  ASSUME quiet \in BOOLEAN, faulted \in BOOLEAN, [Next]_vars
  PROVE  quiet' \in BOOLEAN /\ faulted' \in BOOLEAN
<1>1. CASE UNCHANGED <<snapshot, quiet>>
  BY <1>1, Zenon DEF snapshot
<1>2. CASE \/ EnsureMusicAccess \/ mount_music_for_file_import \/ vcm_library_audit_music
           \/ (\E u \in {"importer", "audit"} : Leaves(u)) \/ Exit
           \/ (\E t \in Threads : initialize_database(t)) \/ Done \/ UNCHANGED vars
  BY <1>1, <1>2, Zenon DEF EnsureMusicAccess, mount_music_for_file_import, vcm_library_audit_music,
                           Leaves, Exit, initialize_database, Done, vars
<1>3. CASE ImportSong \/ MediaChange \/ vcm_sync_import
  <2>1. UNCHANGED snapshot /\ (quiet' = FALSE \/ quiet' = quiet)
    BY <1>3 DEF ImportSong, MediaChange, vcm_sync_import
  <2> QED
    BY <2>1, Zenon DEF snapshot
<1>4. CASE BuildBegins
  BY <1>4, Zenon DEF BuildBegins
<1>5. CASE Build
  <2>1. quiet' = quiet
    BY <1>5, Zenon DEF Build
  <2>2. faulted' \in {faulted, TRUE, FALSE}
    BY <1>5, Zenon DEF Build, vcm_library_count, Allocate, vcm_library_enumerate, SidecarRow,
                       QueryFails, BuildEnds
  <2> QED
    BY <2>1, <2>2, Zenon
<1> QED
  BY <1>2, <1>3, <1>4, <1>5, Zenon DEF Next

(* Every variable keeps its type, for any libraries.                       *)
THEOREM TypeCorrect == Spec => []TypeOK
<1> DEFINE Flags == quiet \in BOOLEAN /\ faulted \in BOOLEAN
<1>1. Init => Flags
  BY Zenon DEF Init
<1>2. Flags /\ [Next]_vars => Flags'
  BY FlagsStep, Zenon
<1>3. AccessInv /\ BootType /\ LibraryType /\ BuildInv /\ Flags => TypeOK
  BY Zenon DEF AccessInv, AccessType, BootType, LibraryType, BuildInv, BuildType, EntryType, TypeOK
<1> HIDE DEF Flags
<1> QED
  BY <1>1, <1>2, <1>3, AccessInvariance, BootInvariance, BuildInvariance, PTL DEF Spec
=============================================================================
