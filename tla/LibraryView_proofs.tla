------------------------- MODULE LibraryView_proofs -------------------------
(***************************************************************************)
(* Proofs about LibraryView, for any Vitas, folders, libraries and page    *)
(* size, and any order in which answers, clicks, cables and library        *)
(* changes come.                                                           *)
(*                                                                         *)
(* The inductive invariant ties the continuations to the view they belong  *)
(* to (LoadInv), says where every item shown came from and under which ID  *)
(* (ShownInv), how far the pages got (PagesInv), that the IDs of a USB     *)
(* catalogue are unique (CatalogueInv), and what a copy under way refers   *)
(* to (CopyInv).                                                           *)
(***************************************************************************)
EXTENDS LibraryView, FiniteSetTheorems, SequenceTheorems, TLAPS

(* The types the proofs need.                                              *)
TypeInv ==
  /\ kind \in Kinds /\ items \in Seq(Item) /\ next \in Nat \cup {-1}
  /\ generation \in 0 .. MaxViews /\ transport \in {"usb", "wifi"} /\ address \in Vitas
  /\ loads \subseteq Load /\ rows \in [Vitas -> [Kinds -> SUBSET Ids]]
  /\ usb \in {NoCable} \cup [Kinds -> Seq(Item)]
  /\ open => generation >= 1

Mine == {l \in loads : l.gen = generation}

(* No load is of a view to come.  The open view has at most one, of its     *)
(* folder and address, which asks for the page that is to come next; it     *)
(* has one exactly while it says so.                                        *)
LoadInv ==
  /\ \A l \in loads : l.gen <= generation
  /\ open => /\ \A l \in Mine : /\ l.kind = kind /\ (l.ip = address \/ moved)
                                /\ l.phase = "page" => l.offset = next
             /\ \A l, m \in Mine : l = m
             /\ loading <=> Mine # {}

Entries == UNION {Range(UsbFolder(k)) : k \in Kinds}

(* An item shown is a row of the folder at the address, under its number,   *)
(* or an object of the cabled Vita, under the ID it has in the catalogue    *)
(* that is or was connected.                                                *)
Shown(it) ==
  /\ it.media[2] = kind
  /\ \/ it.id = <<"wifi", it.media[3]>> /\ (it.media[1] = address \/ moved)
     \/ it.id[1] = "usb" /\ it.media[1] = Cabled /\ (replugged \/ usb = NoCable \/ it \in Entries)

ShownInv ==
  open => /\ next >= 0 => next = Len(items)
          /\ \A i \in DOMAIN items : Shown(items[i])

(* Pages of one transport are the beginning of the folder, and all of it    *)
(* at the end.                                                              *)
PagesOf(via) ==
  LET folder == Folder(via, address, kind)
  IN /\ Len(items) <= Len(folder) /\ items = SubSeq(folder, 1, Len(items))
     /\ next = -1 /\ transport = via => Len(items) = Len(folder)
PagesInv ==
  open /\ ~changed /\ ~moved =>
    \A via \in {"usb", "wifi"} : (\A i \in DOMAIN items : items[i].id[1] = via) => PagesOf(via)

(* Objects of the catalogue are media of the cabled Vita, each under an ID  *)
(* of its own.                                                              *)
CatalogueInv ==
  /\ \A k \in Kinds : \A e \in Range(UsbFolder(k)) :
       e.id[1] = "usb" /\ e.media[1] = Cabled /\ e.media[2] = k
  /\ \A e, f \in Entries : e.id = f.id => e = f

(* A copy is of the open view.                                             *)
CopyInv ==
  copying => /\ open /\ copy.kind = kind /\ (copy.ip = address \/ moved)
             /\ copy.items \subseteq Range(items)

IInv == TypeInv /\ LoadInv /\ ShownInv /\ PagesInv /\ CatalogueInv /\ CopyInv

-----------------------------------------------------------------------------
(* Folders.                                                                *)

RowsType == rows \in [Vitas -> [Kinds -> SUBSET Ids]]

(* A folder as a transport lists it.                                       *)
LEMMA MediaType ==
  ASSUME RowsType, NEW via \in {"usb", "wifi"}, NEW v \in Vitas, NEW k \in Kinds
  PROVE  /\ Media(via, v, k) \in Seq(Vitas \X Kinds \X Ids)
         /\ \A i \in DOMAIN Media(via, v, k) :
              \E n \in rows[v][k] : Media(via, v, k)[i] = <<v, k, n>>
<1> DEFINE ns == InOrder[via][rows[v][k]]
<1>1. rows[v][k] \in SUBSET Ids
  BY DEF RowsType
<1>2. ns \in Seq(Ids) /\ Range(ns) = rows[v][k]
  BY <1>1, ViewAssumption
<1>3. Len(ns) \in Nat /\ DOMAIN ns = 1 .. Len(ns) /\ \A i \in DOMAIN ns : ns[i] \in Ids
  BY <1>2
<1>4. Media(via, v, k) = [i \in DOMAIN ns |-> <<v, k, ns[i]>>]
  BY DEF Media
<1>5. \A i \in DOMAIN ns : ns[i] \in rows[v][k]
  BY <1>2 DEF Range
<1> HIDE DEF ns
<1>6. Media(via, v, k) \in [1 .. Len(ns) -> Vitas \X Kinds \X Ids]
  BY <1>3, <1>4
<1>7. Media(via, v, k) \in Seq(Vitas \X Kinds \X Ids)
  BY <1>3, <1>6, SeqDef
<1> QED
  BY <1>4, <1>5, <1>7

(* Over Wi-Fi an item goes by its number.                                  *)
LEMMA WifiItems ==
  ASSUME RowsType, NEW v \in Vitas, NEW k \in Kinds
  PROVE  /\ WifiFolder(v, k) \in Seq(Item)
         /\ \A i \in DOMAIN WifiFolder(v, k) :
              LET e == WifiFolder(v, k)[i]
              IN e.media[1] = v /\ e.media[2] = k /\ e.id = <<"wifi", e.media[3]>>
<1> DEFINE ms == Media("wifi", v, k)
           F == WifiFolder(v, k)
<1>1. ms \in Seq(Vitas \X Kinds \X Ids) /\ \A i \in DOMAIN ms : \E n \in rows[v][k] : ms[i] = <<v, k, n>>
  BY MediaType
<1>2. F = [i \in DOMAIN ms |-> [media |-> ms[i], id |-> <<"wifi", ms[i][3]>>]]
  BY DEF WifiFolder
<1>3. Len(ms) \in Nat /\ DOMAIN ms = 1 .. Len(ms)
  BY <1>1
<1> HIDE DEF ms, F
<1>4. ASSUME NEW i \in DOMAIN ms
      PROVE  /\ F[i] \in Item /\ F[i].media[1] = v /\ F[i].media[2] = k
             /\ F[i].id = <<"wifi", F[i].media[3]>>
  <2>1. PICK n \in rows[v][k] : ms[i] = <<v, k, n>>
    BY <1>1
  <2>2. F[i] = [media |-> <<v, k, n>>, id |-> <<"wifi", n>>]
    BY <1>2, <2>1
  <2>3. n \in Ids /\ n \in Nat
    BY ViewAssumption DEF RowsType
  <2> QED
    BY <2>2, <2>3 DEF Item
<1>5. F \in [1 .. Len(ms) -> Item]
  BY <1>2, <1>3, <1>4
<1>6. F \in Seq(Item)
  BY <1>3, <1>5, SeqDef
<1> QED
  BY <1>2, <1>4, <1>6 DEF F

(* The folders of the connected catalogue.                                 *)
LEMMA FolderItems ==
  ASSUME TypeInv, CatalogueInv, NEW via \in {"usb", "wifi"}, NEW v \in Vitas, NEW k \in Kinds
  PROVE  /\ Folder(via, v, k) \in Seq(Item)
         /\ \A i \in DOMAIN Folder(via, v, k) :
              LET e == Folder(via, v, k)[i]
              IN /\ e.media[2] = k /\ e.id[1] = via
                 /\ \/ e.id = <<"wifi", e.media[3]>> /\ e.media[1] = v
                    \/ e.id[1] = "usb" /\ e.media[1] = Cabled /\ e \in Entries
<1>0. RowsType
  BY DEF RowsType, TypeInv
<1>1. CASE via = "usb"
  <2>1. Folder(via, v, k) = UsbFolder(k)
    BY <1>1 DEF Folder
  <2>2. UsbFolder(k) \in Seq(Item)
    BY DEF UsbFolder, TypeInv
  <2>3. ASSUME NEW i \in DOMAIN UsbFolder(k)
        PROVE  /\ UsbFolder(k)[i].id[1] = "usb" /\ UsbFolder(k)[i].media[1] = Cabled
               /\ UsbFolder(k)[i].media[2] = k /\ UsbFolder(k)[i] \in Entries
    <3>1. UsbFolder(k)[i] \in Range(UsbFolder(k))
      BY DEF Range
    <3> QED
      BY <3>1 DEF CatalogueInv, Entries
  <2> QED
    BY <1>1, <2>1, <2>2, <2>3
<1>2. CASE via = "wifi"
  <2>1. Folder(via, v, k) = WifiFolder(v, k)
    BY <1>2 DEF Folder
  <2>2. ASSUME NEW i \in DOMAIN WifiFolder(v, k)
        PROVE  LET e == WifiFolder(v, k)[i]
               IN e.media[2] = k /\ e.id[1] = "wifi" /\ e.id = <<"wifi", e.media[3]>> /\ e.media[1] = v
    BY <1>0, WifiItems
  <2> QED
    BY <1>0, <1>2, <2>1, <2>2, WifiItems
<1> QED
  BY <1>1, <1>2

(* The media before a medium, in the order of the catalogue.               *)
UpTo(k, n) ==
  {m \in Kinds \X Ids : /\ m[2] \in rows[Cabled][m[1]]
                        /\ Rank(m[1]) < Rank(k) \/ (m[1] = k /\ m[2] <= n)}

(* There are three folders at most.                                        *)
LEMMA KindsFinite == IsFiniteSet(Kinds)
<1>1. IsFiniteSet({"photo"})
  BY FS_Singleton
<1>2. IsFiniteSet({"photo"} \cup {"music"})
  BY <1>1, FS_AddElement
<1>3. IsFiniteSet(({"photo"} \cup {"music"}) \cup {"video"})
  BY <1>2, FS_AddElement
<1>4. {"photo", "music", "video"} = ({"photo"} \cup {"music"}) \cup {"video"}
  OBVIOUS
<1>5. IsFiniteSet({"photo", "music", "video"}) /\ Kinds \in SUBSET {"photo", "music", "video"}
  BY <1>3, <1>4, ViewAssumption
<1> QED
  BY <1>5, FS_Subset

(* A medium before another has the smaller position.                       *)
LEMMA PositionGrows ==
  ASSUME RowsType, NEW j \in Kinds, NEW k \in Kinds, NEW m \in rows[Cabled][j], NEW n \in rows[Cabled][k],
         Rank(j) < Rank(k) \/ (j = k /\ m < n)
  PROVE  Position(j, m) < Position(k, n) /\ Position(j, m) \in Nat
<1>0. /\ Kinds \subseteq {"photo", "music", "video"} /\ IsFiniteSet(Kinds \X Ids) /\ Ids \subseteq Nat
      /\ m \in Ids /\ n \in Ids
  <2>3. IsFiniteSet(Kinds \X Ids)
    BY KindsFinite, FS_Product, ViewAssumption
  <2> QED
    BY <2>3, ViewAssumption DEF RowsType
<1>1. UpTo(j, m) \subseteq UpTo(k, n) /\ UpTo(k, n) \subseteq Kinds \X Ids
  <2>1. ASSUME NEW x \in UpTo(j, m) PROVE x \in UpTo(k, n)
    <3>1. /\ x \in Kinds \X Ids /\ x[1] \in Kinds /\ x[2] \in Ids /\ x[2] \in rows[Cabled][x[1]]
          /\ Rank(x[1]) < Rank(j) \/ (x[1] = j /\ x[2] <= m)
      BY <2>1 DEF UpTo
    <3>2. Rank(x[1]) < Rank(k) \/ (x[1] = k /\ x[2] <= n)
      <4>1. \A a \in Kinds : Rank(a) \in Nat
        BY DEF Rank
      <4>2. m \in Nat /\ n \in Nat /\ x[2] \in Nat
        BY <1>0, <3>1
      <4> QED
        BY <3>1, <4>1, <4>2
    <3> QED
      BY <3>1, <3>2 DEF UpTo
  <2>2. UpTo(k, n) \subseteq Kinds \X Ids
    BY DEF UpTo
  <2> QED
    BY <2>1, <2>2
<1>2. <<k, n>> \in UpTo(k, n) /\ <<k, n>> \notin UpTo(j, m)
  <2> DEFINE x == <<k, n>>
  <2>1. x \in Kinds \X Ids /\ x[1] = k /\ x[2] = n
    BY <1>0
  <2>2. n \in Nat /\ m \in Nat /\ Rank(j) \in Nat /\ Rank(k) \in Nat
    BY <1>0 DEF Rank
  <2>3. ~(Rank(k) < Rank(j) \/ (k = j /\ n <= m))
    BY <1>0, <2>2
  <2> HIDE DEF x
  <2>4. x \in UpTo(k, n)
    BY <2>1, <2>2 DEF UpTo
  <2>5. x \notin UpTo(j, m)
    BY <2>1, <2>3 DEF UpTo
  <2> QED
    BY <2>4, <2>5 DEF x
<1>4. IsFiniteSet(UpTo(k, n)) /\ IsFiniteSet(UpTo(j, m))
  BY <1>0, <1>1, FS_Subset
<1>5. Cardinality(UpTo(j, m)) < Cardinality(UpTo(k, n))
  <2> DEFINE A == UpTo(j, m)
             B == UpTo(k, n)
  <2>1. A \in SUBSET B /\ A # B /\ IsFiniteSet(B) /\ IsFiniteSet(A)
    BY <1>1, <1>2, <1>4
  <2> HIDE DEF A, B
  <2>2. Cardinality(A) <= Cardinality(B) /\ Cardinality(A) # Cardinality(B)
    BY <2>1, FS_Subset
  <2>3. Cardinality(A) \in Nat /\ Cardinality(B) \in Nat
    BY <2>1, FS_CardinalityType
  <2>4. Cardinality(A) < Cardinality(B)
    BY <2>2, <2>3
  <2> QED
    BY <2>4 DEF A, B
<1>6. Cardinality(UpTo(j, m)) \in Nat
  BY <1>4, FS_CardinalityType
<1>7. Position(j, m) = Cardinality(UpTo(j, m)) /\ Position(k, n) = Cardinality(UpTo(k, n))
  BY DEF Position, UpTo
<1> QED
  BY <1>5, <1>6, <1>7

(* So a catalogue gives every object an ID of its own.                     *)
LEMMA PositionIsUnique ==
  ASSUME RowsType, NEW j \in Kinds, NEW k \in Kinds, NEW m \in rows[Cabled][j], NEW n \in rows[Cabled][k],
         Position(j, m) = Position(k, n)
  PROVE  j = k /\ m = n
<1>1. m \in Nat /\ n \in Nat
  BY ViewAssumption DEF RowsType
<1>2. /\ Rank(j) \in Nat /\ Rank(k) \in Nat
      /\ Rank(j) = Rank(k) => j = k
  BY ViewAssumption DEF Rank
<1>3. CASE Rank(j) < Rank(k) \/ (j = k /\ m < n)
  <2>1. Position(j, m) < Position(k, n) /\ Position(j, m) \in Nat
    BY <1>3, PositionGrows
  <2> QED
    BY <2>1
<1>4. CASE Rank(k) < Rank(j) \/ (k = j /\ n < m)
  <2>1. Position(k, n) < Position(j, m) /\ Position(k, n) \in Nat
    BY <1>4, PositionGrows
  <2> QED
    BY <2>1
<1> QED
  BY <1>1, <1>2, <1>3, <1>4

(* A position is a number.                                                 *)
LEMMA PositionType ==
  ASSUME RowsType, NEW k \in Kinds, NEW n \in rows[Cabled][k]
  PROVE  Position(k, n) \in Nat
<1>1. IsFiniteSet(Kinds \X Ids)
  BY KindsFinite, FS_Product, ViewAssumption
<1>2. UpTo(k, n) \subseteq Kinds \X Ids
  BY DEF UpTo
<1>3. IsFiniteSet(UpTo(k, n))
  BY <1>1, <1>2, FS_Subset
<1>4. Cardinality(UpTo(k, n)) \in Nat
  BY <1>3, FS_CardinalityType
<1> QED
  BY <1>4 DEF Position, UpTo

(* What is plugged in is a catalogue of the cabled Vita.                   *)
LEMMA CatalogueItems ==
  ASSUME RowsType
  PROVE  /\ Catalogue \in [Kinds -> Seq(Item)]
         /\ \A k \in Kinds : \A i \in DOMAIN Catalogue[k] :
              \E n \in rows[Cabled][k] :
                Catalogue[k][i] = [media |-> <<Cabled, k, n>>, id |-> <<"usb", Position(k, n)>>]
<1>1. ASSUME NEW k \in Kinds
      PROVE  /\ Catalogue[k] \in Seq(Item)
             /\ \A i \in DOMAIN Catalogue[k] :
                  \E n \in rows[Cabled][k] :
                    Catalogue[k][i] = [media |-> <<Cabled, k, n>>, id |-> <<"usb", Position(k, n)>>]
  <2> DEFINE ms == Media("usb", Cabled, k)
             F == Catalogue[k]
  <2>1. /\ ms \in Seq(Vitas \X Kinds \X Ids)
        /\ \A i \in DOMAIN ms : \E n \in rows[Cabled][k] : ms[i] = <<Cabled, k, n>>
    BY MediaType, ViewAssumption
  <2>2. F = [i \in DOMAIN ms |-> [media |-> ms[i], id |-> <<"usb", Position(k, ms[i][3])>>]]
    BY DEF Catalogue
  <2>3. Len(ms) \in Nat /\ DOMAIN ms = 1 .. Len(ms)
    BY <2>1
  <2> HIDE DEF ms, F
  <2>4. ASSUME NEW i \in DOMAIN ms
        PROVE  /\ F[i] \in Item
               /\ \E n \in rows[Cabled][k] :
                    F[i] = [media |-> <<Cabled, k, n>>, id |-> <<"usb", Position(k, n)>>]
    <3>1. PICK n \in rows[Cabled][k] : ms[i] = <<Cabled, k, n>>
      BY <2>1
    <3>2. F[i] = [media |-> <<Cabled, k, n>>, id |-> <<"usb", Position(k, n)>>]
      BY <2>2, <3>1
    <3>3. n \in Ids /\ Position(k, n) \in Nat /\ Cabled \in Vitas
      BY PositionType, ViewAssumption DEF RowsType
    <3> QED
      BY <3>2, <3>3 DEF Item
  <2>5. F \in [1 .. Len(ms) -> Item]
    BY <2>2, <2>3, <2>4
  <2>6. F \in Seq(Item)
    BY <2>3, <2>5, SeqDef
  <2> QED
    BY <2>2, <2>4, <2>6 DEF F
<1>2. DOMAIN Catalogue = Kinds /\ Catalogue = [k \in Kinds |-> Catalogue[k]]
  BY DEF Catalogue
<1> QED
  BY <1>1, <1>2

-----------------------------------------------------------------------------
(* Pages.                                                                  *)

(* A page is a part of the folder; there is a next one only if it is full. *)
LEMMA PageOf ==
  ASSUME NEW F \in Seq(Item), NEW offset \in Nat
  PROVE  LET p == vcm_library_list(F, offset)
         IN /\ p.rows \in Seq(Item) /\ p.next \in Nat \cup {-1}
            /\ \A i \in DOMAIN p.rows : p.rows[i] \in Range(F)
            /\ p.next >= 0 => p.next = offset + Len(p.rows)
            /\ offset <= Len(F) => /\ SubSeq(F, 1, offset) \o p.rows = SubSeq(F, 1, offset + Len(p.rows))
                                   /\ offset + Len(p.rows) <= Len(F)
                                   /\ p.next = -1 => offset + Len(p.rows) = Len(F)
<1> DEFINE end == offset + PageSize
           last == IF end < Len(F) THEN end ELSE Len(F)
           rs == SubSeq(F, offset + 1, last)
           nx == IF Len(F) > end THEN end ELSE -1
<1>0. Len(F) \in Nat /\ PageSize \in Nat /\ PageSize > 0 /\ end \in Nat /\ last \in Nat /\ last <= Len(F)
  BY ViewAssumption
<1>1. vcm_library_list(F, offset).rows = rs /\ vcm_library_list(F, offset).next = nx
  BY DEF vcm_library_list
<1>2. CASE offset < Len(F)
  <2>1. offset + 1 <= last
    BY <1>0, <1>2
  <2>2. /\ rs \in Seq(Item) /\ Len(rs) = last - offset
        /\ \A i \in 1 .. last - offset : rs[i] = F[offset + i] /\ offset + i \in 1 .. Len(F)
    <3>1. \A i \in offset + 1 .. last : F[i] \in Item
      BY <1>0
    <3> HIDE DEF last
    <3>2. rs \in Seq(Item) /\ Len(rs) = last - (offset + 1) + 1
      BY <1>0, <2>1
    <3>3. \A i \in 1 .. last - offset : rs[i] = F[offset + i]
      BY <1>0, <2>1
    <3> HIDE DEF rs
    <3> QED
      BY <1>0, <3>2, <3>3
  <2>3. \A i \in DOMAIN rs : rs[i] \in Range(F)
    <3>1. DOMAIN rs = 1 .. last - offset /\ DOMAIN F = 1 .. Len(F)
      BY <1>0, <2>2
    <3> HIDE DEF rs, last
    <3> QED
      BY <2>2, <3>1 DEF Range
  <2>4. SubSeq(F, 1, offset) \o rs = SubSeq(F, 1, last)
    <3>1. 1 \in 1 .. Len(F) + 1 /\ offset \in 1 - 1 .. Len(F) /\ last \in offset .. Len(F)
      BY <1>0, <1>2, <2>1
    <3> HIDE DEF last
    <3> QED
      BY <3>1, ConcatAdjacentSubSeq
  <2>5. offset + Len(rs) = last /\ nx \in Nat \cup {-1} /\ (nx >= 0 => nx = last) /\ (nx = -1 => last = Len(F))
    BY <1>0, <2>2
  <2> HIDE DEF rs, nx, last
  <2> QED
    BY <1>0, <1>1, <2>2, <2>3, <2>4, <2>5
<1>3. CASE offset >= Len(F)
  <2>1. rs = <<>> /\ nx = -1
    <3>1. last = Len(F) /\ offset + 1 > Len(F)
      BY <1>0, <1>3
    <3> QED
      BY <1>0, <1>3, <3>1, SubSeqEmpty
  <2>2. offset <= Len(F) => SubSeq(F, 1, offset) \o <<>> = SubSeq(F, 1, offset)
    <3>1. offset <= Len(F) => SubSeq(F, 1, offset) \in Seq(Item)
      BY <1>0
    <3> QED
      BY <3>1, ConcatEmptySeq
  <2> HIDE DEF rs, nx
  <2> QED
    BY <1>0, <1>1, <1>3, <2>1, <2>2
<1>4. offset < Len(F) \/ offset >= Len(F)
  BY <1>0
<1> QED
  BY <1>2, <1>3, <1>4, Zenon

(* What an answer does to the page of its view, and to the loads.          *)
Pages(l, via) ==
  LET p == library_page(l, via)
  IN items' = items \o p.rows /\ next' = p.next /\ transport' = via
Served(l) ==
  \/ UNCHANGED <<items, next, transport>>
  \/ l.phase = "page" /\ \E via \in {"usb", "wifi"} : (via = "usb" => usb # NoCable) /\ Pages(l, via)
Resumed(l) ==
  \/ loads' = loads \ {l} /\ ~loading'
  \/ /\ open /\ next' >= 0 /\ loading'
     /\ loads' = (loads \ {l}) \cup {Request(generation, kind, next', address)}
  \/ loading' = loading /\ loads' = (loads \ {l}) \cup {[l EXCEPT !.phase = "thumbs"]}
     /\ l.phase = "page"

(* The end of a load: its request is gone, or replaced by one of the view. *)
LEMMA FinishResumes ==
  ASSUME NEW l, NEW ok, Finish(l, ok)
  PROVE  /\ l.gen # generation => loads' = loads \ {l} /\ loading' = loading
         /\ l.gen = generation => Resumed(l)
<1> DEFINE mine == l.gen = generation
           more == l.gen \in alls /\ ok /\ mine /\ next' >= 0
<1>1. PICK roomy \in BOOLEAN :
        /\ loading' = IF mine THEN mine /\ open /\ next' >= 0 /\ (roomy \/ more) ELSE loading
        /\ loads' = (loads \ {l}) \cup
                    (IF mine /\ open /\ next' >= 0 /\ (roomy \/ more)
                     THEN {Request(generation, kind, next', address)} ELSE {})
  BY Zenon DEF Finish
<1>2. CASE l.gen # generation
  <2>1. loading' = loading /\ loads' = (loads \ {l}) \cup {}
    BY <1>1, <1>2, Zenon
  <2> QED
    BY <1>2, <2>1
<1>3. CASE l.gen = generation
  <2>1. CASE mine /\ open /\ next' >= 0 /\ (roomy \/ more)
    <3>1. loading' /\ loads' = (loads \ {l}) \cup {Request(generation, kind, next', address)}
      BY <1>1, <1>3, <2>1, Zenon
    <3>2. open /\ next' >= 0
      BY <2>1, Zenon
    <3> QED
      BY <1>3, <3>1, <3>2 DEF Resumed
  <2>2. CASE ~(mine /\ open /\ next' >= 0 /\ (roomy \/ more))
    <3>1. ~loading' /\ loads' = (loads \ {l}) \cup {}
      BY <1>1, <1>3, <2>2, Zenon
    <3>2. loads' = loads \ {l}
      BY <3>1
    <3> QED
      BY <1>3, <3>1, <3>2 DEF Resumed
  <2> QED
    BY <2>1, <2>2
<1> QED
  BY <1>2, <1>3

(* A load that proceeds is one of an earlier view, and leaves no trace, or  *)
(* one of this view.                                                        *)
Frame == UNCHANGED <<view, address, typed, copy, vita, history>>
LEMMA ProceedsCases ==
  ASSUME NEW g, Proceeds(g)
  PROVE  /\ Frame
         /\ \E l \in loads :
              \/ l.gen # generation /\ UNCHANGED <<items, next, transport, loading>> /\ loads' = loads \ {l}
              \/ l.gen = generation /\ Served(l) /\ Resumed(l)
<1>1. PICK l \in loads : \/ \E via \in {"usb", "wifi"} : PageArrives(l, via)
                         \/ PageFails(l)
                         \/ ThumbsArrive(l)
  BY DEF Proceeds
<1>2. CASE PageFails(l) \/ ThumbsArrive(l)
  <2>1. Frame /\ UNCHANGED <<items, next, transport>>
    BY <1>2, Zenon DEF PageFails, ThumbsArrive, Frame
  <2>2. \E ok \in BOOLEAN : Finish(l, ok)
    BY <1>2, Zenon DEF PageFails, ThumbsArrive
  <2> QED
    BY <2>1, <2>2, FinishResumes, Zenon DEF Served
<1>3. ASSUME NEW via \in {"usb", "wifi"}, PageArrives(l, via)
      PROVE  /\ Frame
             /\ \/ l.gen # generation /\ UNCHANGED <<items, next, transport, loading>> /\ loads' = loads \ {l}
                \/ l.gen = generation /\ Served(l) /\ Resumed(l)
  <2>0. Frame /\ l.phase = "page" /\ (via = "usb" => usb # NoCable)
    BY <1>3, Zenon DEF PageArrives, Frame
  <2>1. CASE l.gen # generation
    <3>1. UNCHANGED <<items, next, transport>> /\ Finish(l, FALSE)
      BY <1>3, <2>1, Zenon DEF PageArrives
    <3> QED
      BY <2>0, <2>1, <3>1, FinishResumes, Zenon
  <2>2. CASE l.gen = generation
    <3>1. Pages(l, via)
      BY <1>3, <2>2, Zenon DEF PageArrives, Pages
    <3>2. Served(l)
      BY <2>0, <3>1, Zenon DEF Served
    <3>3. CASE Finish(l, TRUE)
      BY <2>0, <2>2, <3>2, <3>3, FinishResumes, Zenon
    <3>4. CASE loads' = (loads \ {l}) \cup {[l EXCEPT !.phase = "thumbs"]} /\ loading' = loading
      BY <2>0, <2>2, <3>2, <3>4, Zenon DEF Resumed
    <3> QED
      BY <1>3, <2>2, <3>3, <3>4, Zenon DEF PageArrives
  <2> QED
    BY <2>1, <2>2
<1> QED
  BY <1>1, <1>2, <1>3, Zenon

-----------------------------------------------------------------------------
(* A load proceeds.                                                        *)

Same ==
  /\ kind' = kind /\ generation' = generation /\ copying' = copying /\ open' = open
  /\ address' = address /\ copy' = copy /\ rows' = rows /\ usb' = usb
  /\ moved' = moved /\ replugged' = replugged /\ changed' = changed
LEMMA FrameIsSame ==
  ASSUME Frame
  PROVE  Same
  BY Zenon DEF Frame, Same, view, vita, history

(* Folders are about these variables only.                                 *)
LEMMA SameFolders ==
  ASSUME rows' = rows, usb' = usb
  PROVE  /\ \A via, v, k : Folder(via, v, k)' = Folder(via, v, k)
         /\ Entries' = Entries
         /\ (CatalogueInv => CatalogueInv')
<1>1. \A k : UsbFolder(k)' = UsbFolder(k)
  BY DEF UsbFolder, NoCable
<1>2. \A via, v, k : Folder(via, v, k)' = Folder(via, v, k)
  <2>1. \A via, v, k : Media(via, v, k)' = Media(via, v, k)
    BY DEF Media
  <2>2. \A v, k : WifiFolder(v, k)' = WifiFolder(v, k)
    BY <2>1 DEF WifiFolder
  <2> QED
    BY <1>1, <2>2 DEF Folder
<1>3. Entries' = Entries
  BY <1>1 DEF Entries
<1>4. CatalogueInv => CatalogueInv'
  BY <1>1, <1>3 DEF CatalogueInv
<1> QED
  BY <1>2, <1>3, <1>4

(* The items of a page that is shown: behind the others, of the folder that *)
(* was requested.                                                           *)
LEMMA PagesItems ==
  ASSUME TypeInv, CatalogueInv, NEW l \in loads, NEW via \in {"usb", "wifi"}, Pages(l, via)
  PROVE  LET F == Folder(via, l.ip, l.kind)
             p == vcm_library_list(F, l.offset)
         IN /\ F \in Seq(Item) /\ l.offset \in Nat /\ l.ip \in Vitas /\ l.kind \in Kinds
            /\ p.rows \in Seq(Item) /\ items' = items \o p.rows
            /\ items' \in Seq(Item) /\ Len(items') = Len(items) + Len(p.rows)
            /\ next' = p.next /\ next' \in Nat \cup {-1} /\ transport' = via
            /\ \A i \in DOMAIN items : i \in DOMAIN items' /\ items'[i] = items[i]
            /\ \A i \in DOMAIN items' : i \in DOMAIN items \/ items'[i] \in Range(F)
            /\ \A i \in DOMAIN p.rows : p.rows[i] \in Range(F) /\ \E j \in DOMAIN items' : items'[j] = p.rows[i]
<1> DEFINE F == Folder(via, l.ip, l.kind)
           p == vcm_library_list(F, l.offset)
           rs == p.rows
<1>1. l.offset \in Nat /\ l.ip \in Vitas /\ l.kind \in Kinds /\ items \in Seq(Item)
  BY DEF TypeInv, Load
<1>2. F \in Seq(Item)
  BY <1>1, FolderItems
<1>3. items' = items \o rs /\ next' = p.next /\ transport' = via
  BY DEF Pages, library_page
<1> HIDE DEF F
<1>4. rs \in Seq(Item) /\ p.next \in Nat \cup {-1} /\ \A i \in DOMAIN rs : rs[i] \in Range(F)
  BY <1>1, <1>2, PageOf
<1> HIDE DEF p, rs
<1>5. /\ items' \in Seq(Item) /\ Len(items') = Len(items) + Len(rs)
      /\ \A i \in 1 .. Len(items) + Len(rs) :
           items'[i] = IF i <= Len(items) THEN items[i] ELSE rs[i - Len(items)]
  BY <1>1, <1>3, <1>4, ConcatProperties
<1>6. /\ Len(items) \in Nat /\ Len(rs) \in Nat /\ DOMAIN items = 1 .. Len(items) /\ DOMAIN rs = 1 .. Len(rs)
      /\ DOMAIN items' = 1 .. Len(items) + Len(rs)
  BY <1>1, <1>4, <1>5
<1>7. \A i \in DOMAIN items : i \in DOMAIN items' /\ items'[i] = items[i]
  BY <1>5, <1>6
<1>8. ASSUME NEW i \in DOMAIN items', i \notin DOMAIN items PROVE items'[i] \in Range(F)
  <2>1. i - Len(items) \in DOMAIN rs /\ ~(i <= Len(items))
    BY <1>6, <1>8
  <2>2. items'[i] = rs[i - Len(items)]
    BY <1>5, <1>6, <2>1
  <2> QED
    BY <1>4, <2>1, <2>2
<1>9. ASSUME NEW i \in DOMAIN rs PROVE \E j \in DOMAIN items' : items'[j] = rs[i]
  <2> DEFINE j == Len(items) + i
  <2>1. j \in DOMAIN items' /\ ~(j <= Len(items)) /\ j - Len(items) = i
    BY <1>6
  <2> HIDE DEF j
  <2>2. items'[j] = rs[j - Len(items)]
    BY <1>5, <1>6, <2>1
  <2> QED
    BY <2>1, <2>2
<1> QED
  BY <1>1, <1>2, <1>3, <1>4, <1>5, <1>7, <1>8, <1>9, Zenon DEF F, p, rs

(* A request is a load.                                                    *)
LEMMA RequestIsLoad ==
  ASSUME NEW gen \in 1 .. MaxViews, NEW k \in Kinds, NEW offset \in Nat, NEW ip \in Vitas
  PROVE  LET r == Request(gen, k, offset, ip)
         IN /\ r \in Load /\ r.gen = gen /\ r.kind = k /\ r.offset = offset /\ r.ip = ip
            /\ r.phase = "page"
  BY DEF Request, Load

(* Waiting for previews it stays the same load.                            *)
LEMMA ThumbsIsLoad ==
  ASSUME NEW l \in Load
  PROVE  LET t == [l EXCEPT !.phase = "thumbs"]
         IN /\ t \in Load /\ t.gen = l.gen /\ t.kind = l.kind /\ t.ip = l.ip /\ t.phase = "thumbs"
  BY DEF Load

(* The page keeps its types.                                               *)
LEMMA ServedTypes ==
  ASSUME TypeInv, CatalogueInv, NEW l \in loads, Served(l)
  PROVE  items' \in Seq(Item) /\ next' \in Nat \cup {-1} /\ transport' \in {"usb", "wifi"}
<1>1. CASE UNCHANGED <<items, next, transport>>
  BY <1>1 DEF TypeInv
<1>2. ASSUME NEW via \in {"usb", "wifi"}, Pages(l, via)
      PROVE  items' \in Seq(Item) /\ next' \in Nat \cup {-1} /\ transport' = via
  BY <1>2, PagesItems
<1> QED
  BY <1>1, <1>2 DEF Served

(* So do the loads.                                                        *)
LEMMA ResumedTypes ==
  ASSUME TypeInv, NEW l \in loads, l.gen = generation, Resumed(l), next' \in Nat \cup {-1}
  PROVE  loads' \subseteq Load
<1>1. l \in Load /\ kind \in Kinds /\ address \in Vitas /\ loads \subseteq Load
  BY DEF TypeInv
<1>2. CASE open /\ next' >= 0
  <2>1. generation \in 1 .. MaxViews /\ next' \in Nat
    BY <1>2 DEF TypeInv
  <2>2. Request(generation, kind, next', address) \in Load
    BY <1>1, <2>1, RequestIsLoad
  <2> QED
    BY <1>1, <2>2, ThumbsIsLoad DEF Resumed
<1>3. CASE ~(open /\ next' >= 0)
  <2>1. loads' = loads \ {l} \/ loads' = (loads \ {l}) \cup {[l EXCEPT !.phase = "thumbs"]}
    BY <1>3 DEF Resumed
  <2> QED
    BY <1>1, <2>1, ThumbsIsLoad
<1> QED
  BY <1>2, <1>3

(* The view's load is the only one, and so is what follows it.             *)
LEMMA ResumedLoads ==
  ASSUME TypeInv, LoadInv, NEW l \in loads, l.gen = generation, Same, Resumed(l),
         next' \in Nat \cup {-1}
  PROVE  LoadInv'
<1>0. l \in Load /\ l.gen = generation /\ generation' = generation /\ generation \in Nat
  BY DEF TypeInv, Same
<1>1. CASE loads' = loads \ {l} /\ ~loading'
  <2>1. \A m \in loads' : m \in loads /\ m # l
    BY <1>1
  <2>2. \A m \in loads' : m.gen <= generation'
    BY <1>0, <2>1 DEF LoadInv
  <2>3. ASSUME open' PROVE Mine' = {}
    <3>1. open
      BY <2>3, Zenon DEF Same
    <3>2. \A m \in Mine : m = l
      BY <3>1 DEF LoadInv, Mine
    <3> QED
      BY <1>0, <2>1, <3>2 DEF Mine
  <2> QED
    BY <1>1, <2>2, <2>3 DEF LoadInv
<1>2. ASSUME NEW new \in Load, loads' = (loads \ {l}) \cup {new}, new.gen = generation,
             open => loading',
             open => new.kind = kind /\ (new.ip = address \/ moved) /\ (new.phase = "page" => new.offset = next')
      PROVE  LoadInv'
  <2>1. \A m \in loads' : m = new \/ (m \in loads /\ m # l)
    BY <1>2
  <2>2. \A m \in loads' : m.gen <= generation'
    <3>1. \A m \in loads : m.gen <= generation
      BY DEF LoadInv
    <3> QED
      BY <1>0, <1>2, <2>1, <3>1
  <2>3. ASSUME open'
        PROVE  /\ open /\ Mine' = {new}
               /\ kind' = kind /\ address' = address /\ (moved => moved')
    <3>1. open /\ kind' = kind /\ address' = address /\ (moved => moved')
      BY <2>3, Zenon DEF Same
    <3>2. \A m \in Mine : m = l
      BY <3>1 DEF LoadInv, Mine
    <3> QED
      BY <1>0, <1>2, <2>1, <3>1, <3>2 DEF Mine
  <2> QED
    BY <1>2, <2>2, <2>3 DEF LoadInv
<1>3. CASE /\ open /\ next' >= 0 /\ loading'
           /\ loads' = (loads \ {l}) \cup {Request(generation, kind, next', address)}
  <2>1. generation \in 1 .. MaxViews /\ next' \in Nat /\ kind \in Kinds /\ address \in Vitas
    BY <1>3 DEF TypeInv
  <2>2. LET new == Request(generation, kind, next', address)
        IN /\ new \in Load /\ new.gen = generation /\ new.kind = kind /\ new.offset = next' /\ new.ip = address
    BY <2>1, RequestIsLoad
  <2> QED
    BY <1>2, <1>3, <2>2
<1>4. CASE loading' = loading /\ loads' = (loads \ {l}) \cup {[l EXCEPT !.phase = "thumbs"]}
  <2> DEFINE new == [l EXCEPT !.phase = "thumbs"]
  <2>1. new \in Load /\ new.gen = l.gen /\ new.kind = l.kind /\ new.ip = l.ip /\ new.phase = "thumbs"
    BY <1>0, ThumbsIsLoad
  <2>2. l \in Mine
    BY <1>0 DEF Mine
  <2>3. open => loading /\ l.kind = kind /\ (l.ip = address \/ moved)
    BY <2>2 DEF LoadInv
  <2>4. open => loading'
    BY <1>4, <2>3, Zenon
  <2>5. loads' = (loads \ {l}) \cup {new}
    BY <1>4
  <2> HIDE DEF new
  <2> QED
    BY <1>0, <1>2, <2>1, <2>3, <2>4, <2>5
<1> QED
  BY <1>1, <1>3, <1>4 DEF Resumed

(* What is shown is of the folder that was requested, and so of the view.  *)
LEMMA ServedShown ==
  ASSUME IInv, NEW l \in loads, l.gen = generation, Same, Served(l)
  PROVE  ShownInv' /\ CopyInv'
<1>0. TypeInv /\ CatalogueInv /\ l \in Mine
  BY DEF IInv, Mine
<1>1. Entries' = Entries /\ kind' = kind /\ address' = address /\ usb' = usb
  BY SameFolders DEF Same
<1>2. (moved => moved') /\ (replugged => replugged') /\ (open' => open) /\ (copying' => copying) /\ copy' = copy
      /\ (open => open')
  BY Zenon DEF Same
<1> DEFINE After(x) ==
             /\ x.media[2] = kind'
             /\ \/ x.id = <<"wifi", x.media[3]>> /\ (x.media[1] = address' \/ moved')
                \/ x.id[1] = "usb" /\ x.media[1] = Cabled /\ (replugged' \/ usb' = NoCable \/ x \in Entries')
<1>3. \A x : Shown(x) => After(x)
  BY <1>1, <1>2 DEF Shown
<1>4. CASE UNCHANGED <<items, next, transport>>
  <2>1. ShownInv'
    BY <1>2, <1>3, <1>4 DEF IInv, ShownInv, Shown, NoCable
  <2>2. CopyInv'
    BY <1>1, <1>2, <1>4 DEF IInv, CopyInv
  <2> QED
    BY <2>1, <2>2
<1>5. ASSUME l.phase = "page", NEW via \in {"usb", "wifi"}, Pages(l, via)
      PROVE  ShownInv' /\ CopyInv'
  <2> DEFINE F == Folder(via, l.ip, l.kind)
             p == vcm_library_list(F, l.offset)
  <2>1. /\ F \in Seq(Item) /\ l.offset \in Nat /\ l.ip \in Vitas /\ l.kind \in Kinds
        /\ items' \in Seq(Item) /\ Len(items') = Len(items) + Len(p.rows) /\ next' = p.next
        /\ \A i \in DOMAIN items : i \in DOMAIN items' /\ items'[i] = items[i]
        /\ \A i \in DOMAIN items' : i \in DOMAIN items \/ items'[i] \in Range(F)
    BY <1>0, <1>5, PagesItems
  <2>2. p.next >= 0 => p.next = l.offset + Len(p.rows)
    BY <2>1, PageOf
  <2>3. ASSUME open' PROVE next' >= 0 => next' = Len(items')
    <3>1. open /\ l.offset = next /\ next = Len(items)
      BY <1>0, <1>2, <1>5, <2>1, <2>3 DEF IInv, LoadInv, ShownInv
    <3> HIDE DEF p
    <3> QED
      BY <2>1, <2>2, <3>1
  <2>4. ASSUME open', NEW i \in DOMAIN items' PROVE After(items'[i])
    <3>1. open /\ l.kind = kind /\ (l.ip = address \/ moved)
      BY <1>0, <1>2, <2>4 DEF IInv, LoadInv
    <3>2. CASE i \in DOMAIN items
      BY <1>3, <2>1, <3>1, <3>2 DEF IInv, ShownInv
    <3>3. CASE items'[i] \in Range(F)
      <4>1. PICK j \in DOMAIN F : items'[i] = F[j]
        BY <3>3 DEF Range
      <4>2. /\ F[j].media[2] = l.kind
            /\ \/ F[j].id = <<"wifi", F[j].media[3]>> /\ F[j].media[1] = l.ip
               \/ F[j].id[1] = "usb" /\ F[j].media[1] = Cabled /\ F[j] \in Entries
        BY <1>0, <2>1, FolderItems
      <4> HIDE DEF F
      <4>3. Shown(F[j])
        BY <3>1, <4>2 DEF Shown
      <4>4. Shown(items'[i])
        BY <4>1, <4>3
      <4> QED
        BY <1>3, <4>4
    <3> QED
      BY <2>1, <3>2, <3>3
  <2>5. CopyInv'
    <3>1. Range(items) \subseteq Range(items')
      BY <2>1 DEF Range
    <3> QED
      BY <1>1, <1>2, <3>1 DEF IInv, CopyInv
  <2>6. ShownInv'
    BY <2>3, <2>4 DEF ShownInv, Shown, NoCable
  <2> QED
    BY <2>5, <2>6
<1> QED
  BY <1>4, <1>5 DEF Served

(* PagesInv spelled out, for one transport and its folder.                 *)
LEMMA PagesFrame ==
  ASSUME PagesInv, open, ~changed, ~moved, NEW via \in {"usb", "wifi"},
         \A i \in DOMAIN items : items[i].id[1] = via
  PROVE  LET folder == Folder(via, address, kind)
         IN /\ Len(items) <= Len(folder) /\ items = SubSeq(folder, 1, Len(items))
            /\ next = -1 /\ transport = via => Len(items) = Len(folder)
  BY DEF PagesInv, PagesOf

(* The next page continues the folder, if it is of the same transport.     *)
LEMMA ServedPages ==
  ASSUME IInv, NEW l \in loads, l.gen = generation, Same, Served(l)
  PROVE  PagesInv'
<1> SUFFICES ASSUME open', ~changed', ~moved', NEW via \in {"usb", "wifi"},
                    \A i \in DOMAIN items' : items'[i].id[1] = via
             PROVE  /\ Len(items') <= Len(Folder(via, address, kind)')
                    /\ items' = SubSeq(Folder(via, address, kind)', 1, Len(items'))
                    /\ next' = -1 /\ transport' = via => Len(items') = Len(Folder(via, address, kind)')
  BY DEF PagesInv, PagesOf
<1>0. TypeInv /\ CatalogueInv /\ PagesInv /\ l \in Mine
  BY DEF IInv, Mine
<1>1. open /\ ~changed /\ ~moved
  BY Zenon DEF Same
<1>2. Folder(via, address, kind)' = Folder(via, address, kind)
  <2>1. kind' = kind /\ address' = address /\ rows' = rows /\ usb' = usb
    BY Zenon DEF Same
  <2>2. UsbFolder(kind)' = UsbFolder(kind)
    BY <2>1 DEF UsbFolder, NoCable
  <2>3. WifiFolder(address, kind)' = WifiFolder(address, kind)
    BY <2>1 DEF WifiFolder, Media
  <2> QED
    BY <2>2, <2>3 DEF Folder
<1>3. CASE UNCHANGED <<items, next, transport>>
  <2>1. \A i \in DOMAIN items : items[i].id[1] = via
    BY <1>3
  <2> QED
    BY <1>0, <1>1, <1>2, <1>3, <2>1, PagesFrame
<1>4. ASSUME l.phase = "page", NEW q \in {"usb", "wifi"}, Pages(l, q)
      PROVE  /\ Len(items') <= Len(Folder(via, address, kind))
             /\ items' = SubSeq(Folder(via, address, kind), 1, Len(items'))
             /\ next' = -1 /\ transport' = via => Len(items') = Len(Folder(via, address, kind))
  <2>1. l.kind = kind /\ l.ip = address /\ l.offset = next
    BY <1>0, <1>1, <1>4 DEF IInv, LoadInv
  <2> DEFINE F == Folder(q, address, kind)
             p == vcm_library_list(F, l.offset)
             rs == p.rows
  <2>2. /\ F \in Seq(Item) /\ l.offset \in Nat /\ kind \in Kinds /\ address \in Vitas
        /\ rs \in Seq(Item) /\ items' = items \o rs
        /\ items' \in Seq(Item) /\ Len(items') = Len(items) + Len(rs)
        /\ next' = p.next /\ transport' = q
        /\ \A i \in DOMAIN items : i \in DOMAIN items' /\ items'[i] = items[i]
        /\ \A i \in DOMAIN rs : rs[i] \in Range(F) /\ \E j \in DOMAIN items' : items'[j] = rs[i]
    BY <1>0, <1>4, <2>1, PagesItems
  <2>3. next = Len(items) /\ items \in Seq(Item) /\ Len(items) \in Nat
    BY <1>0, <1>1, <2>1, <2>2 DEF IInv, ShownInv, TypeInv
  <2>4. \A i \in DOMAIN items : items[i].id[1] = via
    BY <2>2
  <2>5. /\ Len(items) <= Len(Folder(via, address, kind))
        /\ items = SubSeq(Folder(via, address, kind), 1, Len(items))
    BY <1>0, <1>1, <2>4, PagesFrame
  <2>6. CASE q = via
    <3>1. /\ Len(items) <= Len(F) => /\ SubSeq(F, 1, Len(items)) \o rs = SubSeq(F, 1, Len(items) + Len(rs))
                                     /\ Len(items) + Len(rs) <= Len(F)
                                     /\ p.next = -1 => Len(items) + Len(rs) = Len(F)
      <4>1. l.offset = Len(items)
        BY <2>1, <2>3
      <4> HIDE DEF F
      <4>2. l.offset <= Len(F) =>
              /\ SubSeq(F, 1, l.offset) \o rs = SubSeq(F, 1, l.offset + Len(rs))
              /\ l.offset + Len(rs) <= Len(F)
              /\ p.next = -1 => l.offset + Len(rs) = Len(F)
        BY <2>2, PageOf
      <4> HIDE DEF p, rs
      <4> QED
        BY <4>1, <4>2
    <3> HIDE DEF F, p, rs
    <3>2. Folder(via, address, kind) = F
      BY <2>6 DEF F
    <3> QED
      BY <2>2, <2>5, <3>1, <3>2
  <2>7. CASE q # via
    <3>1. rs = <<>>
      <4>1. ASSUME NEW i \in DOMAIN rs PROVE FALSE
        <5>1. PICK j \in DOMAIN F : rs[i] = F[j]
          BY <2>2, <4>1 DEF Range
        <5>2. F[j].id[1] = q
          BY <1>0, <2>2, FolderItems
        <5>3. rs[i].id[1] = via
          <6>1. PICK n \in DOMAIN items' : items'[n] = rs[i]
            BY <2>2, <4>1
          <6>2. items'[n].id[1] = via
            OBVIOUS
          <6> HIDE DEF rs
          <6> QED
            BY <6>1, <6>2
        <5> HIDE DEF rs, F
        <5> QED
          BY <2>7, <5>1, <5>2, <5>3
      <4> HIDE DEF rs
      <4>2. Len(rs) \in Nat /\ DOMAIN rs = 1 .. Len(rs)
        BY <2>2
      <4>3. Len(rs) = 0
        BY <4>1, <4>2
      <4> QED
        BY <2>2, <4>3, EmptySeq
    <3> HIDE DEF F, p, rs
    <3>2. items' = items
      BY <2>2, <2>3, <3>1, ConcatEmptySeq
    <3> QED
      BY <2>2, <2>5, <2>7, <3>2
  <2> QED
    BY <2>6, <2>7
<1> QED
  BY <1>2, <1>3, <1>4 DEF Served

(* As long as the view, its folder and its loads stay, so does what is     *)
(* said of them.                                                           *)
ViewInv == TypeInv /\ LoadInv /\ ShownInv /\ PagesInv /\ CatalogueInv
LEMMA ViewKeeps ==
  ASSUME ViewInv,
         kind' = kind, generation' = generation, open' = open, address' = address, rows' = rows,
         usb' = usb, moved' = moved, replugged' = replugged, changed' = changed,
         UNCHANGED <<items, next, transport>>, loading' = loading, loads' \subseteq loads, Mine' = Mine
  PROVE  ViewInv'
<1>1. items' = items /\ next' = next /\ transport' = transport
  OBVIOUS
<1>2. CatalogueInv'
  BY SameFolders DEF ViewInv
<1>3. TypeInv'
  BY <1>1 DEF ViewInv, TypeInv, Item, Load, NoCable
<1>4. LoadInv'
  BY <1>1 DEF ViewInv, LoadInv
<1>5. ShownInv'
  BY <1>1, SameFolders DEF ViewInv, ShownInv, Shown, NoCable
<1>6. PagesInv'
  <2>1. Folder("usb", address, kind)' = Folder("usb", address, kind)
    BY DEF Folder, UsbFolder, NoCable
  <2>2. Folder("wifi", address, kind)' = Folder("wifi", address, kind)
    BY DEF Folder, WifiFolder, Media
  <2>3. \A via \in {"usb", "wifi"} : PagesOf(via) => PagesOf(via)'
    BY <1>1, <2>1, <2>2 DEF PagesOf
  <2> QED
    BY <1>1, <2>3 DEF ViewInv, PagesInv
<1> QED
  BY <1>2, <1>3, <1>4, <1>5, <1>6 DEF ViewInv

(* A load of an earlier view leaves no trace, one of this view continues it. *)
LEMMA ProceedsKeeps ==
  ASSUME IInv, NEW g, Proceeds(g)
  PROVE  IInv'
<1>0. Same /\ TypeInv /\ CatalogueInv /\ LoadInv
  BY ProceedsCases, FrameIsSame DEF IInv
<1>1. CatalogueInv'
  BY <1>0, SameFolders DEF Same
<1>2. PICK l \in loads :
        \/ l.gen # generation /\ UNCHANGED <<items, next, transport, loading>> /\ loads' = loads \ {l}
        \/ l.gen = generation /\ Served(l) /\ Resumed(l)
  BY ProceedsCases
<1>3. CASE l.gen = generation /\ Served(l) /\ Resumed(l)
  <2>1. items' \in Seq(Item) /\ next' \in Nat \cup {-1} /\ transport' \in {"usb", "wifi"}
    BY <1>0, <1>3, ServedTypes
  <2>2. loads' \subseteq Load
    BY <1>0, <1>3, <2>1, ResumedTypes
  <2>3. /\ kind' = kind /\ generation' = generation /\ address' = address /\ rows' = rows
        /\ usb' = usb /\ (open' => open)
    BY <1>0, Zenon DEF Same
  <2>4. TypeInv'
    BY <1>0, <2>1, <2>2, <2>3 DEF TypeInv, Item, Load, NoCable
  <2>5. LoadInv'
    BY <1>0, <1>3, <2>1, ResumedLoads
  <2>6. ShownInv' /\ CopyInv' /\ PagesInv'
    BY <1>0, <1>3, ServedShown, ServedPages
  <2> QED
    BY <1>1, <2>4, <2>5, <2>6 DEF IInv
<1>4. CASE l.gen # generation /\ UNCHANGED <<items, next, transport, loading>> /\ loads' = loads \ {l}
  <2>1. /\ kind' = kind /\ generation' = generation /\ address' = address /\ rows' = rows
        /\ usb' = usb /\ copy' = copy
        /\ items' = items /\ next' = next /\ transport' = transport
    BY <1>0, <1>4, Zenon DEF Same
  <2>2. /\ open' = open /\ copying' = copying /\ moved' = moved /\ replugged' = replugged
        /\ changed' = changed /\ loading' = loading
    BY <1>0, <1>4, Zenon DEF Same
  <2>3. loads' \subseteq loads /\ Mine' = Mine
    BY <1>4, <2>1 DEF Mine
  <2>4. ViewInv'
    <3>1. ViewInv
      BY DEF IInv, ViewInv
    <3> QED
      BY <2>1, <2>2, <2>3, <3>1, ViewKeeps
  <2>5. CopyInv'
    BY <2>1, <2>2 DEF IInv, CopyInv
  <2> QED
    BY <2>4, <2>5 DEF IInv, ViewInv
<1> QED
  BY <1>2, <1>3, <1>4

-----------------------------------------------------------------------------
(* What the user does.                                                     *)

(* A new view starts with one load, for its first page.                    *)
LEMMA NewViewKeeps ==
  ASSUME IInv, NEW k \in Kinds, NewView(k), ~copying, open',
         UNCHANGED <<address, rows, usb>>
  PROVE  IInv'
<1>0. TypeInv /\ LoadInv /\ CatalogueInv
  BY DEF IInv
<1>1. /\ kind' = k /\ generation' = generation + 1 /\ items' = <<>> /\ next' = 0
      /\ loads' = loads \cup {Request(generation + 1, k, 0, address)}
      /\ transport' = transport /\ generation < MaxViews
  BY Zenon DEF NewView
<1>2. loading' /\ ~moved' /\ ~changed' /\ ~copying'
  BY Zenon DEF NewView
<1>3. generation + 1 \in 1 .. MaxViews /\ address \in Vitas /\ 0 \in Nat /\ generation \in Nat
  BY <1>0, <1>1, ViewAssumption DEF TypeInv
<1> DEFINE new == Request(generation + 1, k, 0, address)
<1>4. /\ new \in Load /\ new.gen = generation + 1 /\ new.kind = k /\ new.offset = 0
      /\ new.ip = address
  BY <1>3, RequestIsLoad
<1> HIDE DEF new
<1>5. loads' = loads \cup {new}
  BY <1>1 DEF new
<1>6. \A l \in loads : l.gen \in Nat /\ l.gen <= generation
  BY <1>0 DEF TypeInv, Load, LoadInv
<1>7. Mine' = {new} /\ \A l \in loads' : l.gen <= generation'
  BY <1>1, <1>3, <1>4, <1>5, <1>6 DEF Mine
<1>8. TypeInv'
  <2>1. loads' \subseteq Load /\ items' \in Seq(Item) /\ generation' \in 0 .. MaxViews /\ generation' >= 1
    BY <1>0, <1>1, <1>3, <1>4, <1>5, EmptySeq DEF TypeInv
  <2> QED
    BY <1>0, <1>1, <2>1 DEF TypeInv, Item, Load, NoCable
<1>9. LoadInv'
  BY <1>1, <1>2, <1>4, <1>7 DEF LoadInv
<1>10. ShownInv'
  BY <1>1, EmptySeq DEF ShownInv
<1>11. PagesInv'
  <2>1. ASSUME NEW via \in {"usb", "wifi"} PROVE PagesOf(via)'
    <3>1. Folder(via, address, kind)' = Folder(via, address, k)
      BY <1>1 DEF Folder, UsbFolder, WifiFolder, Media, NoCable
    <3>2. Folder(via, address, k) \in Seq(Item)
      BY <1>0, <1>3, FolderItems
    <3> DEFINE F == Folder(via, address, k)
    <3> HIDE DEF F
    <3>3. Len(F) \in Nat /\ SubSeq(F, 1, 0) = <<>>
      BY <3>2, SubSeqEmpty DEF F
    <3>4. Len(items') = 0
      BY <1>1
    <3> QED
      BY <1>1, <3>1, <3>3, <3>4 DEF PagesOf, F
  <2> QED
    BY <2>1 DEF PagesInv
<1>12. CatalogueInv'
  BY <1>0, SameFolders
<1>13. CopyInv'
  BY <1>2 DEF CopyInv
<1> QED
  BY <1>8, <1>9, <1>10, <1>11, <1>12, <1>13 DEF IInv

(* Nothing that the view is about changes.                                 *)
LEMMA KeepKeeps ==
  ASSUME IInv, UNCHANGED <<page, loads, copy, history, address, rows, usb>>
  PROVE  IInv'
<1>1. /\ kind' = kind /\ items' = items /\ next' = next /\ generation' = generation
      /\ transport' = transport /\ loads' = loads /\ copy' = copy /\ address' = address
      /\ rows' = rows /\ usb' = usb
  BY Zenon DEF page
<1>2. /\ open' = open /\ copying' = copying /\ loading' = loading /\ moved' = moved
      /\ replugged' = replugged /\ changed' = changed
  BY Zenon DEF page, history
<1>3. ViewInv'
  <2>1. ViewInv /\ Mine' = Mine
    BY <1>1 DEF IInv, ViewInv, Mine
  <2> QED
    BY <1>1, <1>2, <2>1, ViewKeeps
<1>4. CopyInv'
  BY <1>1, <1>2 DEF IInv, CopyInv
<1> QED
  BY <1>3, <1>4 DEF IInv, ViewInv

(* openLibrary and AddressChanged start a view, or are refused.            *)
LEMMA OpenKeeps ==
  ASSUME IInv, (\E k \in Kinds : openLibrary(k)) \/ AddressChanged
  PROVE  IInv'
<1>0. UNCHANGED <<address, rows, usb>>
  BY Zenon DEF openLibrary, AddressChanged, vita
<1>1. CASE \E k \in Kinds : openLibrary(k)
  <2>1. PICK k \in Kinds : openLibrary(k)
    BY <1>1
  <2>2. open' = TRUE /\ (IF copying THEN KeepView ELSE NewView(k))
    BY <2>1, Zenon DEF openLibrary, selectLibraryKind
  <2>3. CASE copying
    <3>1. UNCHANGED <<page, loads, copy, history>>
      BY <2>2, <2>3, Zenon DEF KeepView
    <3> QED
      BY <1>0, <3>1, KeepKeeps
  <2>4. CASE ~copying
    BY <1>0, <2>2, <2>4, NewViewKeeps
  <2> QED
    BY <2>3, <2>4
<1>2. CASE AddressChanged
  <2>1. CASE open /\ ~copying
    <3>1. NewView(kind) /\ open'
      BY <1>2, <2>1, Zenon DEF AddressChanged, selectLibraryKind
    <3>2. kind \in Kinds
      BY DEF IInv, TypeInv
    <3> QED
      BY <1>0, <2>1, <3>1, <3>2, NewViewKeeps
  <2>2. CASE ~(open /\ ~copying)
    <3>1. KeepView
      BY <1>2, <2>2, Zenon DEF AddressChanged, selectLibraryKind
    <3>2. UNCHANGED <<page, loads, copy, history>>
      BY <3>1, Zenon DEF KeepView
    <3> QED
      BY <1>0, <3>2, KeepKeeps
  <2> QED
    BY <2>1, <2>2
<1> QED
  BY <1>1, <1>2

(* A closed view has nothing to show.                                      *)
LEMMA CloseKeeps ==
  ASSUME IInv, closeLibrary
  PROVE  IInv'
<1>1. /\ kind' = kind /\ items' = items /\ next' = next /\ generation' = generation + 1
      /\ transport' = transport /\ loads' = loads /\ address' = address
      /\ rows' = rows /\ usb' = usb /\ generation < MaxViews
  BY Zenon DEF closeLibrary, vita
<1>2. ~open' /\ ~copying'
  BY Zenon DEF closeLibrary
<1>3. generation' \in 0 .. MaxViews /\ generation \in Nat
  BY <1>1, ViewAssumption DEF IInv, TypeInv
<1>4. TypeInv'
  BY <1>1, <1>2, <1>3 DEF IInv, TypeInv, Item, Load, NoCable
<1>5. \A l \in loads : l.gen \in Nat /\ l.gen <= generation
  BY DEF IInv, TypeInv, Load, LoadInv
<1>6. LoadInv'
  BY <1>1, <1>2, <1>3, <1>5 DEF LoadInv
<1>7. CatalogueInv'
  BY <1>1, SameFolders DEF IInv
<1> QED
  BY <1>2, <1>4, <1>6, <1>7 DEF IInv, ShownInv, PagesInv, CopyInv

(* Scroll and Select all start a load only when the view has none.         *)
LEMMA LoadKeeps ==
  ASSUME IInv, loadLibraryPage,
         UNCHANGED <<kind, items, next, generation, transport, address, copy, rows, usb>>,
         open' = open, copying' = copying, moved' = moved, replugged' = replugged, changed' = changed
  PROVE  IInv'
<1>0. TypeInv /\ LoadInv /\ CatalogueInv
  BY DEF IInv
<1>1. ~loading /\ open /\ next >= 0 /\ loading'
  BY Zenon DEF loadLibraryPage
<1>2. loads' = loads \cup {Request(generation, kind, next, address)}
  BY Zenon DEF loadLibraryPage
<1> DEFINE new == Request(generation, kind, next, address)
<1>3. generation \in 1 .. MaxViews /\ next \in Nat /\ kind \in Kinds /\ address \in Vitas
  BY <1>0, <1>1 DEF TypeInv
<1>4. new \in Load /\ new.gen = generation /\ new.kind = kind /\ new.offset = next /\ new.ip = address
  BY <1>3, RequestIsLoad
<1> HIDE DEF new
<1>5. loads' = loads \cup {new}
  BY <1>2 DEF new
<1>6. Mine = {}
  BY <1>0, <1>1 DEF LoadInv
<1>7. Mine' = {new}
  BY <1>4, <1>5, <1>6 DEF Mine
<1>8. \A l \in loads' : l.gen <= generation'
  BY <1>0, <1>3, <1>4, <1>5 DEF LoadInv
<1>9. LoadInv'
  BY <1>1, <1>4, <1>7, <1>8 DEF LoadInv
<1>10. TypeInv'
  <2>1. loads' \subseteq Load
    BY <1>0, <1>4, <1>5 DEF TypeInv
  <2> QED
    BY <1>0, <2>1 DEF TypeInv, Item, Load, NoCable
<1>11. CatalogueInv'
  BY <1>0, SameFolders
<1>12. ShownInv' /\ CopyInv'
  BY SameFolders DEF IInv, ShownInv, Shown, CopyInv, NoCable
<1>13. PagesInv'
  <2>1. Folder("usb", address, kind)' = Folder("usb", address, kind)
    BY DEF Folder, UsbFolder, NoCable
  <2>2. Folder("wifi", address, kind)' = Folder("wifi", address, kind)
    BY DEF Folder, WifiFolder, Media
  <2>3. \A via \in {"usb", "wifi"} : PagesOf(via) => PagesOf(via)'
    BY <2>1, <2>2 DEF PagesOf
  <2> QED
    BY <2>3 DEF IInv, PagesInv
<1> QED
  BY <1>9, <1>10, <1>11, <1>12, <1>13 DEF IInv

(* The selection is no concern of the view's pages.                        *)
LEMMA SelectKeeps ==
  ASSUME IInv, Scroll \/ toggleLibraryItem \/ SelectAll \/ DeselectAll
  PROVE  IInv'
<1>1. /\ UNCHANGED <<kind, items, next, generation, transport, address, copy, rows, usb>>
      /\ open' = open /\ copying' = copying /\ moved' = moved /\ replugged' = replugged
      /\ changed' = changed
  BY Zenon DEF Scroll, toggleLibraryItem, SelectAll, DeselectAll, view, vita, history
<1>2. CASE loadLibraryPage
  BY <1>1, <1>2, LoadKeeps
<1>3. CASE loads' = loads /\ loading' = loading
  <2>1. ViewInv /\ Mine' = Mine
    BY <1>1, <1>3 DEF IInv, ViewInv, Mine
  <2>2. ViewInv'
    BY <1>1, <1>3, <2>1, ViewKeeps
  <2>3. CopyInv'
    BY <1>1 DEF IInv, CopyInv
  <2> QED
    BY <2>2, <2>3 DEF IInv, ViewInv
<1>4. loadLibraryPage \/ (loads' = loads /\ loading' = loading)
  BY Zenon DEF Scroll, toggleLibraryItem, SelectAll, DeselectAll
<1> QED
  BY <1>2, <1>3, <1>4

(* An edited address is on record.                                         *)
LEMMA AddressKeeps ==
  ASSUME IInv, TypeAddress
  PROVE  IInv'
<1>1. /\ kind' = kind /\ items' = items /\ next' = next /\ generation' = generation
      /\ transport' = transport /\ loads' = loads /\ copy' = copy /\ address' \in Vitas
      /\ rows' = rows /\ usb' = usb
  BY Zenon DEF TypeAddress, page, vita
<1>2. /\ open' = open /\ copying' = copying /\ loading' = loading /\ moved' = open
      /\ replugged' = replugged /\ changed' = changed
  BY Zenon DEF TypeAddress, page
<1>3. TypeInv'
  BY <1>1, <1>2 DEF IInv, TypeInv, Item, Load, NoCable
<1>4. Mine' = Mine
  BY <1>1 DEF Mine
<1>5. LoadInv'
  BY <1>1, <1>2, <1>4 DEF IInv, LoadInv
<1>6. ShownInv' /\ PagesInv' /\ CopyInv'
  <2>1. CopyInv'
    BY <1>1, <1>2 DEF IInv, CopyInv
  <2>2. ShownInv'
    BY <1>1, <1>2, SameFolders DEF IInv, ShownInv, Shown, NoCable
  <2>3. PagesInv'
    BY <1>2 DEF PagesInv
  <2> QED
    BY <2>1, <2>2, <2>3
<1>7. CatalogueInv'
  BY <1>1, SameFolders DEF IInv
<1> QED
  BY <1>3, <1>5, <1>6, <1>7 DEF IInv

(* A copy names the view's folder and items of it.                         *)
LEMMA CopyKeeps ==
  ASSUME IInv, CopyFromVita \/ CopyEnds
  PROVE  IInv'
<1>1. /\ kind' = kind /\ items' = items /\ next' = next /\ generation' = generation
      /\ transport' = transport /\ loads' = loads /\ address' = address
      /\ rows' = rows /\ usb' = usb
  BY Zenon DEF CopyFromVita, CopyEnds, vita
<1>2. /\ open' = open /\ loading' = loading /\ moved' = moved
      /\ replugged' = replugged /\ changed' = changed
  BY Zenon DEF CopyFromVita, CopyEnds, history
<1>3. ViewInv'
  <2>1. ViewInv /\ Mine' = Mine
    BY <1>1 DEF IInv, ViewInv, Mine
  <2> QED
    BY <1>1, <1>2, <2>1, ViewKeeps
<1>4. CopyInv'
  <2>1. CASE CopyFromVita
    <3>1. /\ open
          /\ copy' = [items |-> {i \in Range(items) : i.id \in selected},
                      kind |-> kind, ip |-> address, via |-> transport]
      BY <2>1, Zenon DEF CopyFromVita
    <3>2. copy'.kind = kind /\ copy'.ip = address /\ copy'.items \subseteq Range(items)
      BY <3>1
    <3> QED
      BY <1>1, <1>2, <3>1, <3>2 DEF CopyInv
  <2>2. CASE CopyEnds
    <3>1. ~copying'
      BY <2>2, Zenon DEF CopyEnds
    <3> QED
      BY <3>1 DEF CopyInv
  <2> QED
    BY <2>1, <2>2
<1> QED
  BY <1>3, <1>4 DEF IInv, ViewInv

-----------------------------------------------------------------------------
(* The Vitas.                                                              *)

(* A library, or the cable, changes: the IDs on the page stay those of the  *)
(* catalogue they came from, and the change is on record.                   *)
LEMMA VitaKeeps ==
  ASSUME IInv, UNCHANGED <<page, address, loads, copy, moved>>,
         changed' = open,
         \/ usb' = usb /\ replugged' = replugged
         \/ usb' = NoCable /\ replugged' = replugged
         \/ replugged' = open,
         RowsType', usb' \in {NoCable} \cup [Kinds -> Seq(Item)], CatalogueInv'
  PROVE  IInv'
<1>1. /\ kind' = kind /\ items' = items /\ next' = next /\ generation' = generation
      /\ transport' = transport /\ loads' = loads /\ copy' = copy /\ address' = address
  BY Zenon DEF page
<1>2. open' = open /\ copying' = copying /\ loading' = loading /\ moved' = moved
  BY Zenon DEF page
<1>3. TypeInv'
  BY <1>1, <1>2 DEF IInv, TypeInv, RowsType, Item, Load, NoCable
<1>4. Mine' = Mine
  BY <1>1 DEF Mine
<1>5. LoadInv'
  BY <1>1, <1>2, <1>4 DEF IInv, LoadInv
<1>6. CopyInv'
  BY <1>1, <1>2 DEF IInv, CopyInv
<1>7. PagesInv'
  BY <1>2 DEF PagesInv
<1>8. usb' = usb => Entries' = Entries
  BY DEF Entries, UsbFolder, NoCable
<1>9. ShownInv'
  <2>1. (usb' = usb /\ (replugged => replugged')) \/ usb' = NoCable \/ (open => replugged')
    BY Zenon
  <2>2. (open' => open) /\ (moved => moved') /\ (open => open')
    BY <1>2
  <2> DEFINE After(x) ==
               /\ x.media[2] = kind'
               /\ \/ x.id = <<"wifi", x.media[3]>> /\ (x.media[1] = address' \/ moved')
                  \/ x.id[1] = "usb" /\ x.media[1] = Cabled /\ (replugged' \/ usb' = NoCable \/ x \in Entries')
  <2>3. ASSUME open, NEW x, Shown(x) PROVE After(x)
    <3>1. replugged' \/ usb' = NoCable \/ (usb' = usb /\ Entries' = Entries /\ (replugged => replugged'))
      BY <1>8, <2>1, <2>3
    <3> QED
      BY <1>1, <2>2, <2>3, <3>1 DEF Shown
  <2>4. open => /\ next >= 0 => next = Len(items)
                /\ \A i \in DOMAIN items : Shown(items[i])
    BY DEF IInv, ShownInv
  <2>5. open' => /\ next' >= 0 => next' = Len(items')
                 /\ \A i \in DOMAIN items' : After(items'[i])
    BY <1>1, <2>2, <2>3, <2>4
  <2> QED
    BY <2>5 DEF ShownInv, Shown, NoCable
<1> QED
  BY <1>3, <1>5, <1>6, <1>7, <1>9 DEF IInv

(* The catalogue has unique IDs.                                           *)
LEMMA CatalogueIds ==
  ASSUME RowsType
  PROVE  /\ Catalogue \in [Kinds -> Seq(Item)] /\ Catalogue # NoCable
         /\ \A k \in Kinds : \A e \in Range(Catalogue[k]) :
              e.id[1] = "usb" /\ e.media[1] = Cabled /\ e.media[2] = k
         /\ \A j, k \in Kinds : \A e \in Range(Catalogue[j]), f \in Range(Catalogue[k]) :
              e.id = f.id => e = f
<1> DEFINE C == Catalogue
<1>1. /\ C \in [Kinds -> Seq(Item)]
      /\ \A k \in Kinds : \A i \in DOMAIN C[k] :
           \E n \in rows[Cabled][k] :
             C[k][i] = [media |-> <<Cabled, k, n>>, id |-> <<"usb", Position(k, n)>>]
  BY CatalogueItems
<1> HIDE DEF C
<1>2. C # NoCable
  <2>1. "photo" \in DOMAIN C
    BY <1>1, ViewAssumption
  <2> QED
    BY <2>1 DEF NoCable
<1>3. \A k \in Kinds : \A e \in Range(C[k]) :
        \E n \in rows[Cabled][k] : e = [media |-> <<Cabled, k, n>>, id |-> <<"usb", Position(k, n)>>]
  BY <1>1 DEF Range
<1>4. ASSUME NEW k \in Kinds, NEW e \in Range(C[k])
      PROVE  e.id[1] = "usb" /\ e.media[1] = Cabled /\ e.media[2] = k
  BY <1>3
<1>5. ASSUME NEW j \in Kinds, NEW k \in Kinds, NEW e \in Range(C[j]), NEW f \in Range(C[k]), e.id = f.id
      PROVE  e = f
  <2>1. PICK m \in rows[Cabled][j] : e = [media |-> <<Cabled, j, m>>, id |-> <<"usb", Position(j, m)>>]
    BY <1>3
  <2>2. PICK n \in rows[Cabled][k] : f = [media |-> <<Cabled, k, n>>, id |-> <<"usb", Position(k, n)>>]
    BY <1>3
  <2>3. Position(j, m) = Position(k, n)
    BY <1>5, <2>1, <2>2
  <2>4. j = k /\ m = n
    BY <2>3, PositionIsUnique
  <2> QED
    BY <2>1, <2>2, <2>4
<1> QED
  BY <1>1, <1>2, <1>4, <1>5 DEF C

(* What is connected at first or plugged in later is a catalogue.          *)
LEMMA Connected ==
  ASSUME RowsType, usb = Catalogue
  PROVE  usb \in [Kinds -> Seq(Item)] /\ CatalogueInv
<1>1. /\ usb \in [Kinds -> Seq(Item)] /\ usb # NoCable
      /\ \A k \in Kinds : \A e \in Range(usb[k]) :
           e.id[1] = "usb" /\ e.media[1] = Cabled /\ e.media[2] = k
      /\ \A j, k \in Kinds : \A e \in Range(usb[j]), f \in Range(usb[k]) :
           e.id = f.id => e = f
  BY CatalogueIds
<1>2. \A k : UsbFolder(k) = usb[k]
  BY <1>1 DEF UsbFolder
<1>3. \A e \in Entries : \E k \in Kinds : e \in Range(usb[k])
  BY <1>2 DEF Entries
<1> QED
  BY <1>1, <1>2, <1>3 DEF CatalogueInv

LEMMA PluggedIn ==
  ASSUME RowsType, usb' = Catalogue
  PROVE  usb' \in [Kinds -> Seq(Item)] /\ CatalogueInv'
<1>1. /\ usb' \in [Kinds -> Seq(Item)] /\ usb' # NoCable
      /\ \A k \in Kinds : \A e \in Range(usb'[k]) :
           e.id[1] = "usb" /\ e.media[1] = Cabled /\ e.media[2] = k
      /\ \A j, k \in Kinds : \A e \in Range(usb'[j]), f \in Range(usb'[k]) :
           e.id = f.id => e = f
  BY CatalogueIds
<1>2. \A k : UsbFolder(k)' = usb'[k]
  BY <1>1 DEF UsbFolder, NoCable
<1>3. \A e \in Entries' : \E k \in Kinds : e \in Range(usb'[k])
  BY <1>2 DEF Entries, Range
<1>4. \A e, f \in Entries' : e.id = f.id => e = f
  BY <1>1, <1>3
<1>5. \A k \in Kinds : \A e \in Range(UsbFolder(k)') : e.id[1] = "usb" /\ e.media[1] = Cabled /\ e.media[2] = k
  BY <1>1, <1>2
<1> QED
  BY <1>1, <1>4, <1>5 DEF CatalogueInv, Range

(* Without a cable there are no objects.                                   *)
LEMMA Unplugged ==
  ASSUME usb' = NoCable
  PROVE  CatalogueInv'
<1>1. \A k \in Kinds : Range(UsbFolder(k))' = {}
  BY DEF UsbFolder, NoCable, Range
<1>2. Entries' = {}
  BY <1>1 DEF Entries
<1> QED
  BY <1>1, <1>2 DEF CatalogueInv

(* The three changes.                                                      *)
LEMMA ChangesKeep ==
  ASSUME IInv, LibraryChanges \/ Plug \/ Unplug
  PROVE  IInv'
<1>0. /\ UNCHANGED <<page, address, loads, copy, moved>> /\ changed' = open
      /\ RowsType /\ usb \in {NoCable} \cup [Kinds -> Seq(Item)]
  <2>1. UNCHANGED <<page, address, loads, copy, moved>> /\ changed' = open
    BY Zenon DEF LibraryChanges, Plug, Unplug
  <2> QED
    BY <2>1 DEF IInv, TypeInv, RowsType
<1>1. CASE LibraryChanges
  <2>1. usb' = usb /\ replugged' = replugged
    BY <1>1, Zenon DEF LibraryChanges
  <2>2. PICK m \in Changing :
          rows' = [rows EXCEPT ![m[1]][m[2]] = IF m[3] \in @ THEN @ \ {m[3]} ELSE @ \cup {m[3]}]
    BY <1>1 DEF LibraryChanges
  <2>3. m[1] \in Vitas /\ m[2] \in Kinds /\ m[3] \in Ids
    BY ViewAssumption
  <2>4. RowsType'
    BY <1>0, <2>2, <2>3 DEF RowsType
  <2>5. CatalogueInv'
    <3>1. \A k : UsbFolder(k)' = UsbFolder(k)
      BY <2>1 DEF UsbFolder, NoCable
    <3>2. Entries' = Entries
      BY <3>1 DEF Entries
    <3> QED
      BY <3>1, <3>2 DEF IInv, CatalogueInv
  <2>6. usb' \in {NoCable} \cup [Kinds -> Seq(Item)]
    BY <1>0, <2>1
  <2> QED
    BY <1>0, <2>1, <2>4, <2>5, <2>6, VitaKeeps
<1>2. CASE Plug
  <2>1. usb' = Catalogue /\ replugged' = open /\ rows' = rows
    BY <1>2, Zenon DEF Plug
  <2>2. RowsType'
    BY <1>0, <2>1 DEF RowsType
  <2>3. usb' \in [Kinds -> Seq(Item)] /\ CatalogueInv'
    BY <1>0, <2>1, PluggedIn
  <2> QED
    BY <1>0, <2>1, <2>2, <2>3, VitaKeeps
<1>3. CASE Unplug
  <2>1. usb' = NoCable /\ replugged' = replugged /\ rows' = rows
    BY <1>3, Zenon DEF Unplug
  <2>2. RowsType'
    BY <1>0, <2>1 DEF RowsType
  <2>3. CatalogueInv'
    BY <2>1, Unplugged
  <2> QED
    BY <1>0, <2>1, <2>2, <2>3, VitaKeeps
<1> QED
  BY <1>1, <1>2, <1>3

-----------------------------------------------------------------------------
(* The invariant.                                                          *)

(* At first there is no view; a cable may be connected.                    *)
LEMMA InitInv == Init => IInv
<1> SUFFICES ASSUME Init PROVE IInv
  OBVIOUS
<1>1. /\ kind = "photo" /\ items = <<>> /\ next = 0 /\ generation = 0 /\ transport = "wifi"
      /\ address = Cabled /\ loads = {} /\ rows = Library /\ usb \in {NoCable, Catalogue}
  BY Zenon DEF Init
<1>2. ~open /\ ~copying
  BY Zenon DEF Init
<1>3. RowsType
  BY <1>1, ViewAssumption DEF RowsType
<1>4. usb \in {NoCable} \cup [Kinds -> Seq(Item)] /\ CatalogueInv
  <2>1. CASE usb = Catalogue
    BY <1>3, <2>1, Connected
  <2>2. CASE usb = NoCable
    <3>1. \A k \in Kinds : Range(UsbFolder(k)) = {}
      BY <2>2 DEF UsbFolder, NoCable, Range
    <3>2. Entries = {}
      BY <3>1 DEF Entries
    <3> QED
      BY <2>2, <3>1, <3>2 DEF CatalogueInv
  <2> QED
    BY <1>1, <2>1, <2>2
<1>5. TypeInv
  <2>1. items \in Seq(Item)
    BY <1>1
  <2>2. kind \in Kinds /\ address \in Vitas /\ generation \in 0 .. MaxViews
    BY <1>1, ViewAssumption
  <2> QED
    BY <1>1, <1>2, <1>3, <1>4, <2>1, <2>2 DEF TypeInv, RowsType
<1> QED
  BY <1>1, <1>2, <1>4, <1>5 DEF IInv, LoadInv, ShownInv, PagesInv, CopyInv

LEMMA InvStep == IInv /\ [Next]_vars => IInv'
<1> SUFFICES ASSUME IInv, [Next]_vars PROVE IInv'
  OBVIOUS
<1>1. ASSUME NEW g \in 1 .. MaxViews, Proceeds(g) PROVE IInv'
  BY <1>1, ProceedsKeeps
<1>2. CASE User
  <2>1. CASE (\E k \in Kinds : openLibrary(k)) \/ AddressChanged
    BY <2>1, OpenKeeps
  <2>2. CASE closeLibrary
    BY <2>2, CloseKeeps
  <2>3. CASE Scroll \/ toggleLibraryItem \/ SelectAll \/ DeselectAll
    BY <2>3, SelectKeeps
  <2>4. CASE TypeAddress
    BY <2>4, AddressKeeps
  <2>5. CASE CopyFromVita
    BY <2>5, CopyKeeps
  <2> QED
    BY <1>2, <2>1, <2>2, <2>3, <2>4, <2>5, Zenon DEF User
<1>3. CASE CopyEnds
  BY <1>3, CopyKeeps
<1>4. CASE LibraryChanges \/ Plug \/ Unplug
  BY <1>4, ChangesKeep
<1>5. CASE UNCHANGED vars
  <2>1. UNCHANGED <<page, loads, copy, history, address, rows, usb>>
    BY <1>5, Zenon DEF vars, vita
  <2> QED
    BY <2>1, KeepKeeps
<1> QED
  BY <1>1, <1>2, <1>3, <1>4, <1>5, Zenon DEF Next

LEMMA Invariance == Spec => []IInv
  BY InitInv, InvStep, PTL DEF Spec

-----------------------------------------------------------------------------
(* The rest of the types: the selection, the Select alls that wait, the     *)
(* copy, and the flags.                                                     *)

ItemIds == {"usb", "wifi"} \X Nat

Chosen ==
  /\ selected \subseteq ItemIds /\ alls \subseteq 1 .. MaxViews
  /\ copy.items \subseteq Item

Flags ==
  /\ loading \in BOOLEAN /\ selectingAll \in BOOLEAN /\ copying \in BOOLEAN
  /\ open \in BOOLEAN /\ typed \in BOOLEAN

LEMMA IdsAreItemIds ==
  ASSUME NEW s \in Seq(Item)
  PROVE  IdsOf(s) \subseteq ItemIds
<1>1. \A i \in DOMAIN s : s[i] \in Item
  OBVIOUS
<1> QED
  BY <1>1 DEF IdsOf, Item, ItemIds

(* A load that ends adds to the selection what is shown, and Select alls    *)
(* only leave.                                                              *)
LEMMA FinishChooses ==
  ASSUME NEW l, NEW ok, Finish(l, ok)
  PROVE  /\ selected' = selected \/ selected' = selected \cup IdsOf(items')
         /\ alls' \subseteq alls
  BY Zenon DEF Finish

LEMMA ChosenStep ==
  ASSUME IInv, IInv', Chosen, [Next]_vars
  PROVE  Chosen'
<1>0. IdsOf(items) \subseteq ItemIds /\ IdsOf(items') \subseteq ItemIds
  BY IdsAreItemIds DEF IInv, TypeInv
<1>1. ASSUME NEW g \in 1 .. MaxViews, Proceeds(g) PROVE Chosen'
  <2>1. copy' = copy
    BY <1>1, Zenon DEF Proceeds, PageArrives, PageFails, ThumbsArrive
  <2>2. /\ selected' = selected \/ selected' = selected \cup IdsOf(items')
        /\ alls' \subseteq alls
    BY <1>1, FinishChooses, Zenon DEF Proceeds, PageArrives, PageFails, ThumbsArrive
  <2> QED
    BY <1>0, <2>1, <2>2 DEF Chosen
<1>2. CASE (\E k \in Kinds : openLibrary(k)) \/ AddressChanged
  <2>1. copy' = copy /\ alls' = alls /\ (selected' = selected \/ selected' = {})
    BY <1>2, Zenon DEF openLibrary, AddressChanged, selectLibraryKind, NewView, KeepView, page
  <2> QED
    BY <2>1 DEF Chosen
<1>3. CASE closeLibrary \/ Scroll \/ TypeAddress \/ LibraryChanges \/ Plug \/ Unplug \/ UNCHANGED vars
  <2>1. copy' = copy /\ alls' = alls /\ selected' = selected
    BY <1>3, Zenon DEF closeLibrary, Scroll, TypeAddress, LibraryChanges, Plug, Unplug, vars, page
  <2> QED
    BY <2>1 DEF Chosen
<1>4. CASE toggleLibraryItem \/ DeselectAll
  <2>1. /\ copy' = copy /\ alls' = alls
        /\ \E ids \in SUBSET IdsOf(items) : selected' = selected \cup ids \/ selected' = selected \ ids
    <3>1. CASE DeselectAll
      BY <3>1, Zenon DEF DeselectAll
    <3>2. CASE toggleLibraryItem
      <4>1. PICK id \in IdsOf(items) : selected' = IF id \in selected THEN selected \ {id} ELSE selected \cup {id}
        BY <3>2, Zenon DEF toggleLibraryItem
      <4>2. {id} \in SUBSET IdsOf(items) /\ (selected' = selected \cup {id} \/ selected' = selected \ {id})
        BY <4>1
      <4> QED
        BY <3>2, <4>2, Zenon DEF toggleLibraryItem
    <3> QED
      BY <1>4, <3>1, <3>2
  <2> QED
    BY <1>0, <2>1 DEF Chosen
<1>5. CASE SelectAll
  <2>1. /\ copy' = copy /\ selected' = selected \cup IdsOf(items) /\ open
        /\ alls' = alls \/ alls' = alls \cup {generation}
    BY <1>5, Zenon DEF SelectAll
  <2>2. generation \in 1 .. MaxViews
    BY <2>1, ViewAssumption DEF IInv, TypeInv
  <2> QED
    BY <1>0, <2>1, <2>2 DEF Chosen
<1>6. CASE CopyFromVita
  <2>1. /\ selected' = selected /\ alls' = alls
        /\ copy' = [items |-> {i \in Range(items) : i.id \in selected},
                    kind |-> kind, ip |-> address, via |-> transport]
    BY <1>6, Zenon DEF CopyFromVita
  <2>2. Range(items) \subseteq Item
    BY DEF IInv, TypeInv, Range
  <2> QED
    BY <2>1, <2>2 DEF Chosen
<1>7. CASE CopyEnds
  <2>1. /\ alls' = alls /\ copy' = NoCopy
        /\ \E done \in SUBSET copy.items : selected' = selected \ {i.id : i \in done}
    BY <1>7, Zenon DEF CopyEnds
  <2> QED
    BY <2>1 DEF Chosen, NoCopy
<1> QED
  BY <1>1, <1>2, <1>3, <1>4, <1>5, <1>6, <1>7, Zenon DEF Next, User

LEMMA FlagsStep ==
  ASSUME Flags, [Next]_vars
  PROVE  Flags'
<1>1. ASSUME NEW g \in 1 .. MaxViews, Proceeds(g) PROVE Flags'
  <2>1. UNCHANGED <<copying, open, typed>>
    BY <1>1, Zenon DEF Proceeds, PageArrives, PageFails, ThumbsArrive, view
  <2>2. (loading' = loading /\ selectingAll' = selectingAll) \/ \E l \in loads, ok \in BOOLEAN : Finish(l, ok)
    BY <1>1, Zenon DEF Proceeds, PageArrives, PageFails, ThumbsArrive
  <2>3. ASSUME NEW l, NEW ok, Finish(l, ok) PROVE loading' \in BOOLEAN /\ selectingAll' \in BOOLEAN
    BY <2>3, Zenon DEF Finish, Flags
  <2> QED
    BY <2>1, <2>2, <2>3, Zenon DEF Flags
<1>2. CASE (\E k \in Kinds : openLibrary(k)) \/ AddressChanged
  BY <1>2, Zenon DEF openLibrary, AddressChanged, selectLibraryKind, NewView, KeepView, page, Flags
<1>3. CASE closeLibrary \/ TypeAddress \/ LibraryChanges \/ Plug \/ Unplug \/ UNCHANGED vars
  BY <1>3, Zenon DEF closeLibrary, TypeAddress, LibraryChanges, Plug, Unplug, vars, page, Flags
<1>4. CASE Scroll \/ toggleLibraryItem \/ SelectAll \/ DeselectAll
  BY <1>4, Zenon DEF Scroll, toggleLibraryItem, SelectAll, DeselectAll, loadLibraryPage, view, Flags
<1>5. CASE CopyFromVita \/ CopyEnds
  BY <1>5, Zenon DEF CopyFromVita, CopyEnds, Flags
<1> QED
  BY <1>1, <1>2, <1>3, <1>4, <1>5, Zenon DEF Next, User

(* Every variable of the page keeps its type: in particular a Select all     *)
(* waits only for views that were opened, and a selection or a copy consists *)
(* of items that a page brought.                                             *)
THEOREM TypeCorrect == Spec => []TypeOK
<1>1. Init => Chosen /\ Flags
  <2> SUFFICES ASSUME Init PROVE Chosen /\ Flags
    OBVIOUS
  <2>1. selected = {} /\ alls = {} /\ copy = NoCopy
    BY Zenon DEF Init
  <2>2. Chosen
    BY <2>1 DEF Chosen, NoCopy
  <2>3. Flags
    BY Zenon DEF Init, Flags
  <2> QED
    BY <2>2, <2>3
<1>2. IInv /\ Chosen /\ Flags => TypeOK
  BY Zenon DEF IInv, TypeInv, Chosen, ItemIds, Flags, TypeOK
<1>3. IInv /\ IInv' /\ (Chosen /\ Flags) /\ [Next]_vars => (Chosen /\ Flags)'
  BY ChosenStep, FlagsStep
<1> QED
  BY <1>1, <1>2, <1>3, Invariance, PTL DEF Spec

-----------------------------------------------------------------------------
(* The properties.                                                         *)

(* A page requested for one folder or Vita is never shown in another: the  *)
(* answers that loadLibraryPageBody accepts are those of the generation    *)
(* that is open, which asked for this folder at this address.              *)
THEOREM ShownFolder == Spec => []OneFolder
<1>1. IInv => OneFolder
  BY DEF IInv, ShownInv, Shown, OneFolder
<1> QED
  BY <1>1, Invariance, PTL

(* loading is the truth about the open view: loadLibraryPage, the finally  *)
(* of a load and a new view keep the flag and the request together, however *)
(* many requests of earlier views are still on their way.                  *)
THEOREM SingleLoad == Spec => []OneLoadPerView
<1>1. IInv => OneLoadPerView
  <2> SUFFICES ASSUME IInv, open PROVE Cardinality(Mine) = IF loading THEN 1 ELSE 0
    BY DEF OneLoadPerView, Mine
  <2>1. (\A l, m \in Mine : l = m) /\ (loading <=> Mine # {})
    BY DEF IInv, LoadInv
  <2>2. CASE Mine = {}
    BY <2>1, <2>2, FS_EmptySet
  <2>3. CASE Mine # {}
    <3>1. PICK l : Mine = {l}
      BY <2>1, <2>3
    <3> HIDE DEF Mine
    <3>2. Cardinality(Mine) = 1
      BY <3>1, FS_Singleton
    <3> QED
      BY <2>1, <2>3, <3>2
  <2> QED
    BY <2>2, <2>3
<1> QED
  BY <1>1, Invariance, PTL

(* Paging by offset is complete: for any page size, library and order of   *)
(* the answers, when vcm_library_list says there is no next page and       *)
(* nothing changed meanwhile, the pages make up the folder, each medium    *)
(* once and in order.                                                      *)
THEOREM CompletePaging == Spec => []PagingIsComplete
<1>1. IInv => PagingIsComplete
  <2> SUFFICES ASSUME IInv, open, next = -1, ~changed, ~moved,
                      \A i \in DOMAIN items : items[i].id[1] = transport
               PROVE  items = Folder(transport, address, kind)
    BY DEF PagingIsComplete
  <2>1. TypeInv /\ CatalogueInv /\ PagesInv /\ transport \in {"usb", "wifi"} /\ kind \in Kinds /\ address \in Vitas
    BY DEF IInv, TypeInv
  <2> DEFINE F == Folder(transport, address, kind)
  <2>2. F \in Seq(Item)
    BY <2>1, FolderItems
  <2>3. items = SubSeq(F, 1, Len(items)) /\ Len(items) = Len(F)
    BY <2>1, PagesFrame
  <2> HIDE DEF F
  <2>4. items = SubSeq(F, 1, Len(F))
    BY <2>3
  <2>5. SubSeq(F, 1, Len(F)) = F
    BY <2>2, SubSeqFull
  <2> QED
    BY <2>4, <2>5 DEF F
<1> QED
  BY <1>1, Invariance, PTL

(* A copy fetches what was shown under that ID, or nothing: rows go by     *)
(* their number, which no other medium of the folder has, and objects by   *)
(* their place in the catalogue that is still connected.                   *)
THEOREM CopyIsOfShown == Spec => []CopyGetsWhatWasShown
<1>1. IInv => CopyGetsWhatWasShown
  <2> SUFFICES ASSUME IInv, copying
               PROVE  /\ open /\ copy.kind = kind /\ copy.items \subseteq Range(items)
                      /\ \A i \in copy.items : \/ Downloaded(copy, i.id) \subseteq {i.media}
                                               \/ moved
                                               \/ replugged /\ i.id[1] = "usb"
    BY DEF CopyGetsWhatWasShown
  <2>1. open /\ copy.kind = kind /\ copy.items \subseteq Range(items) /\ (copy.ip = address \/ moved)
    BY DEF IInv, CopyInv
  <2>2. TypeInv /\ CatalogueInv /\ RowsType /\ kind \in Kinds /\ address \in Vitas
    BY DEF IInv, TypeInv, RowsType
  <2>3. ASSUME NEW i \in copy.items, ~moved, ~(replugged /\ i.id[1] = "usb"),
               NEW d \in Downloaded(copy, i.id)
        PROVE  d = i.media
    <3>1. Shown(i) /\ i \in Item
      <4>1. PICK n \in DOMAIN items : items[n] = i
        BY <2>1 DEF Range
      <4>2. Shown(items[n]) /\ items[n] \in Item
        BY <2>1, <2>2, <4>1 DEF IInv, ShownInv, TypeInv
      <4> QED
        BY <4>1, <4>2
    <3>2. copy.ip = address
      BY <2>1, <2>3
    <3>3. CASE copy.via = "usb"
      <4>1. PICK j \in Entries : j.id = i.id /\ d = j.media
        BY <3>3 DEF Downloaded, Entries
      <4>2. j.id[1] = "usb" /\ usb # NoCable
        BY <2>2, <4>1 DEF CatalogueInv, Entries, UsbFolder, Range, NoCable
      <4>3. i.id[1] = "usb"
        BY <4>1, <4>2
      <4>4. i \in Entries
        BY <2>3, <3>1, <4>2, <4>3 DEF Shown
      <4> QED
        BY <2>2, <4>1, <4>4 DEF CatalogueInv
    <3>4. CASE copy.via # "usb"
      <4>1. PICK j \in Range(WifiFolder(address, kind)) : j.id = i.id /\ d = j.media
        BY <2>1, <3>2, <3>4 DEF Downloaded
      <4>2. PICK m \in DOMAIN WifiFolder(address, kind) : j = WifiFolder(address, kind)[m]
        BY <4>1 DEF Range
      <4>3. j.media[1] = address /\ j.media[2] = kind /\ j.id = <<"wifi", j.media[3]>> /\ j \in Item
        BY <2>2, <4>2, WifiItems
      <4>4. i.id = <<"wifi", i.media[3]>> /\ i.media[1] = address /\ i.media[2] = kind
        BY <2>3, <3>1, <4>1, <4>3 DEF Shown
      <4>5. j.media[3] = i.media[3]
        <5>1. j.id[2] = j.media[3] /\ i.id[2] = i.media[3]
          BY <4>3, <4>4
        <5> QED
          BY <4>1, <5>1
      <4>6. j.media \in Vitas \X Kinds \X Ids /\ i.media \in Vitas \X Kinds \X Ids
        BY <3>1, <4>3 DEF Item
      <4>7. j.media = i.media
        BY <4>3, <4>4, <4>5, <4>6
      <4> QED
        BY <4>1, <4>7
    <3> QED
      BY <3>3, <3>4
  <2> QED
    BY <2>1, <2>3
<1> QED
  BY <1>1, Invariance, PTL
=============================================================================
