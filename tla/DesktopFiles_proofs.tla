-------------------------- MODULE DesktopFiles_proofs --------------------------
(***************************************************************************)
(* Proofs about what the desktop leaves on the disk of the computer: the   *)
(* folder media are copied to (CopyFolder) and the folders of prepared     *)
(* files (Conversion).                                                     *)
(*                                                                         *)
(* FolderMatchesReport is not inductive: it says what the folder holds     *)
(* once the call returned.  AccountInv says it at every moment, by adding  *)
(* to the two lists the item under way: its media file is in the folder    *)
(* once it is published, so from there to the end of its sidecar.          *)
(*                                                                         *)
(* RowMatchesDisk is not inductive either: it speaks of the rows of ended  *)
(* conversions.  FolderInv says what each step of prepare finds in the     *)
(* folder, up to the answer; ProcessInv and ScratchInv say while which     *)
(* steps there are a process and a scratch folder; ShutInv, that no call   *)
(* gets beyond its tests of _closing once _shutdown has removed the        *)
(* folders.                                                                *)
(***************************************************************************)
EXTENDS CopyFolder, Conversion, TLAPS

(***************************************************************************)
(* The copy of media to a folder                                           *)
(***************************************************************************)

Parts == {"media", "m4t"}
Busy == at \in {"name", "request", "chunk", "poll", "published"}

(* Types, and what holds at each place of the loop.                        *)
PlaceInv ==
  /\ at \in {"item", "name", "request", "chunk", "poll", "published", "end"}
  /\ item \in 1 .. N + 1 /\ number \in Numbers /\ part \in Parts /\ got \in 0 .. Size
  /\ Busy => item <= N
  /\ at = "name" => part = "media"
  /\ part = "m4t" /\ Busy => item \in Sidecars
  /\ at \in {"item", "name", "request", "end"} => got = 0
  /\ at = "published" => got = Size
  /\ helper \in {"none", "runs", "ok", "bad"} /\ (at # "poll" => helper = "none")
  /\ helper = "ok" => got = Size
  /\ how \in {"runs", "returned", "raised"} /\ (how # "runs" => at = "end")

(* The files of other programs are where the history says.                 *)
ForeignInv ==
  /\ DOMAIN folder \subseteq Paths
  /\ foreign = {path \in DOMAIN folder : folder[path] = Foreign}

(* What the item under way has put into the folder.                        *)
UnderWay(p) ==
  \/ p = "media" /\ part = "m4t" /\ Busy
  \/ p = part /\ at = "published"

ListedFile(path) ==
  \/ \E c \in copied : path \in {Path(c.item, c.number, "media"), Path(c.item, c.number, "m4t")}
  \/ \E f \in failed : path = Path(f.item, f.partial, "media")

(* Every file of the folder has an owner.                                  *)
AccountInv ==
  \A path \in DOMAIN folder :
    \/ folder[path] = Foreign
    \/ ListedFile(path)
    \/ \E p \in Parts : path = Path(item, number, p) /\ UnderWay(p)

(* What is listed as copied is whole, and so is what the item under way    *)
(* published.                                                              *)
WholeInv ==
  /\ copied \subseteq [item : Items, number : Numbers]
  /\ \A c \in copied : /\ Whole(c.item, c.number, "media")
                       /\ c.item \in Sidecars => Whole(c.item, c.number, "m4t")
  /\ \A p \in Parts : UnderWay(p) => Whole(item, number, p)

CopyInv == PlaceInv /\ ForeignInv /\ AccountInv /\ WholeInv

-----------------------------------------------------------------------------
(* Files and names.                                                        *)

(* No file of ours is taken for one of another program.                    *)
LEMMA OursIsNotForeign ==
  ASSUME NEW i, NEW p, NEW g
  PROVE  Ours(i, p, g) # Foreign
  BY DEF Ours, Foreign

(* The name of an item is a path.                                          *)
LEMMA PathIsPath ==
  ASSUME NEW i \in Items, NEW n \in Numbers, NEW p \in Parts
  PROVE  Path(i, n, p) \in Paths
<1>1. Base(i) \in {Base(j) : j \in Items}
  OBVIOUS
<1> QED
  BY <1>1 DEF Path, Paths, Parts

(* Put adds one file and leaves the others as they are.                    *)
LEMMA PutAdds ==
  ASSUME NEW path, NEW what, ~Exists(path), Put(path, what)
  PROVE  /\ DOMAIN folder' = DOMAIN folder \cup {path} /\ folder'[path] = what
         /\ path \notin DOMAIN folder
         /\ \A f \in DOMAIN folder : folder'[f] = folder[f]
  BY DEF Put, Exists

(* Remove takes one file away.                                             *)
LEMMA RemoveTakes ==
  ASSUME NEW path \in DOMAIN folder, Remove(path)
  PROVE  /\ DOMAIN folder' = DOMAIN folder \ {path}
         /\ \A f \in DOMAIN folder' : folder'[f] = folder[f]
  BY DEF Remove

(* A file of ours stays whole while nothing but other programs' files is    *)
(* removed.                                                                 *)
LEMMA WholeStays ==
  ASSUME NEW i, NEW n, NEW p, Whole(i, n, p),
         \A f \in DOMAIN folder : folder[f] = Foreign \/ (f \in DOMAIN folder' /\ folder'[f] = folder[f])
  PROVE  Whole(i, n, p)'
<1>1. Path(i, n, p) \in DOMAIN folder /\ folder[Path(i, n, p)] # Foreign
  BY OursIsNotForeign DEF Whole, Exists
<1>2. Path(i, n, p)' = Path(i, n, p)
  BY DEF Path, Base
<1> QED
  BY <1>1, <1>2 DEF Whole, Exists, Ours

-----------------------------------------------------------------------------
(* Steps of the loop that leave the folder alone.                          *)

(* What is listed stays listed when the lists grow.                        *)
LEMMA ListedStays ==
  ASSUME copied \subseteq copied', failed \subseteq failed', NEW path, ListedFile(path)
  PROVE  ListedFile(path)'
  BY DEF ListedFile, Path, Base

(* If the folder is as it was, it is enough to look at the item under way. *)
LEMMA SameFolder ==
  ASSUME CopyInv, UNCHANGED <<folder, foreign>>, PlaceInv',
         copied \subseteq copied', failed \subseteq failed',
         copied' \subseteq [item : Items, number : Numbers],
         \A c \in copied' \ copied : /\ Whole(c.item, c.number, "media")
                                     /\ c.item \in Sidecars => Whole(c.item, c.number, "m4t"),
         \A p \in Parts : UnderWay(p)' => item' = item /\ number' = number /\ UnderWay(p),
         \A path \in DOMAIN folder, p \in Parts :
           path = Path(item, number, p) /\ UnderWay(p)
           => (item' = item /\ number' = number /\ UnderWay(p)') \/ ListedFile(path)'
  PROVE  CopyInv'
<1>1. ForeignInv'
  BY DEF CopyInv, ForeignInv, Foreign, Paths, Base, Items
<1>2. \A i, n, p : Whole(i, n, p) => Whole(i, n, p)'
  BY WholeStays
<1>3. WholeInv'
  <2>1. ASSUME NEW c \in copied'
        PROVE  Whole(c.item, c.number, "media")' /\ (c.item \in Sidecars => Whole(c.item, c.number, "m4t")')
    BY <1>2, <2>1 DEF CopyInv, WholeInv
  <2>2. ASSUME NEW p \in Parts, UnderWay(p)'
        PROVE  Whole(item, number, p)'
    <3>1. item' = item /\ number' = number /\ Whole(item, number, p)
      BY <2>2 DEF CopyInv, WholeInv
    <3> QED
      BY <3>1, WholeStays DEF Whole, Exists, Path, Base, Ours
  <2> QED
    BY <2>1, <2>2 DEF WholeInv, Items, Numbers, Parts
<1>4. ASSUME NEW path \in DOMAIN folder
      PROVE  \/ folder[path] = Foreign
             \/ ListedFile(path)'
             \/ \E p \in Parts : path = Path(item, number, p)' /\ UnderWay(p)'
  <2>1. CASE folder[path] = Foreign
    BY <2>1
  <2>2. CASE ListedFile(path)
    BY <2>2, ListedStays
  <2>3. CASE \E p \in Parts : path = Path(item, number, p) /\ UnderWay(p)
    <3>1. PICK p \in Parts : path = Path(item, number, p) /\ UnderWay(p)
      BY <2>3
    <3>2. item' = item /\ number' = number => Path(item, number, p)' = Path(item, number, p)
      BY DEF Path, Base
    <3> QED
      BY <3>1, <3>2
  <2> QED
    BY <2>1, <2>2, <2>3 DEF CopyInv, AccountInv
<1>5. AccountInv'
  BY <1>4 DEF AccountInv, Foreign, Path, Base, Parts
<1> QED
  BY <1>1, <1>3, <1>5 DEF CopyInv

(* The item fails: of its files only the media file of a video whose        *)
(* subtitles were on the way can be in the folder, and then the list of     *)
(* failures names it.                                                       *)
LEMMA FailsKeeps ==
  ASSUME CopyInv, at \in {"request", "chunk", "poll"}, Fails, helper' = "none",
         UNCHANGED <<folder, foreign>>
  PROVE  CopyInv'
<1>1. /\ item \in Items /\ number \in Numbers /\ part \in Parts
      /\ part = "m4t" => item \in Sidecars
  BY DEF CopyInv, PlaceInv, Busy, Items
<1>2. /\ got' = 0 /\ UNCHANGED <<number, part, copied>> /\ failed \subseteq failed'
      /\ at' \in {"item", "end"} /\ item' \in {item, item + 1}
      /\ how' # "runs" => at' = "end"
      /\ how' \in {"runs", "returned", "raised"}
  BY DEF Fails, Go, CopyInv, PlaceInv
<1>3. PlaceInv'
  BY <1>1, <1>2, CopyAssumption DEF CopyInv, PlaceInv, Busy, Items
<1>4. \A p \in Parts : ~UnderWay(p)'
  BY <1>2 DEF UnderWay, Busy
<1>5. ASSUME NEW path \in DOMAIN folder, NEW p \in Parts, path = Path(item, number, p), UnderWay(p)
      PROVE  ListedFile(path)'
  <2>1. p = "media" /\ part = "m4t"
    BY <1>5 DEF UnderWay
  <2>2. item \in Sidecars /\ Exists(Path(item, number, "media"))
    BY <1>1, <1>5, <2>1 DEF Exists
  <2>3. [item |-> item, partial |-> number] \in failed'
    BY <2>2 DEF Fails
  <2>4. PICK f \in failed' : f.item = item /\ f.partial = number
    BY <2>3
  <2> QED
    BY <1>5, <2>1, <2>4 DEF ListedFile, Path, Base
<1>6. copied' \subseteq [item : Items, number : Numbers]
  BY <1>2 DEF CopyInv, WholeInv
<1> QED
  BY <1>2, <1>3, <1>4, <1>5, <1>6, SameFolder

(* The steps up to the request.                                            *)
LEMMA LooksKeeps ==
  ASSUME CopyInv, NextItem \/ FindName
  PROVE  CopyInv'
<1>1. UNCHANGED <<folder, foreign, copied, failed, item, got, helper>>
  BY DEF NextItem, FindName, others, result
<1>2. PlaceInv'
  <2>1. CASE NextItem
    BY <2>1, CopyAssumption DEF NextItem, Go, CopyInv, PlaceInv, Busy, Parts, Numbers
  <2>2. CASE FindName
    BY <2>2 DEF FindName, Go, CopyInv, PlaceInv, Busy, Parts, Numbers, result
  <2> QED
    BY <2>1, <2>2
<1>3. \A p \in Parts : ~UnderWay(p)
  BY DEF NextItem, FindName, UnderWay, Busy, CopyInv, PlaceInv
<1>4. \A p \in Parts : ~UnderWay(p)'
  <2>1. CASE NextItem
    BY <2>1 DEF NextItem, Go, UnderWay, Busy
  <2>2. CASE FindName
    BY <2>2 DEF FindName, Go, UnderWay, Busy, CopyInv, PlaceInv
  <2> QED
    BY <2>1, <2>2
<1>5. copied' \subseteq [item : Items, number : Numbers]
  BY <1>1 DEF CopyInv, WholeInv
<1> QED
  BY <1>1, <1>2, <1>3, <1>4, <1>5, SameFolder

(* The steps that get the file.                                            *)
LEMMA GetsKeeps ==
  ASSUME CopyInv, Request \/ Chunk \/ StartHelper \/ HelperCopies \/ PollFails
  PROVE  CopyInv'
<1>1. CASE Fails /\ at \in {"request", "chunk", "poll"} /\ helper' = "none" /\ UNCHANGED <<folder, foreign>>
  BY <1>1, FailsKeeps
<1>2. CASE /\ UNCHANGED <<folder, foreign, copied, failed, item, number, part, how>>
           /\ at \in {"request", "chunk", "poll"}
           /\ at' \in {"request", "chunk", "poll"}
           /\ PlaceInv'
  <2>1. \A p \in Parts : UnderWay(p)' <=> UnderWay(p)
    BY <1>2 DEF UnderWay, Busy
  <2>2. copied' \subseteq [item : Items, number : Numbers]
    BY <1>2 DEF CopyInv, WholeInv
  <2> QED
    BY <1>2, <2>1, <2>2, SameFolder
<1>3. CASE Request
  <2>1. CASE Go("chunk") /\ UNCHANGED <<item, number, via, part, got, result>>
    BY <1>2, <1>3, <2>1 DEF Request, Go, CopyInv, PlaceInv, Busy, result, others
  <2> QED
    BY <1>1, <1>3, <2>1 DEF Request, CopyInv, PlaceInv, others
<1>4. CASE Chunk
  <2>1. CASE got' = got + 1 /\ UNCHANGED <<at, item, number, via, part, result>>
    <3>1. got' \in 0 .. Size
      BY <1>4, <2>1, CopyAssumption DEF Chunk, CopyInv, PlaceInv
    <3> QED
      BY <1>2, <1>4, <2>1, <3>1 DEF Chunk, CopyInv, PlaceInv, Busy, result, others
  <2> QED
    BY <1>1, <1>4, <2>1 DEF Chunk, CopyInv, PlaceInv, others
<1>5. CASE StartHelper
  <2>1. CASE Go("poll") /\ helper' = "runs" /\ UNCHANGED <<item, number, via, part, got, result>>
    BY <1>2, <1>5, <2>1 DEF StartHelper, Go, CopyInv, PlaceInv, Busy, result, others
  <2> QED
    BY <1>1, <1>5, <2>1 DEF StartHelper, CopyInv, PlaceInv, others
<1>6. CASE HelperCopies
  <2>1. got' \in 0 .. Size /\ helper' \in {"none", "runs", "ok", "bad"} /\ (helper' = "ok" => got' = Size)
    BY <1>6, CopyAssumption DEF HelperCopies, CopyInv, PlaceInv
  <2>2. UNCHANGED <<at, item, number, via, part, result, folder, others>> /\ at = "poll"
    BY <1>6 DEF HelperCopies, CopyInv, PlaceInv
  <2> QED
    BY <1>2, <2>1, <2>2 DEF CopyInv, PlaceInv, Busy, result, others
<1>7. CASE PollFails
  BY <1>1, <1>7 DEF PollFails, others
<1> QED
  BY <1>3, <1>4, <1>5, <1>6, <1>7

(* The file is in the folder and its part file removed.                    *)
LEMMA FileDoneKeeps ==
  ASSUME CopyInv, FileDone
  PROVE  CopyInv'
<1>1. /\ at = "published" /\ item \in Items /\ number \in Numbers /\ part \in Parts /\ got' = 0
      /\ UNCHANGED <<number, helper, failed, how, folder, foreign>>
      /\ part = "m4t" => item \in Sidecars
  BY DEF FileDone, CopyInv, PlaceInv, Busy, Items, others
<1>2. UnderWay(part) /\ (part = "m4t" => UnderWay("media"))
  BY <1>1 DEF UnderWay, Busy
<1>3. Whole(item, number, part) /\ (part = "m4t" => Whole(item, number, "media"))
  BY <1>1, <1>2 DEF CopyInv, WholeInv, Parts
<1>4. CASE part = "media" /\ item \in Sidecars
  <2>1. at' = "request" /\ part' = "m4t" /\ UNCHANGED <<item, copied>>
    BY <1>4 DEF FileDone, Go
  <2>2. PlaceInv'
    BY <1>1, <1>4, <2>1, CopyAssumption DEF CopyInv, PlaceInv, Busy, Parts
  <2>3. \A p \in Parts : UnderWay(p)' <=> p = "media"
    BY <2>1 DEF UnderWay, Busy, Parts
  <2>4. \A p \in Parts : UnderWay(p) <=> p = "media"
    BY <1>1, <1>4 DEF UnderWay, Busy, Parts
  <2>5. copied' \subseteq [item : Items, number : Numbers]
    BY <2>1 DEF CopyInv, WholeInv
  <2> QED
    BY <1>1, <2>1, <2>2, <2>3, <2>4, <2>5, SameFolder
<1>5. CASE ~(part = "media" /\ item \in Sidecars)
  <2> DEFINE c == [item |-> item, number |-> number]
  <2>1. /\ copied' = copied \cup {c} /\ at' = "item" /\ item' = item + 1 /\ part' = part
    BY <1>5 DEF FileDone, Go
  <2>2. PlaceInv'
    BY <1>1, <2>1, CopyAssumption DEF CopyInv, PlaceInv, Busy, Items
  <2>3. \A p \in Parts : ~UnderWay(p)'
    BY <2>1 DEF UnderWay, Busy
  <2>4. c \in [item : Items, number : Numbers] /\ c.item = item /\ c.number = number
    BY <1>1
  <2>5. copied' \subseteq [item : Items, number : Numbers]
    BY <2>1, <2>4 DEF CopyInv, WholeInv
  <2>6. Whole(item, number, "media") /\ (item \in Sidecars => Whole(item, number, "m4t"))
    BY <1>1, <1>3, <1>5 DEF Parts
  <2>7. ASSUME NEW path \in DOMAIN folder, NEW p \in Parts, path = Path(item, number, p)
        PROVE  ListedFile(path)'
    <3>1. path \in {Path(c.item, c.number, "media"), Path(c.item, c.number, "m4t")}
      BY <2>4, <2>7 DEF Parts
    <3> HIDE DEF c
    <3> QED
      BY <2>1, <3>1 DEF ListedFile, Path, Base
  <2>8. \A d \in copied' \ copied : /\ Whole(d.item, d.number, "media")
                                    /\ d.item \in Sidecars => Whole(d.item, d.number, "m4t")
    BY <2>1, <2>4, <2>6
  <2> HIDE DEF c
  <2> QED
    BY <1>1, <2>1, <2>2, <2>3, <2>5, <2>7, <2>8, SameFolder
<1> QED
  BY <1>4, <1>5

-----------------------------------------------------------------------------
(* Steps that change the folder.                                           *)

(* The file is published where no file is, or the item fails.              *)
LEMMA PublishKeeps ==
  ASSUME CopyInv, Publish
  PROVE  CopyInv'
<1>0. /\ at \in {"chunk", "poll"} /\ got = Size /\ item \in Items /\ number \in Numbers
      /\ part \in Parts /\ helper' = "none" /\ UNCHANGED foreign
  BY DEF Publish, CopyInv, PlaceInv, Busy, Items, others
<1>1. CASE Exists(Target) /\ Fails /\ UNCHANGED folder
  BY <1>0, <1>1, FailsKeeps
<1>2. CASE /\ ~Exists(Target) /\ Put(Target, Ours(item, part, got)) /\ Go("published")
           /\ UNCHANGED <<item, number, via, part, got, result>>
  <2>1. /\ at' = "published" /\ UNCHANGED <<item, number, part, got, copied, failed, how>>
        /\ Target \in Paths
    BY <1>0, <1>2, PathIsPath DEF Go, result, Target
  <2>2. /\ DOMAIN folder' = DOMAIN folder \cup {Target} /\ folder'[Target] = Ours(item, part, Size)
        /\ Target \notin DOMAIN folder
        /\ \A f \in DOMAIN folder : folder'[f] = folder[f]
    BY <1>0, <1>2, PutAdds
  <2>3. PlaceInv'
    BY <1>0, <2>1 DEF CopyInv, PlaceInv, Busy, Items
  <2>4. ForeignInv'
    <3>1. DOMAIN folder' \subseteq Paths
      BY <2>1, <2>2 DEF CopyInv, ForeignInv
    <3>2. foreign' = {path \in DOMAIN folder' : folder'[path] = Foreign}
      BY <1>0, <2>2, OursIsNotForeign DEF CopyInv, ForeignInv
    <3> QED
      BY <3>1, <3>2 DEF ForeignInv, Paths, Base, Items, Numbers, Foreign
  <2>5. \A p \in Parts : UnderWay(p) => UnderWay(p)'
    BY <1>0, <2>1 DEF UnderWay, Busy
  <2>6. UnderWay(part)'
    BY <2>1 DEF UnderWay
  <2>7. \A p \in Parts : UnderWay(p)' => p = part \/ UnderWay(p)
    BY <1>0, <2>1 DEF UnderWay, Busy
  <2>8. AccountInv'
    <3>1. ASSUME NEW path \in DOMAIN folder'
          PROVE  \/ folder'[path] = Foreign
                 \/ ListedFile(path)'
                 \/ \E p \in Parts : path = Path(item, number, p)' /\ UnderWay(p)'
      <4>0. \A p : Path(item, number, p)' = Path(item, number, p)
        BY <2>1 DEF Path, Base
      <4>1. CASE path = Target
        BY <1>0, <2>6, <4>0, <4>1, <2>1 DEF Target
      <4>2. CASE path \in DOMAIN folder
        <5>1. CASE folder[path] = Foreign
          BY <2>2, <4>2, <5>1
        <5>2. CASE ListedFile(path)
          BY <2>1, <5>2, ListedStays
        <5>3. CASE \E p \in Parts : path = Path(item, number, p) /\ UnderWay(p)
          BY <2>5, <4>0, <5>3
        <5> QED
          BY <4>2, <5>1, <5>2, <5>3 DEF CopyInv, AccountInv
      <4> QED
        BY <2>2, <4>1, <4>2
    <3> QED
      BY <3>1 DEF AccountInv, Foreign, Parts
  <2>9. WholeInv'
    <3>1. \A i, n, p : Whole(i, n, p) => Whole(i, n, p)'
      BY <2>2, WholeStays
    <3>2. Whole(item, number, part)'
      <4>1. Path(item, number, part)' = Target
        BY <2>1 DEF Path, Base, Target
      <4>2. Ours(item, part, Size)' = Ours(item, part, Size)
        BY <2>1 DEF Ours
      <4> QED
        BY <2>1, <2>2, <4>1, <4>2 DEF Whole, Exists
    <3>3. ASSUME NEW p \in Parts, UnderWay(p)' PROVE Whole(item, number, p)'
      <4>1. CASE p = part
        BY <2>1, <3>2, <4>1 DEF Whole, Exists, Path, Base, Ours
      <4>2. CASE UnderWay(p)
        <5>1. Whole(item, number, p)
          BY <4>2 DEF CopyInv, WholeInv
        <5>2. item' = item /\ number' = number
          BY <2>1
        <5> QED
          BY <2>2, <5>1, <5>2, WholeStays DEF Whole, Exists, Path, Base, Ours
      <4> QED
        BY <2>7, <3>3, <4>1, <4>2
    <3>4. ASSUME NEW c \in copied'
          PROVE  Whole(c.item, c.number, "media")' /\ (c.item \in Sidecars => Whole(c.item, c.number, "m4t")')
      <4>1. Whole(c.item, c.number, "media") /\ (c.item \in Sidecars => Whole(c.item, c.number, "m4t"))
        BY <2>1, <3>4 DEF CopyInv, WholeInv
      <4> QED
        BY <3>1, <4>1
    <3>5. copied' \subseteq [item : Items, number : Numbers]
      BY <2>1 DEF CopyInv, WholeInv
    <3> QED
      BY <3>3, <3>4, <3>5 DEF WholeInv, Items, Numbers, Parts
  <2> QED
    BY <2>3, <2>4, <2>8, <2>9 DEF CopyInv
<1> QED
  BY <1>1, <1>2 DEF Publish

(* Other programs add and remove files of their own.                       *)
LEMMA OtherProgramKeeps ==
  ASSUME CopyInv, OtherProgram
  PROVE  CopyInv'
<1>0. UNCHANGED <<at, item, number, part, got, helper, copied, failed, how>>
  BY DEF OtherProgram, job, result
<1>1. PlaceInv'
  BY <1>0 DEF CopyInv, PlaceInv, Busy, Items, Numbers, Parts
<1>2. (\A p : UnderWay(p)' <=> UnderWay(p)) /\ \A p : Path(item, number, p)' = Path(item, number, p)
  BY <1>0 DEF UnderWay, Busy, Path, Base
<1>3. /\ ForeignInv'
      /\ \A f \in DOMAIN folder : folder[f] = Foreign \/ (f \in DOMAIN folder' /\ folder'[f] = folder[f])
      /\ \A f \in DOMAIN folder' : folder'[f] = Foreign \/ (f \in DOMAIN folder /\ folder'[f] = folder[f])
  <2>1. CASE \E path \in InReach \ DOMAIN folder : Put(path, Foreign) /\ foreign' = foreign \cup {path}
    <3>1. PICK path \in InReach \ DOMAIN folder : Put(path, Foreign) /\ foreign' = foreign \cup {path}
      BY <2>1
    <3>2. /\ DOMAIN folder' = DOMAIN folder \cup {path} /\ folder'[path] = Foreign
          /\ \A f \in DOMAIN folder : folder'[f] = folder[f]
      BY <3>1, PutAdds DEF Exists
    <3>3. path \in Paths
      BY CopyAssumption DEF InReach, Paths, Numbers
    <3>4. DOMAIN folder' \subseteq Paths /\ foreign' = {f \in DOMAIN folder' : folder'[f] = Foreign}
      BY <3>1, <3>2, <3>3 DEF CopyInv, ForeignInv
    <3> QED
      BY <3>2, <3>4 DEF ForeignInv, Paths, Base, Items, Numbers, Foreign
  <2>2. CASE \E path \in DOMAIN folder : folder[path] = Foreign /\ Remove(path) /\ foreign' = foreign \ {path}
    <3>1. PICK path \in DOMAIN folder : folder[path] = Foreign /\ Remove(path) /\ foreign' = foreign \ {path}
      BY <2>2
    <3>2. /\ DOMAIN folder' = DOMAIN folder \ {path}
          /\ \A f \in DOMAIN folder' : folder'[f] = folder[f]
      BY <3>1, RemoveTakes
    <3>4. DOMAIN folder' \subseteq Paths /\ foreign' = {f \in DOMAIN folder' : folder'[f] = Foreign}
      BY <3>1, <3>2 DEF CopyInv, ForeignInv
    <3> QED
      BY <3>1, <3>2, <3>4 DEF ForeignInv, Paths, Base, Items, Numbers, Foreign
  <2> QED
    BY <2>1, <2>2 DEF OtherProgram
<1>4. AccountInv'
  <2>1. ASSUME NEW path \in DOMAIN folder', folder'[path] # Foreign
        PROVE  ListedFile(path)' \/ \E p \in Parts : path = Path(item, number, p)' /\ UnderWay(p)'
    <3>1. ListedFile(path) \/ \E p \in Parts : path = Path(item, number, p) /\ UnderWay(p)
      BY <1>3, <2>1 DEF CopyInv, AccountInv
    <3>2. CASE ListedFile(path)
      BY <1>0, <3>2, ListedStays
    <3> QED
      BY <1>2, <3>1, <3>2
  <2> QED
    BY <2>1 DEF AccountInv, Foreign, Parts
<1>5. WholeInv'
  <2>1. \A i, n, p : Whole(i, n, p) => Whole(i, n, p)'
    BY <1>3, WholeStays
  <2>2. ASSUME NEW p \in Parts, UnderWay(p)' PROVE Whole(item, number, p)'
    <3>1. Whole(item, number, p) /\ item' = item /\ number' = number
      BY <1>0, <1>2, <2>2 DEF CopyInv, WholeInv
    <3> QED
      BY <1>3, <3>1, WholeStays DEF Whole, Exists, Path, Base, Ours
  <2>3. ASSUME NEW c \in copied'
        PROVE  Whole(c.item, c.number, "media")' /\ (c.item \in Sidecars => Whole(c.item, c.number, "m4t")')
    <3>1. Whole(c.item, c.number, "media") /\ (c.item \in Sidecars => Whole(c.item, c.number, "m4t"))
      BY <1>0, <2>3 DEF CopyInv, WholeInv
    <3> QED
      BY <2>1, <3>1
  <2>4. copied' \subseteq [item : Items, number : Numbers]
    BY <1>0 DEF CopyInv, WholeInv
  <2> QED
    BY <2>2, <2>3, <2>4 DEF WholeInv, Items, Numbers, Parts
<1> QED
  BY <1>1, <1>3, <1>4, <1>5 DEF CopyInv

(* Every step keeps the account.                                           *)
LEMMA CopyStep == CopyInv /\ [CopyNext]_copyVars => CopyInv'
<1> SUFFICES ASSUME CopyInv, [CopyNext]_copyVars PROVE CopyInv'
  OBVIOUS
<1>1. CASE UNCHANGED <<job, result, folder, others>>
  <2>1. UNCHANGED <<at, item, number, part, got, helper, copied, failed, how, folder, foreign>>
    BY <1>1 DEF job, result, others
  <2>2. PlaceInv'
    BY <2>1 DEF CopyInv, PlaceInv, Busy, Items, Numbers, Parts
  <2>3. \A p : UnderWay(p)' <=> UnderWay(p)
    BY <2>1 DEF UnderWay, Busy
  <2>4. copied' \subseteq [item : Items, number : Numbers]
    BY <2>1 DEF CopyInv, WholeInv
  <2> QED
    BY <2>1, <2>2, <2>3, <2>4, SameFolder
<1>2. CASE cancel_transfer \/ ShutdownBegins \/ Ended \/ UNCHANGED copyVars
  BY <1>1, <1>2 DEF cancel_transfer, ShutdownBegins, Ended, copyVars
<1> QED
  BY <1>2, LooksKeeps, GetsKeeps, FileDoneKeeps, PublishKeeps, OtherProgramKeeps DEF CopyNext, copy_from_vita

(* The account is inductive.                                               *)
LEMMA CopyInvariance == CopySpec => []CopyInv
<1>1. CopyInit => CopyInv
  <2> SUFFICES ASSUME CopyInit PROVE CopyInv
    OBVIOUS
  <2>1. PlaceInv
    BY CopyAssumption DEF CopyInit, PlaceInv, Busy, Numbers, Parts
  <2>2. DOMAIN folder = {} /\ foreign = {} /\ copied = {} /\ \A p \in Parts : ~UnderWay(p)
    BY DEF CopyInit, UnderWay, Busy, Parts
  <2> QED
    BY <2>1, <2>2 DEF CopyInv, ForeignInv, AccountInv, WholeInv
<1> QED
  BY <1>1, CopyStep, PTL DEF CopySpec

(* A copy never replaces a file of another program; what is listed as       *)
(* copied is there and whole, a video with its subtitles; what a call that  *)
(* returned left in the folder is named by its lists; no part file and no   *)
(* helper outlives its file.                                                *)
THEOREM FolderIsReported == CopySpec => []FolderMatchesReport
<1>1. CopyInv => FolderMatchesReport
  <2> SUFFICES ASSUME CopyInv PROVE FolderMatchesReport
    OBVIOUS
  <2>1. \A path \in foreign : Exists(path) /\ folder[path] = Foreign
    BY DEF CopyInv, ForeignInv, Exists
  <2>2. \A c \in copied : /\ Whole(c.item, c.number, "media")
                          /\ c.item \in Sidecars => Whole(c.item, c.number, "m4t")
    BY DEF CopyInv, WholeInv
  <2>3. ASSUME how = "returned", NEW path \in DOMAIN folder
        PROVE  folder[path] = Foreign \/ ListedFile(path)
    <3>1. \A p \in Parts : ~UnderWay(p)
      BY <2>3 DEF CopyInv, PlaceInv, UnderWay, Busy
    <3> QED
      BY <3>1 DEF CopyInv, AccountInv
  <2>4. at \notin {"chunk", "poll", "published"} => got = 0 /\ helper = "none"
    BY DEF CopyInv, PlaceInv
  <2> QED
    BY <2>1, <2>2, <2>3, <2>4 DEF FolderMatchesReport, ListedFile
<1> QED
  BY <1>1, CopyInvariance, PTL

-----------------------------------------------------------------------------
(* Types.                                                                  *)

(* What the account does not say of the variables.                         *)
OtherTypes ==
  /\ via \in {"wifi", "usb"}
  /\ failed \subseteq [item : Items, partial : Numbers \cup {0}]
  /\ \A path \in DOMAIN folder :
       folder[path] \in {Foreign} \cup {Ours(i, p, Size) : i \in Items, p \in Parts}
  /\ created \in 0 .. MaxForeign
CopyFlags == _transfer_cancel \in BOOLEAN /\ _closing \in BOOLEAN

(* A failure is listed for an item of the selection.                       *)
LEMMA FailsTypes ==
  ASSUME CopyInv, OtherTypes, Fails, at \in {"request", "chunk", "poll"}
  PROVE  via' = via /\ failed' \subseteq [item : Items, partial : Numbers \cup {0}]
<1>1. item \in Items /\ number \in Numbers
  BY DEF CopyInv, PlaceInv, Busy, Items
<1> DEFINE f == [item |-> item,
                 partial |-> IF item \in Sidecars /\ Exists(Path(item, number, "media")) THEN number ELSE 0]
<1>2. f \in [item : Items, partial : Numbers \cup {0}]
  BY <1>1
<1>3. failed' = failed \cup {f} /\ via' = via
  BY DEF Fails
<1> HIDE DEF f
<1> QED
  BY <1>2, <1>3 DEF OtherTypes

(* Every step keeps the types.                                             *)
LEMMA TypesStep ==
  ASSUME CopyInv, OtherTypes, [CopyNext]_copyVars
  PROVE  OtherTypes'
<1>1. CASE /\ via' = via /\ failed' \subseteq [item : Items, partial : Numbers \cup {0}]
           /\ UNCHANGED <<folder, created>>
  BY <1>1 DEF OtherTypes, Foreign, Ours, Items, Parts, Numbers
<1>2. CASE UNCHANGED <<via, failed, folder, created>>
  BY <1>1, <1>2 DEF OtherTypes
<1>3. CASE Fails /\ at \in {"request", "chunk", "poll"} /\ UNCHANGED <<folder, created>>
  BY <1>1, <1>3, FailsTypes
<1>4. CASE Publish
  <2>1. CASE Fails /\ UNCHANGED folder
    BY <1>3, <1>4, <2>1 DEF Publish, others
  <2>2. CASE /\ ~Exists(Target) /\ Put(Target, Ours(item, part, got))
             /\ UNCHANGED <<item, number, via, part, got, result>>
    <3>1. item \in Items /\ part \in Parts /\ got = Size /\ UNCHANGED <<via, failed, created>>
      BY <1>4, <2>2 DEF Publish, CopyInv, PlaceInv, Busy, Items, result, others
    <3>2. /\ DOMAIN folder' = DOMAIN folder \cup {Target} /\ folder'[Target] = Ours(item, part, Size)
          /\ \A f \in DOMAIN folder : folder'[f] = folder[f]
      BY <2>2, <3>1, PutAdds
    <3>3. \A f \in DOMAIN folder' :
            folder'[f] \in {Foreign} \cup {Ours(i, p, Size) : i \in Items, p \in Parts}
      BY <3>1, <3>2 DEF OtherTypes
    <3> QED
      BY <3>1, <3>3 DEF OtherTypes, Foreign, Ours, Items, Parts, Numbers
  <2> QED
    BY <1>4, <2>1, <2>2 DEF Publish
<1>5. CASE OtherProgram
  <2>1. UNCHANGED <<via, failed>>
    BY <1>5 DEF OtherProgram, job, result
  <2>2. created' \in 0 .. MaxForeign
    BY <1>5, CopyAssumption DEF OtherProgram, OtherTypes
  <2>3. \A f \in DOMAIN folder' : folder'[f] = Foreign \/ (f \in DOMAIN folder /\ folder'[f] = folder[f])
    BY <1>5, PutAdds, RemoveTakes DEF OtherProgram, Exists
  <2>4. \A f \in DOMAIN folder' :
          folder'[f] \in {Foreign} \cup {Ours(i, p, Size) : i \in Items, p \in Parts}
    BY <2>3 DEF OtherTypes
  <2> QED
    BY <2>1, <2>2, <2>4 DEF OtherTypes, Foreign, Ours, Items, Parts, Numbers
<1>6. CASE \/ NextItem \/ FindName \/ FileDone \/ HelperCopies \/ cancel_transfer \/ ShutdownBegins \/ Ended
           \/ UNCHANGED copyVars
  BY <1>2, <1>6 DEF NextItem, FindName, FileDone, HelperCopies, cancel_transfer, ShutdownBegins, Ended,
                    copyVars, job, result, others
<1>7. CASE Request \/ Chunk \/ StartHelper \/ PollFails
  BY <1>2, <1>3, <1>7 DEF Request, Chunk, StartHelper, PollFails, result, others
<1> QED
  BY <1>4, <1>5, <1>6, <1>7 DEF CopyNext, copy_from_vita

(* Every variable keeps its type, however long the search for a free name  *)
(* gets.                                                                   *)
THEOREM CopyTypes == CopySpec => []CopyTypeOK
<1>1. CopyInit => OtherTypes
  BY CopyAssumption DEF CopyInit, OtherTypes
<1>2. CopyInit => CopyFlags
  BY Zenon DEF CopyInit, CopyFlags
<1>3. CopyFlags /\ [CopyNext]_copyVars => CopyFlags'
  BY Zenon DEF CopyFlags, CopyNext, copy_from_vita, NextItem, FindName, Request, Chunk, StartHelper,
               PollFails,
               Publish, FileDone, HelperCopies, cancel_transfer, ShutdownBegins, OtherProgram, Ended, copyVars
<1>4. CopyInv /\ OtherTypes /\ CopyFlags => CopyTypeOK
  <2> SUFFICES ASSUME CopyInv, OtherTypes, CopyFlags PROVE CopyTypeOK
    OBVIOUS
  <2>1. foreign \subseteq Paths /\ DOMAIN folder \subseteq Paths
    BY DEF CopyInv, ForeignInv
  <2>2. _transfer_cancel \in BOOLEAN /\ _closing \in BOOLEAN
    BY Zenon DEF CopyFlags
  <2>3. \A path \in DOMAIN folder :
          folder[path] \in {Foreign} \cup {Ours(i, p, Size) : i \in Items, p \in {"media", "m4t"}}
    BY DEF OtherTypes, Parts
  <2> QED
    BY <2>1, <2>2, <2>3 DEF CopyTypeOK, CopyInv, PlaceInv, WholeInv, OtherTypes, Parts
<1> QED
  BY <1>1, <1>2, <1>3, <1>4, CopyInvariance, TypesStep, PTL DEF CopySpec

(***************************************************************************)
(* The conversion of files                                                 *)
(***************************************************************************)

Waiting == {"run", "wait"}

(* The page shows a row as converting while convert_files is at it, and    *)
(* the later ones as not begun.                                            *)
CallInv ==
  /\ step # "idle" => call \in 1 .. Calls /\ rows[call] = "converting"
  /\ \A j \in 1 .. Calls : j > call => rows[j] = "ready"

(* A process, its reader and its reports exist only while a step that needs *)
(* one waits for it.                                                        *)
ProcessInv ==
  /\ IF sub \in Waiting THEN NeedsChild ELSE child = "none" /\ ~reader /\ queued = 0
  /\ step \in {"idle", "test", "clear", "next", "except"} => sub = "begin"

(* What is to be done at the steps that only some files reach.             *)
PlanInv ==
  /\ step \in {"subtitle", "build"} => plan.kind = "video"
  /\ step = "build" => plan.subtitle = "text"

(* What each step of prepare finds in the folder.                          *)
FolderInv ==
  /\ step \in {"test", "clear", "next"} => disk[call] = Gone
  /\ step \in {"check", "verify", "subtitle", "build", "final"} => disk[call].target = "whole"
  /\ step \in {"subtitle", "build"} \/ (step = "final" /\ plan.kind # "photo") => disk[call].decoded
  /\ step = "final" /\ plan.subtitle # "none" => disk[call].m4t = "whole"

(* prepare_subtitle's scratch folder is there while its process runs and   *)
(* until its output is taken; where it could not be removed, the row ends  *)
(* as failed.                                                              *)
ScratchInv ==
  \A j \in 1 .. Calls :
    disk[j].scratch =>
      \/ j = call /\ ((step = "subtitle" /\ sub \in Waiting) \/ step \in {"build", "except"})
      \/ rows[j] = "failed"

(* The rows of the conversions that are over.                              *)
RowInv(j) ==
  /\ rows[j] = "prepared" /\ shut # "done" =>
       /\ disk[j].target = "whole"
       /\ plans[j].kind # "photo" => disk[j].decoded
       /\ plans[j].subtitle # "none" => disk[j].m4t = "whole"
  /\ rows[j] \in {"stopped", "ready"} => disk[j] = Gone
RowsInv == \A j \in 1 .. Calls : RowInv(j)

(* _shutdown removes the folder when no call is in prepare, and after       *)
(* _closing was set none gets there.                                        *)
ShutInv ==
  shut = "done" => step \in {"idle", "test", "next"} /\ \A j \in 1 .. Calls : disk[j] = Gone

PrepareInv == TypeOK /\ CallInv /\ ProcessInv /\ PlanInv /\ FolderInv /\ ScratchInv /\ RowsInv /\ ShutInv

-----------------------------------------------------------------------------
FolderType == [there : BOOLEAN, target : {"none", "part", "whole"},
               m4t : {"none", "part", "whole"}, scratch : BOOLEAN, decoded : BOOLEAN]

(* The types, those of the truth values apart.                             *)
FlagTypes ==
  /\ stopButton \in BOOLEAN /\ stopAsked \in BOOLEAN /\ cancel \in BOOLEAN /\ reader \in BOOLEAN
  /\ caught \in BOOLEAN
PlaceTypes ==
  /\ call \in 0 .. Calls /\ stopping \in Nat /\ queued \in 0 .. Reports
  /\ rows \in [1 .. Calls -> {"ready", "converting", "prepared", "stopped", "failed"}]
  /\ step \in Steps /\ sub \in {"begin", "go", "run", "wait"} /\ plans \in [1 .. Calls -> Plans]
  /\ shut \in {"no", "flag", "event", "done"} /\ child \in {"none", "running", "ok", "bad"}
  /\ disk \in [1 .. Calls -> FolderType]

(* TypeOK, and after a step, in these two parts.                           *)
LEMMA Types == TypeOK <=> FlagTypes /\ PlaceTypes
  BY Zenon DEF TypeOK, FlagTypes, PlaceTypes, FolderType
LEMMA TypesAfter == FlagTypes' /\ PlaceTypes' => TypeOK'
  BY Zenon DEF TypeOK, FlagTypes, PlaceTypes, FolderType

(* A folder that is written is that of the call.                           *)
LEMMA OneFolderChanges ==
  ASSUME disk \in [1 .. Calls -> FolderType], call \in 1 .. Calls, NEW new \in FolderType, Folder(new)
  PROVE  /\ disk' \in [1 .. Calls -> FolderType] /\ disk'[call] = new
         /\ \A j \in 1 .. Calls : j # call => disk'[j] = disk[j]
  BY DEF Folder

(* What the steps make of a folder is one.                                 *)
LEMMA FolderTypes ==
  /\ Gone \in FolderType /\ Empty \in FolderType
  /\ \A d \in FolderType : [d EXCEPT !.scratch = FALSE] \in FolderType
  /\ \A d \in FolderType : \A s : Result(d, s) \in FolderType /\ Partial(d, s) \in FolderType
<1>1. Gone \in FolderType /\ Empty \in FolderType
  BY DEF Gone, Empty, FolderType
<1>2. \A d \in FolderType : [d EXCEPT !.scratch = FALSE] \in FolderType
  BY DEF FolderType
<1>3. ASSUME NEW d \in FolderType, NEW s
      PROVE  Result(d, s) \in FolderType /\ Partial(d, s) \in FolderType
  <2>1. /\ [d EXCEPT !.target = "whole"] \in FolderType /\ [d EXCEPT !.target = "part"] \in FolderType
        /\ [d EXCEPT !.m4t = "whole"] \in FolderType /\ [d EXCEPT !.m4t = "part"] \in FolderType
        /\ [d EXCEPT !.decoded = TRUE] \in FolderType
        /\ [d EXCEPT !.m4t = "whole", !.scratch = FALSE] \in FolderType
    BY DEF FolderType
  <2> QED
    BY <2>1 DEF Result, Partial
<1> QED
  BY <1>1, <1>2, <1>3

-----------------------------------------------------------------------------
(* Steps that leave the files and the place in prepare alone.              *)
LEMMA Quiet ==
  ASSUME PrepareInv, TypeOK', UNCHANGED <<call, rows, plans, disk, step>>, ProcessInv',
         sub \in Waiting => sub' \in Waiting, shut' = "done" <=> shut = "done"
  PROVE  PrepareInv'
<1> USE DEF PrepareInv
<1>1. CallInv'
  BY DEF CallInv
<1>2. PlanInv' /\ FolderInv'
  BY DEF PlanInv, FolderInv, plan
<1>3. ScratchInv'
  BY DEF ScratchInv
<1>4. RowsInv'
  BY DEF RowsInv, RowInv
<1>5. ShutInv'
  BY DEF ShutInv
<1> QED
  BY <1>1, <1>2, <1>3, <1>4, <1>5

(* convert_files goes on to the step s and leaves new in the folder.       *)
LEMMA Moves ==
  ASSUME PrepareInv, TypeOK', step # "idle", shut # "done" \/ disk' = disk,
         UNCHANGED <<call, rows, plans, shut>>,
         NEW s \in Steps \ {"idle"}, step' = s, sub' = "begin",
         child' = "none", ~reader', queued' = 0,
         NEW new \in FolderType, Folder(new), new.scratch => s \in {"build", "except"},
         PlanInv', FolderInv', shut = "done" => s \in {"test", "next"}
  PROVE  PrepareInv'
<1> USE DEF PrepareInv
<1>0. call \in 1 .. Calls /\ rows[call] = "converting" /\ disk \in [1 .. Calls -> FolderType]
  BY Types DEF CallInv, PlaceTypes
<1>a. /\ disk'[call] = new
      /\ \A j \in 1 .. Calls : j # call => disk'[j] = disk[j]
  BY <1>0, OneFolderChanges
<1>1. CallInv' /\ ProcessInv'
  BY <1>0 DEF CallInv, ProcessInv, Waiting
<1>3. ScratchInv'
  BY <1>0, <1>a DEF ScratchInv
<1>4. RowsInv'
  BY <1>0, <1>a DEF RowsInv, RowInv
<1>5. ShutInv'
  BY <1>0, <1>a DEF ShutInv
<1> QED
  BY <1>1, <1>3, <1>4, <1>5

(* prepare raises, whatever it leaves.                                     *)
LEMMA RaisesKeeps ==
  ASSUME PrepareInv, TypeOK', step # "idle", shut # "done", Raises, UNCHANGED <<call, rows, shut>>,
         child' = "none", ~reader', queued' = 0,
         NEW new \in FolderType, Folder(new)
  PROVE  PrepareInv'
<1>1. PlanInv' /\ FolderInv'
  BY DEF Raises, PlanInv, FolderInv
<1> QED
  BY <1>1, Moves DEF Raises, Steps

(* The answer of convert_files: the row is true of the folder.             *)
LEMMA ReturnsKeeps ==
  ASSUME PrepareInv, TypeOK', step # "idle", NEW row \in {"prepared", "stopped", "failed"}, Returns(row),
         UNCHANGED <<shut, process>>, sub \notin Waiting,
         NEW new \in FolderType, Folder(new), new.scratch => row = "failed",
         row = "stopped" => new = Gone, shut = "done" => new = Gone,
         row = "prepared" => /\ new.target = "whole"
                             /\ plan.kind # "photo" => new.decoded
                             /\ plan.subtitle # "none" => new.m4t = "whole"
  PROVE  PrepareInv'
<1> USE DEF PrepareInv
<1>0. /\ call \in 1 .. Calls /\ rows[call] = "converting" /\ disk \in [1 .. Calls -> FolderType]
      /\ rows \in [1 .. Calls -> {"ready", "converting", "prepared", "stopped", "failed"}]
  BY Types DEF CallInv, PlaceTypes
<1>a. /\ disk'[call] = new
      /\ \A j \in 1 .. Calls : j # call => disk'[j] = disk[j]
  BY <1>0, OneFolderChanges
<1>b. /\ step' = "idle" /\ sub' = "begin" /\ call' = call /\ plans' = plans /\ shut' = shut
      /\ child' = child /\ reader' = reader /\ queued' = queued
      /\ rows'[call] = row /\ \A j \in 1 .. Calls : j # call => rows'[j] = rows[j]
  BY <1>0 DEF Returns, process
<1>1. CallInv' /\ PlanInv' /\ FolderInv'
  BY <1>b DEF CallInv, PlanInv, FolderInv
<1>2. ProcessInv'
  BY <1>b DEF ProcessInv, Waiting
<1>3. ScratchInv'
  BY <1>0, <1>a, <1>b DEF ScratchInv
<1>4. RowsInv'
  <2> SUFFICES ASSUME NEW j \in 1 .. Calls PROVE RowInv(j)'
    BY <1>b DEF RowsInv
  <2>1. CASE j = call
    BY <1>a, <1>b, <2>1 DEF RowInv, plan
  <2>2. CASE j # call
    BY <1>a, <1>b, <2>2 DEF RowsInv, RowInv
  <2> QED
    BY <2>1, <2>2
<1>5. ShutInv'
  BY <1>0, <1>a, <1>b DEF ShutInv
<1> QED
  BY <1>1, <1>2, <1>3, <1>4, <1>5

-----------------------------------------------------------------------------
(* The page, the tools and the closing of the window.                      *)
LEMMA ApplyKeeps ==
  ASSUME PrepareInv, ApplyConversion
  PROVE  PrepareInv'
<1> USE DEF PrepareInv
<1>0. /\ FlagTypes /\ PlaceTypes /\ Calls \in Nat
  BY Types, ConversionAssumption
<1>1. /\ call' = call + 1 /\ call' \in 1 .. Calls /\ step = "idle" /\ step' = "test" /\ sub' = "begin"
      /\ UNCHANGED <<stopping, cancel, shut, caught, child, reader, queued, disk>>
      /\ stopButton' = FALSE /\ stopAsked' = FALSE
      /\ rows' = [rows EXCEPT ![call'] = "converting"]
  BY <1>0 DEF ApplyConversion, flags, process, PlaceTypes
<1>2. PICK p \in Plans : plans' = [plans EXCEPT ![call'] = p]
  BY <1>1 DEF ApplyConversion
<1>3. /\ rows'[call'] = "converting" /\ \A j \in 1 .. Calls : j # call' => rows'[j] = rows[j]
      /\ rows' \in [1 .. Calls -> {"ready", "converting", "prepared", "stopped", "failed"}]
      /\ plans' \in [1 .. Calls -> Plans] /\ \A j \in 1 .. Calls : j # call' => plans'[j] = plans[j]
  BY <1>0, <1>1, <1>2 DEF PlaceTypes
<1>4. TypeOK'
  <2>1. FlagTypes'
    BY <1>0, <1>1, Zenon DEF FlagTypes
  <2>2. PlaceTypes'
    BY <1>0, <1>1, <1>3 DEF PlaceTypes, Steps
  <2> QED
    BY <2>1, <2>2, TypesAfter
<1>5. disk[call'] = Gone
  BY <1>0, <1>1 DEF CallInv, RowsInv, RowInv, PlaceTypes
<1>6. CallInv' /\ ProcessInv' /\ PlanInv'
  BY <1>0, <1>1, <1>3 DEF CallInv, ProcessInv, PlanInv, Waiting, PlaceTypes
<1>7. FolderInv' /\ ScratchInv'
  <2>1. ~disk[call'].scratch
    BY <1>5 DEF Gone
  <2>2. FolderInv'
    BY <1>1, <1>5 DEF FolderInv
  <2>3. ScratchInv'
    BY <1>1, <1>3, <2>1 DEF ScratchInv
  <2> QED
    BY <2>2, <2>3
<1>8. RowsInv'
  BY <1>0, <1>1, <1>3 DEF RowsInv, RowInv
<1>9. ShutInv'
  BY <1>1 DEF ShutInv
<1> QED
  BY <1>4, <1>6, <1>7, <1>8, <1>9

(* Buttons, reports and the process itself touch no file.                  *)
LEMMA OutsideKeeps ==
  ASSUME PrepareInv, StopPressed \/ stop_conversion \/ FFmpeg \/ read \/ Emit \/ Terminates \/ Kills
  PROVE  PrepareInv'
<1> USE DEF PrepareInv
<1>0. FlagTypes /\ PlaceTypes /\ Reports \in Nat
  BY Types, ConversionAssumption
<1>1. UNCHANGED <<call, rows, plans, disk, step, shut>>
  BY DEF StopPressed, stop_conversion, FFmpeg, read, Emit, Terminates, Kills, page, place, flags
<1>2. FlagTypes'
  BY <1>0, Zenon DEF FlagTypes, StopPressed, stop_conversion, FFmpeg, read, Emit, Terminates, Kills,
                     Progress, page, flags, process
<1>3. /\ stopping' \in Nat /\ queued' \in 0 .. Reports /\ sub' \in {"begin", "go", "run", "wait"}
      /\ child' \in {"none", "running", "ok", "bad"}
  BY <1>0 DEF PlaceTypes, StopPressed, stop_conversion, FFmpeg, read, Emit, Terminates, Kills,
              place, process
<1>4. PlaceTypes'
  BY <1>0, <1>1, <1>3 DEF PlaceTypes
<1>5. sub' = sub \/ (sub = "run" /\ sub' = "wait")
  BY DEF StopPressed, stop_conversion, FFmpeg, read, Emit, Terminates, Kills, place
<1>6. ProcessInv'
  <2>1. NeedsChild' <=> NeedsChild
    BY <1>1 DEF NeedsChild, plan
  <2>2. sub \notin Waiting => UNCHANGED <<child, reader, queued>>
    BY DEF ProcessInv, Waiting, StopPressed, stop_conversion, FFmpeg, read, Emit, Terminates, Kills,
           process
  <2> QED
    BY <1>1, <1>5, <2>1, <2>2 DEF ProcessInv, Waiting
<1> QED
  BY <1>1, <1>2, <1>4, <1>5, <1>6, TypesAfter, Quiet DEF Waiting

(* _shutdown cleans the folder while no call is under way.                 *)
LEMMA ShutdownKeeps ==
  ASSUME PrepareInv, _shutdown
  PROVE  PrepareInv'
<1> USE DEF PrepareInv
<1>0. FlagTypes /\ PlaceTypes
  BY Types
<1>1. UNCHANGED <<call, rows, stopButton, stopAsked, stopping, step, sub, plans, child, reader, queued>>
  BY DEF _shutdown, page, place, process
<1>2. FlagTypes'
  <2>1. ShowsProgress \in BOOLEAN
    BY Zenon DEF ShowsProgress
  <2>2. caught' \in BOOLEAN
    BY <1>0, <2>1, Zenon DEF FlagTypes, _shutdown
  <2> QED
    BY <1>0, <2>2, Zenon DEF FlagTypes, _shutdown, page, process
<1>3. ProcessInv'
  BY <1>1 DEF ProcessInv, NeedsChild, plan
<1>4. CASE shut \in {"no", "flag"} /\ shut' \in {"flag", "event"} /\ UNCHANGED disk
  <2>1. PlaceTypes'
    BY <1>0, <1>1, <1>4 DEF PlaceTypes
  <2> QED
    BY <1>1, <1>2, <1>3, <1>4, <2>1, TypesAfter, Quiet
<1>5. CASE /\ shut = "event" /\ step = "idle" /\ shut' = "done"
           /\ disk' = [j \in 1 .. Calls |-> Gone]
  <2>0. \A j \in 1 .. Calls : disk'[j] = Gone
    BY <1>5
  <2>1. PlaceTypes'
    BY <1>0, <1>1, <1>5, FolderTypes DEF PlaceTypes
  <2>2. CallInv' /\ PlanInv' /\ FolderInv'
    BY <1>1, <1>5 DEF CallInv, PlanInv, FolderInv
  <2>3. ScratchInv' /\ RowsInv' /\ ShutInv'
    BY <1>1, <1>5, <2>0 DEF ScratchInv, RowsInv, RowInv, ShutInv, Gone
  <2> QED
    BY <1>2, <1>3, <2>1, <2>2, <2>3, TypesAfter
<1> QED
  BY <1>4, <1>5 DEF _shutdown

-----------------------------------------------------------------------------
(* convert_files.                                                          *)

(* A call under way has a folder and a plan, and _shutdown waits for it.   *)
LEMMA AtWork ==
  ASSUME PrepareInv, step \notin {"idle", "test", "next"}
  PROVE  /\ call \in 1 .. Calls /\ rows[call] = "converting" /\ shut # "done"
         /\ disk[call] \in FolderType /\ plan \in Plans
  BY Types DEF PrepareInv, CallInv, ShutInv, PlaceTypes, plan

(* No folder changes.                                                      *)
LEMMA FolderKept ==
  ASSUME disk \in [1 .. Calls -> FolderType], call \in 1 .. Calls, UNCHANGED disk
  PROVE  disk[call] \in FolderType /\ Folder(disk[call])
  BY DEF Folder

(* _closing is tested, the event cleared, the folder of the item made.     *)
LEMMA StartsKeeps ==
  ASSUME PrepareInv, Starts
  PROVE  PrepareInv'
<1> USE DEF PrepareInv
<1>0. /\ FlagTypes /\ PlaceTypes /\ disk \in [1 .. Calls -> FolderType] /\ step # "idle"
      /\ call \in 1 .. Calls /\ disk[call] = Gone /\ sub = "begin"
      /\ child = "none" /\ ~reader /\ queued = 0
  BY Types DEF Starts, PlaceTypes, CallInv, FolderInv, ProcessInv, Waiting
<1>1. UNCHANGED <<shut, process, stopping, child, reader, queued>>
  BY DEF Starts, process
<1>2. FlagTypes'
  BY <1>0, Zenon DEF FlagTypes, Starts, To, Returns, page, process
<1>3. CASE UNCHANGED <<page, disk>> /\ \/ step = "test" /\ To(IF closing THEN "next" ELSE "clear")
                                       \/ step = "clear" /\ To("next")
  <2>1. /\ step' \in {"clear", "next"} /\ sub' = "begin" /\ UNCHANGED <<call, rows, plans>>
        /\ step' = "clear" => shut = "no"
    BY <1>3 DEF To, page, closing
  <2>2. PlaceTypes'
    BY <1>0, <1>1, <1>3, <2>1 DEF PlaceTypes, Steps
  <2>3. PlanInv' /\ FolderInv'
    BY <1>0, <1>3, <2>1 DEF PlanInv, FolderInv
  <2>4. Folder(disk[call]) /\ ~disk[call].scratch
    BY <1>0, <1>3, FolderKept DEF Gone
  <2>5. TypeOK'
    BY <1>2, <2>2, TypesAfter
  <2> HIDE DEF PrepareInv
  <2> QED
    BY <1>0, <1>1, <1>3, <2>1, <2>3, <2>4, <2>5, Moves, FolderTypes DEF Steps
<1>4. CASE step = "next" /\ closing /\ Returns("failed") /\ UNCHANGED disk
  <2>1. PlaceTypes'
    BY <1>0, <1>1, <1>4 DEF PlaceTypes, Returns, Steps
  <2>2. TypeOK'
    BY <1>2, <2>1, TypesAfter
  <2>3. Folder(disk[call]) /\ ~disk[call].scratch
    BY <1>0, <1>4, FolderKept DEF Gone
  <2> HIDE DEF PrepareInv
  <2> QED
    BY <1>0, <1>1, <1>4, <2>2, <2>3, ReturnsKeeps, FolderTypes DEF Waiting
<1>5. CASE step = "next" /\ ~closing /\ To("inspect") /\ Folder(Empty) /\ UNCHANGED page
  <2>1. /\ step' = "inspect" /\ sub' = "begin" /\ UNCHANGED <<call, rows, plans>> /\ shut = "no"
        /\ disk' \in [1 .. Calls -> FolderType]
    BY <1>0, <1>5, FolderTypes, OneFolderChanges DEF To, page, closing
  <2>2. PlaceTypes'
    BY <1>0, <1>1, <2>1 DEF PlaceTypes, Steps
  <2>3. PlanInv' /\ FolderInv'
    BY <2>1 DEF PlanInv, FolderInv
  <2>4. TypeOK'
    BY <1>2, <2>2, TypesAfter
  <2>5. ~Empty.scratch
    BY DEF Empty, Gone
  <2> HIDE DEF PrepareInv
  <2> QED
    BY <1>0, <1>1, <1>5, <2>1, <2>3, <2>4, <2>5, Moves, FolderTypes DEF Steps
<1> QED
  BY <1>3, <1>4, <1>5 DEF Starts

(* "Partial output removed" is said only when the folder could be removed. *)
LEMMA ExceptKeeps ==
  ASSUME PrepareInv, Except
  PROVE  PrepareInv'
<1> USE DEF PrepareInv
<1>0. FlagTypes /\ PlaceTypes /\ step = "except" /\ sub = "begin" /\ UNCHANGED <<stopping, shut, process>>
  BY Types DEF Except, flags, ProcessInv
<1>1. call \in 1 .. Calls /\ shut # "done" /\ disk[call] \in FolderType
  BY <1>0, AtWork
<1>2. FlagTypes'
  BY <1>0, Zenon DEF FlagTypes, Except, Returns, flags, process
<1>4. ASSUME NEW row \in {"stopped", "failed"}, Returns(row),
             NEW new \in FolderType, Folder(new), new.scratch => row = "failed", row = "stopped" => new = Gone
      PROVE  PrepareInv'
  <2>1. disk' \in [1 .. Calls -> FolderType]
    BY <1>0, <1>1, <1>4, OneFolderChanges DEF PlaceTypes
  <2>2. PlaceTypes'
    BY <1>0, <1>1, <1>4, <2>1 DEF PlaceTypes, Returns, Steps, process
  <2>3. TypeOK'
    BY <1>2, <2>2, TypesAfter
  <2> HIDE DEF PrepareInv
  <2> QED
    BY <1>0, <1>1, <1>4, <2>3, ReturnsKeeps DEF Waiting
<1>5. CASE Folder(Gone) /\ Returns(IF cancel THEN "stopped" ELSE "failed")
  BY <1>4, <1>5, FolderTypes DEF Gone
<1>6. CASE Returns("failed") /\ UNCHANGED disk
  BY <1>0, <1>1, <1>4, <1>6, FolderKept DEF PlaceTypes
<1> QED
  BY <1>5, <1>6 DEF Except

(* The last test of the event, and the answer.                             *)
LEMMA PreparedKeeps ==
  ASSUME PrepareInv, Prepared
  PROVE  PrepareInv'
<1> USE DEF PrepareInv
<1>0. FlagTypes /\ PlaceTypes /\ step = "final" /\ sub = "go" /\ UNCHANGED <<stopping, shut, process, disk>>
  BY Types DEF Prepared, flags
<1>1. call \in 1 .. Calls /\ shut # "done" /\ disk[call] \in FolderType /\ rows[call] = "converting"
  BY <1>0, AtWork
<1>2. FlagTypes'
  BY <1>0, Zenon DEF FlagTypes, Prepared, Returns, flags, process
<1>3. /\ ~disk[call].scratch /\ disk[call].target = "whole"
      /\ plan.kind # "photo" => disk[call].decoded
      /\ plan.subtitle # "none" => disk[call].m4t = "whole"
  BY <1>0, <1>1 DEF ScratchInv, FolderInv
<1>4. PlaceTypes'
  BY <1>0, <1>1 DEF PlaceTypes, Prepared, Returns, Steps, process
<1>5. TypeOK'
  BY <1>2, <1>4, TypesAfter
<1>6. Returns("prepared") /\ Folder(disk[call])
  BY <1>0, <1>1, FolderKept DEF Prepared, PlaceTypes
<1> HIDE DEF PrepareInv
<1> QED
  BY <1>0, <1>1, <1>3, <1>5, <1>6, ReturnsKeeps DEF Waiting

(* A step of prepare that succeeds leaves what the next one expects.       *)
LEMMA PrepareAdvances ==
  ASSUME PrepareInv, step \in {"inspect", "output", "check", "verify", "subtitle", "build"},
         To(After(step)), Folder(Result(disk[call], step)),
         UNCHANGED <<call, rows, stopAsked, stopping, flags>>, stopButton' \in BOOLEAN,
         child' = "none", ~reader', queued' = 0, reader' \in BOOLEAN
  PROVE  PrepareInv'
<1> USE DEF PrepareInv
<1> DEFINE s == After(step)
           d == disk[call]
           new == Result(d, step)
<1>0. /\ FlagTypes /\ PlaceTypes /\ Reports \in Nat /\ d \in FolderType /\ plan \in Plans
      /\ call \in 1 .. Calls /\ shut # "done" /\ rows[call] = "converting"
  BY Types, AtWork, ConversionAssumption
<1>1. /\ s \in {"output", "check", "verify", "subtitle", "build", "final"}
      /\ step' = s /\ sub' = "begin" /\ plans' = plans /\ plan' = plan /\ call' = call /\ rows' = rows
      /\ shut' = shut /\ stopping' = stopping
  BY DEF After, To, plan, flags
<1>2. new \in FolderType /\ disk' \in [1 .. Calls -> FolderType] /\ disk'[call] = new
  BY <1>0, FolderTypes, OneFolderChanges DEF PlaceTypes
<1>3. TypeOK'
  <2>1. FlagTypes'
    BY <1>0, Zenon DEF FlagTypes, flags
  <2>2. PlaceTypes'
    BY <1>0, <1>1, <1>2 DEF PlaceTypes, Steps
  <2> QED
    BY <2>1, <2>2, TypesAfter
<1>4. PlanInv'
  BY <1>1 DEF PlanInv, After
<1>5. /\ d.scratch => step \in {"subtitle", "build"}
      /\ d.scratch /\ step = "subtitle" => plan.subtitle = "text"
  BY <1>0 DEF ScratchInv, ProcessInv, NeedsChild
<1>6. new.scratch => s \in {"build", "except"}
  BY <1>0, <1>5 DEF Result, After, FolderType
<1>7. FolderInv'
  <2>1. s \in {"check", "verify", "subtitle", "build", "final"} => new.target = "whole"
    BY <1>0 DEF Result, After, FolderInv, FolderType
  <2>2. s \in {"subtitle", "build"} \/ (s = "final" /\ plan.kind # "photo") => new.decoded
    BY <1>0 DEF Result, After, FolderInv, FolderType
  <2>3. s = "final" /\ plan.subtitle # "none" => new.m4t = "whole"
    BY <1>0 DEF Result, After, FolderType, Plans
  <2> QED
    BY <1>1, <1>2, <2>1, <2>2, <2>3 DEF FolderInv
<1>8. s \in Steps \ {"idle"} /\ step # "idle"
  BY <1>1 DEF Steps
<1> HIDE DEF PrepareInv, s, new
<1>9. Folder(new)
  BY DEF new
<1> QED
  BY <1>0, <1>1, <1>2, <1>3, <1>4, <1>6, <1>7, <1>8, <1>9, Moves

(* A step of prepare that fails.                                           *)
LEMMA PrepareFails ==
  ASSUME PrepareInv, step \notin {"idle", "test", "next"}, Raises,
         UNCHANGED <<page, stopping, flags>>,
         child' = "none", ~reader', queued' = 0, reader' \in BOOLEAN,
         NEW d \in FolderType, Leaves(d)
  PROVE  PrepareInv'
<1>0. FlagTypes /\ PlaceTypes /\ Reports \in Nat /\ call \in 1 .. Calls /\ shut # "done"
  BY Types, AtWork, ConversionAssumption DEF PrepareInv
<1>1. UNCHANGED <<call, rows, shut, stopping>> /\ step' = "except" /\ sub' = "begin" /\ plans' = plans
  BY DEF page, flags, Raises
<1>a. PICK new \in {d, [d EXCEPT !.scratch = FALSE]} : Folder(new)
  BY DEF Leaves
<1>b. new \in FolderType
  BY <1>a, FolderTypes
<1>2. disk' \in [1 .. Calls -> FolderType]
  BY <1>0, <1>a, <1>b, OneFolderChanges DEF PlaceTypes
<1>3. FlagTypes'
  BY <1>0, Zenon DEF FlagTypes, page, flags
<1>4. PlaceTypes'
  BY <1>0, <1>1, <1>2 DEF PlaceTypes, Steps
<1>5. TypeOK'
  BY <1>3, <1>4, TypesAfter
<1> QED
  BY <1>0, <1>1, <1>5, <1>a, <1>b, RaisesKeeps

(* A test of the event: it raises, or the step begins.                     *)
LEMMA StageKeeps ==
  ASSUME PrepareInv, Stage
  PROVE  PrepareInv'
<1>0. FlagTypes /\ PlaceTypes
  BY Types DEF PrepareInv
<1>1. /\ step \in {"inspect", "output", "check", "subtitle", "build", "final"} /\ sub = "begin"
      /\ UNCHANGED <<call, rows, stopAsked, stopping, flags, shut, cancel, caught, child, reader, queued>>
  BY DEF Stage, flags, process
<1>2. child = "none" /\ ~reader /\ queued = 0
  BY <1>1 DEF PrepareInv, ProcessInv, Waiting
<1>3. CASE cancel /\ Raises /\ Leaves(disk[call]) /\ UNCHANGED stopButton
  <2>1. disk[call] \in FolderType
    BY <1>1, AtWork
  <2>2. reader' \in BOOLEAN /\ ~reader'
    BY <1>0, <1>1, <1>2, Zenon DEF FlagTypes
  <2> QED
    BY <1>1, <1>2, <1>3, <2>1, <2>2, PrepareFails DEF page
<1>4. CASE /\ ~cancel /\ sub' = "go" /\ UNCHANGED <<step, plans, disk>>
           /\ Progress \/ UNCHANGED stopButton
  <2>1. FlagTypes'
    BY <1>0, <1>1, <1>4, Zenon DEF FlagTypes, Progress
  <2>2. PlaceTypes'
    BY <1>0, <1>1, <1>4 DEF PlaceTypes
  <2>3. ProcessInv'
    BY <1>1, <1>2, <1>4 DEF ProcessInv, Waiting
  <2>4. sub \notin Waiting
    BY <1>1 DEF Waiting
  <2>5. TypeOK'
    BY <2>1, <2>2, TypesAfter
  <2> QED
    BY <1>1, <1>4, <2>3, <2>4, <2>5, Quiet
<1> QED
  BY <1>3, <1>4, Zenon DEF Stage

(* A step without a process.                                               *)
LEMMA WorksKeeps ==
  ASSUME PrepareInv, Works
  PROVE  PrepareInv'
<1>0. /\ FlagTypes /\ PlaceTypes /\ step \in {"inspect", "output", "check", "verify", "subtitle", "build"}
      /\ Ready /\ UNCHANGED <<page, stopping, flags, child, reader, queued>>
  BY Types DEF PrepareInv, Works, process
<1>1. sub \in {"begin", "go"}
  BY <1>0, Zenon DEF Ready
<1>2. child = "none" /\ ~reader /\ queued = 0
  BY <1>1 DEF PrepareInv, ProcessInv, Waiting
<1>3. reader' \in BOOLEAN /\ ~reader'
  BY <1>0, <1>2, Zenon DEF FlagTypes
<1>4. CASE To(After(step)) /\ Folder(Result(disk[call], step))
  <2>1. stopButton' \in BOOLEAN
    BY <1>0, Zenon DEF FlagTypes, page
  <2> QED
    BY <1>0, <1>2, <1>3, <1>4, <2>1, PrepareAdvances DEF page
<1>5. CASE /\ Raises
           /\ \E d \in {disk[call], Partial(disk[call], step), Unfinished(disk[call], step)} : Leaves(d)
  <2>1. PICK d \in {disk[call], Partial(disk[call], step), Unfinished(disk[call], step)} : Leaves(d)
    BY <1>5
  <2>2. disk[call] \in FolderType
    BY <1>0, AtWork
  <2>3. Result(disk[call], step) \in FolderType /\ Partial(disk[call], step) \in FolderType
    BY <2>2, FolderTypes
  <2>4. Unfinished(disk[call], step) \in FolderType
    BY <2>2, <2>3 DEF Unfinished, FolderType
  <2>5. d \in FolderType
    BY <2>1, <2>2, <2>3, <2>4
  <2> QED
    BY <1>0, <1>2, <1>3, <1>5, <2>1, <2>5, PrepareFails
<1> QED
  BY <1>4, <1>5, Zenon DEF Works

(* A process has ended by itself.                                          *)
LEMMA RunEndsKeeps ==
  ASSUME PrepareInv, RunEnds
  PROVE  PrepareInv'
<1>0. /\ FlagTypes /\ PlaceTypes /\ sub = "run" /\ ~reader /\ queued = 0 /\ child' = "none"
      /\ UNCHANGED <<call, rows, stopAsked, stopping, flags, reader, queued>>
  BY Types DEF PrepareInv, RunEnds
<1>1. step \in {"inspect", "output", "check", "verify", "subtitle"}
  BY <1>0 DEF PrepareInv, ProcessInv, Waiting, NeedsChild
<1>2. reader' \in BOOLEAN /\ ~reader'
  BY <1>0, Zenon DEF FlagTypes
<1>3. CASE To(After(step)) /\ Folder(Result(disk[call], step))
  <2>1. stopButton' \in BOOLEAN
    BY <1>0, Zenon DEF FlagTypes, RunEnds, Progress
  <2> QED
    BY <1>0, <1>1, <1>2, <1>3, <2>1, PrepareAdvances
<1>4. CASE Raises /\ Leaves(disk[call]) /\ UNCHANGED stopButton
  <2>1. disk[call] \in FolderType
    BY <1>1, AtWork
  <2> QED
    BY <1>0, <1>1, <1>2, <1>4, <2>1, PrepareFails DEF page
<1> QED
  BY <1>3, <1>4, Zenon DEF RunEnds

(* A process was terminated or killed, and waited for.                     *)
LEMMA ReapsKeeps ==
  ASSUME PrepareInv, Reaps
  PROVE  PrepareInv'
<1>0. /\ FlagTypes /\ PlaceTypes /\ sub = "wait" /\ ~reader /\ child' = "none" /\ queued' = 0
      /\ UNCHANGED <<page, stopping, flags, reader>> /\ Raises /\ Leaves(disk[call])
  BY Types DEF PrepareInv, Reaps
<1>1. step \in {"inspect", "output", "check", "verify", "subtitle"}
  BY <1>0 DEF PrepareInv, ProcessInv, Waiting, NeedsChild
<1>2. reader' \in BOOLEAN /\ ~reader'
  BY <1>0, Zenon DEF FlagTypes
<1>3. disk[call] \in FolderType
  BY <1>1, AtWork
<1> QED
  BY <1>0, <1>1, <1>2, <1>3, PrepareFails

(* A process begins: its output is there in part, and prepare_subtitle has *)
(* made its scratch folder.                                                *)
LEMMA PopenKeeps ==
  ASSUME PrepareInv, Popen
  PROVE  PrepareInv'
<1> USE DEF PrepareInv
<1> DEFINE d == disk[call]
           new == [Partial(d, IF step = "output" THEN step ELSE "none")
                     EXCEPT !.scratch = (step = "subtitle")]
<1>0. /\ FlagTypes /\ PlaceTypes /\ Reports \in Nat
      /\ Ready /\ NeedsChild /\ child' = "running" /\ queued' = 0 /\ sub' = "run"
      /\ UNCHANGED <<call, rows, stopping, step, plans, shut>>
      /\ Folder(new)
  BY Types, ConversionAssumption DEF Popen, page, flags
<1>1. step \in {"inspect", "output", "check", "verify", "subtitle"} /\ sub \in {"begin", "go"}
  BY <1>0 DEF NeedsChild, Ready
<1>2. d \in FolderType /\ call \in 1 .. Calls /\ shut # "done" /\ rows[call] = "converting"
  BY <1>1, AtWork
<1>3. /\ new \in FolderType /\ new.scratch = (step = "subtitle")
      /\ new.m4t = d.m4t /\ new.decoded = d.decoded
      /\ step # "output" => new.target = d.target
  BY <1>1, <1>2 DEF Partial, FolderType
<1>4. /\ disk' \in [1 .. Calls -> FolderType] /\ disk'[call] = new
      /\ \A j \in 1 .. Calls : j # call => disk'[j] = disk[j]
  BY <1>0, <1>2, <1>3, OneFolderChanges DEF PlaceTypes
<1>5. TypeOK'
  <2>0. reader' \in BOOLEAN
    BY DEF Popen
  <2>1. FlagTypes'
    BY <1>0, <2>0, Zenon DEF FlagTypes, Popen, page, flags
  <2>2. PlaceTypes'
    BY <1>0, <1>4 DEF PlaceTypes
  <2> QED
    BY <2>1, <2>2, TypesAfter
<1> HIDE DEF new
<1>6. CallInv' /\ PlanInv' /\ ShutInv'
  BY <1>0, <1>2 DEF CallInv, PlanInv, ShutInv, plan
<1>7. ProcessInv'
  BY <1>0, <1>1 DEF ProcessInv, Waiting, NeedsChild, plan
<1>8. FolderInv'
  BY <1>0, <1>1, <1>3, <1>4 DEF FolderInv, plan
<1>9. ScratchInv'
  BY <1>0, <1>1, <1>3, <1>4 DEF ScratchInv, Waiting
<1>10. RowsInv'
  BY <1>0, <1>2, <1>4 DEF RowsInv, RowInv
<1> QED
  BY <1>5, <1>6, <1>7, <1>8, <1>9, <1>10

-----------------------------------------------------------------------------
(* Every step keeps the invariant.                                         *)
LEMMA PrepareStep ==
  ASSUME PrepareInv, [Next]_vars
  PROVE  PrepareInv'
<1>1. CASE UNCHANGED vars
  <2>1. UNCHANGED <<call, rows, stopButton, stopAsked, stopping, step, sub, plans, cancel, shut,
                    caught, child, reader, queued, disk>>
    BY <1>1, Zenon DEF vars, page, place, flags, process
  <2>2. FlagTypes' /\ PlaceTypes'
    BY <2>1, Types DEF PrepareInv, FlagTypes, PlaceTypes
  <2>3. ProcessInv'
    BY <2>1 DEF PrepareInv, ProcessInv, NeedsChild, plan
  <2> QED
    BY <2>1, <2>2, <2>3, TypesAfter, Quiet
<1>2. CASE convert_files
  BY <1>2, StartsKeeps, ExceptKeeps, StageKeeps, WorksKeeps, PopenKeeps, RunEndsKeeps, ReapsKeeps,
     PreparedKeeps, OutsideKeeps DEF convert_files
<1> QED
  BY <1>1, <1>2, ApplyKeeps, OutsideKeeps, ShutdownKeeps DEF Next, Closed, Hangs

(* It holds before the first conversion.                                   *)
LEMMA PrepareInit == Init => PrepareInv
<1> SUFFICES ASSUME Init PROVE PrepareInv
  OBVIOUS
<1> USE DEF Init
<1>1. TypeOK
  <2>1. FlagTypes
    BY Zenon DEF FlagTypes
  <2>2. PlaceTypes
    BY ConversionAssumption, FolderTypes DEF PlaceTypes, Steps, Plans, Kinds
  <2> QED
    BY <2>1, <2>2, Types
<1>2. CallInv /\ ProcessInv /\ PlanInv /\ FolderInv /\ ShutInv
  BY DEF CallInv, ProcessInv, PlanInv, FolderInv, ShutInv, Waiting
<1>3. ScratchInv /\ RowsInv
  BY DEF ScratchInv, RowsInv, RowInv, Gone
<1> QED
  BY <1>1, <1>2, <1>3 DEF PrepareInv

(* It holds always.                                                        *)
LEMMA PrepareInvariance == Spec => []PrepareInv
  BY PrepareInit, PrepareStep, PTL DEF Spec

(* Every variable of the conversion keeps its type: the queue of run_ffmpeg *)
(* holds no more reports than it has places.                                *)
THEOREM ConversionTypes == Spec => []TypeOK
<1>1. PrepareInv => TypeOK
  BY DEF PrepareInv
<1> QED
  BY <1>1, PrepareInvariance, PTL

(* What a row of the page says is on the disk, for any number of           *)
(* conversions: behind "Prepared and verified" a whole file, decoded to    *)
(* its end, with the subtitles asked for; behind "partial output removed"  *)
(* nothing; no process or reader outlives its step, and a scratch folder   *)
(* only where it could not be removed and the row says failed; _shutdown   *)
(* removes nothing that is being written.                                  *)
THEOREM RowsAreTrue == Spec => []RowMatchesDisk
<1>1. PrepareInv => RowMatchesDisk
  <2> SUFFICES ASSUME PrepareInv PROVE RowMatchesDisk
    OBVIOUS
  <2> USE DEF PrepareInv
  <2>0. call \in 0 .. Calls
    BY DEF TypeOK
  <2>1. ASSUME NEW j \in 1 .. Calls, rows[j] = "prepared" PROVE ~disk[j].scratch
    <3>1. CASE step = "idle"
      BY <2>1, <3>1 DEF ScratchInv
    <3>2. CASE step # "idle"
      BY <2>1, <3>2 DEF ScratchInv, CallInv
    <3> QED
      BY <3>1, <3>2
  <2>2. sub \notin {"run", "wait"} => child = "none" /\ ~reader /\ queued = 0
    BY DEF ProcessInv, Waiting
  <2>3. step \notin {"subtitle", "build", "except"} =>
          \A j \in 1 .. Calls : disk[j].scratch => rows[j] = "failed"
    BY DEF ScratchInv
  <2>4. shut = "done" => child = "none" /\ \A j \in 1 .. Calls : disk[j] = Gone
    BY DEF ShutInv, ProcessInv, Waiting
  <2> QED
    BY <2>1, <2>2, <2>3, <2>4 DEF RowMatchesDisk, RowsInv, RowInv
<1> QED
  BY <1>1, PrepareInvariance, PTL
================================================================================
