------------------------------ MODULE CopyFolder ------------------------------
(***************************************************************************)
(* Copying media to a folder of the computer: the loop of copy_from_vita   *)
(* with the download over Wi-Fi (download_media) or with the helper        *)
(* process over USB (copy_object).  Every file is written under a name of  *)
(* its own and published under the wanted one, while other programs create *)
(* and delete files in the same folder and the user cancels or closes the  *)
(* window.                                                                 *)
(***************************************************************************)
EXTENDS Integers

CONSTANTS
    N,           \* the selected items are 1 .. N
    SameName,    \* those whose names _safe_download_name makes equal
    Sidecars,    \* the videos with subtitles
    Size,        \* the chunks of a file
    MaxForeign   \* bound: files other programs create

Items == 1 .. N

ASSUME CopyAssumption ==
    /\ N \in Nat /\ Size \in Nat \ {0} /\ MaxForeign \in Nat
    /\ SameName \subseteq Items /\ Sidecars \subseteq Items

Numbers == Nat \ {0}    \* 1: the name itself, n: with " (n)"
Base(i) == IF i \in SameName THEN 0 ELSE i
Paths == {Base(i) : i \in Items} \X Numbers \X {"media", "m4t"}
\* Bound: where other programs create files, at least as far as a copy looks for a name.
InReach == {Base(i) : i \in Items} \X (1 .. N + MaxForeign + 1) \X {"media", "m4t"}
Foreign == <<"foreign">>
Ours(i, part, got) == <<i, part, got>>

VARIABLES
    at, item, number,    \* copy_from_vita: its place, its item, the number of the name
    via, part, got,      \* the transport; the file of the item, the chunks in its part file
    helper,              \* the helper process
    copied, failed, how, \* the lists of the result; whether the call returned or raised
    _transfer_cancel, _closing,    \* of the back end: the event of Cancel, the flag of _shutdown
    folder, foreign, created   \* the files of the folder; history: where other programs' files are, how many

job == <<at, item, number, via, part, got, helper>>
result == <<copied, failed, how>>
others == <<foreign, created>>
copyVars == <<job, result, _transfer_cancel, _closing, folder, others>>

Path(i, n, p) == <<Base(i), n, p>>
Exists(path) == path \in DOMAIN folder
Put(path, what) == folder' = [f \in DOMAIN folder \cup {path} |-> IF f = path THEN what ELSE folder[f]]
Remove(path) == folder' = [f \in DOMAIN folder \ {path} |-> folder[f]]
Target == Path(item, number, part)
Go(place) == at' = place

\* Cancel between two items, or the closing of the window: the call raises and its lists are lost.
NextItem ==
    /\ at = "item"
    /\ IF item > N THEN Go("end") /\ how' = "returned" /\ UNCHANGED <<number, part>>
       ELSE IF _transfer_cancel \/ _closing THEN Go("end") /\ how' = "raised" /\ UNCHANGED <<number, part>>
       ELSE Go("name") /\ number' = 1 /\ part' = "media" /\ UNCHANGED how
    /\ UNCHANGED <<item, via, got, helper, copied, failed, _transfer_cancel, _closing, folder, others>>

\* One turn of the loop that looks for a free name.
Taken ==
    \/ Exists(Path(item, number, "media"))
    \/ item \in Sidecars /\ Exists(Path(item, number, "m4t"))
FindName ==
    /\ at = "name"
    /\ IF Taken THEN number' = number + 1 /\ UNCHANGED at ELSE Go("request") /\ UNCHANGED number
    /\ UNCHANGED <<item, via, part, got, helper, result, _transfer_cancel, _closing, folder, others>>

\* The except clause; a cancel ends the loop.
Fails ==
    /\ failed' = failed \cup {[item |-> item,
                              partial |-> IF item \in Sidecars /\ Exists(Path(item, number, "media"))
                                          THEN number ELSE 0]}
    /\ IF _transfer_cancel THEN Go("end") /\ how' = "returned" /\ UNCHANGED item
                 ELSE Go("item") /\ item' = item + 1 /\ UNCHANGED how
    /\ got' = 0
    /\ UNCHANGED <<number, via, part, copied>>

\* download_media up to the first chunk.
Request ==
    /\ at = "request" /\ via = "wifi"
    /\ \/ Go("chunk") /\ UNCHANGED <<item, number, via, part, got, result>>
       \/ Fails
    /\ UNCHANGED <<helper, _transfer_cancel, _closing, folder, others>>

\* A chunk; Cancel or the connection ends the file, and the part file is removed.
Chunk ==
    /\ at = "chunk" /\ got < Size
    /\ \/ ~_transfer_cancel /\ got' = got + 1 /\ UNCHANGED <<at, item, number, via, part, result>>
       \/ Fails
    /\ UNCHANGED <<helper, _transfer_cancel, _closing, folder, others>>

\* copy_object looks for the target again and starts the helper.
StartHelper ==
    /\ at = "request" /\ via = "usb"
    /\ \/ /\ ~Exists(Target)
          /\ Go("poll") /\ helper' = "runs"
          /\ UNCHANGED <<item, number, via, part, got, result>>
       \/ Fails /\ UNCHANGED helper
    /\ UNCHANGED <<_transfer_cancel, _closing, folder, others>>

\* copy in the helper: it writes the part file, and removes it when a call fails.
HelperCopies ==
    /\ helper = "runs"
    /\ \/ got < Size /\ got' = got + 1 /\ UNCHANGED helper
       \/ got = Size /\ helper' = "ok" /\ UNCHANGED got
       \/ helper' = "bad" /\ got' = 0
    /\ UNCHANGED <<at, item, number, via, part, result, _transfer_cancel, _closing, folder, others>>

\* Cancel terminates the helper before its part file is removed; or the helper has failed.
PollFails ==
    /\ at = "poll"
    /\ (helper = "runs" /\ _transfer_cancel) \/ helper = "bad"
    /\ helper' = "none"
    /\ Fails
    /\ UNCHANGED <<_transfer_cancel, _closing, folder, others>>

\* The file is complete and published, unless there is one of that name by now.
Publish_Replaces ==
    /\ (at = "chunk" /\ got = Size) \/ (at = "poll" /\ helper = "ok")
    /\ Put(Target, Ours(item, part, got))
    /\ Go("published")
    /\ helper' = "none"
    /\ UNCHANGED <<item, number, via, part, got, result, _transfer_cancel, _closing, others>>
Publish ==
    /\ (at = "chunk" /\ got = Size) \/ (at = "poll" /\ helper = "ok")
    /\ \/ /\ ~Exists(Target)
          /\ Put(Target, Ours(item, part, got))
          /\ Go("published")
          /\ UNCHANGED <<item, number, via, part, got, result>>
       \/ Exists(Target) /\ Fails /\ UNCHANGED folder
    /\ helper' = "none"
    /\ UNCHANGED <<_transfer_cancel, _closing, others>>

\* The part file is removed; the sidecar of a video follows, else the item is copied.
FileDone ==
    /\ at = "published"
    /\ IF part = "media" /\ item \in Sidecars
       THEN Go("request") /\ part' = "m4t" /\ UNCHANGED <<item, copied>>
       ELSE /\ copied' = copied \cup {[item |-> item, number |-> number]}
            /\ Go("item") /\ item' = item + 1
            /\ UNCHANGED part
    /\ got' = 0
    /\ UNCHANGED <<number, via, helper, failed, how, _transfer_cancel, _closing, folder, others>>

copy_from_vita == NextItem \/ FindName \/ Request \/ Chunk \/ StartHelper \/ PollFails
                  \/ Publish \/ FileDone

cancel_transfer ==
    /\ at # "end" /\ ~_transfer_cancel /\ _transfer_cancel' = TRUE
    /\ UNCHANGED <<job, result, _closing, folder, others>>

\* _shutdown up to its locks, which it waits for as long as the copy runs.
ShutdownBegins ==
    /\ ~_closing /\ _closing' = TRUE /\ _transfer_cancel' = TRUE
    /\ UNCHANGED <<job, result, folder, others>>

\* Other programs, and the user, in the same folder.
OtherProgram ==
    /\ \/ \E path \in InReach \ DOMAIN folder :
            /\ created < MaxForeign
            /\ Put(path, Foreign)
            /\ foreign' = foreign \cup {path} /\ created' = created + 1
       \/ \E path \in DOMAIN folder :
            /\ folder[path] = Foreign
            /\ Remove(path)
            /\ foreign' = foreign \ {path} /\ UNCHANGED created
    /\ UNCHANGED <<job, result, _transfer_cancel, _closing>>

CopyInit ==
    /\ at = "item" /\ item = 1 /\ number = 1 /\ via \in {"wifi", "usb"} /\ part = "media" /\ got = 0
    /\ helper = "none" /\ copied = {} /\ failed = {} /\ how = "runs"
    /\ _transfer_cancel = FALSE /\ _closing = FALSE
    /\ folder = <<>> /\ foreign = {} /\ created = 0

Ended == at = "end" /\ UNCHANGED copyVars

CopyNext == copy_from_vita \/ HelperCopies \/ cancel_transfer \/ ShutdownBegins \/ OtherProgram \/ Ended

CopySpec == CopyInit /\ [][CopyNext]_copyVars

(***************************************************************************)
(* Properties                                                              *)
(***************************************************************************)

CopyTypeOK ==
    /\ at \in {"item", "name", "request", "chunk", "poll", "published", "end"}
    /\ item \in 1 .. N + 1 /\ number \in Numbers /\ via \in {"wifi", "usb"}
    /\ part \in {"media", "m4t"} /\ got \in 0 .. Size /\ helper \in {"none", "runs", "ok", "bad"}
    /\ copied \subseteq [item : Items, number : Numbers]
    /\ failed \subseteq [item : Items, partial : Numbers \cup {0}]
    /\ how \in {"runs", "returned", "raised"} /\ _transfer_cancel \in BOOLEAN /\ _closing \in BOOLEAN
    /\ DOMAIN folder \subseteq Paths
    /\ \A path \in DOMAIN folder : folder[path] \in {Foreign} \cup {Ours(i, p, Size) : i \in Items, p \in {"media", "m4t"}}
    /\ foreign \subseteq Paths /\ created \in 0 .. MaxForeign

Whole(i, n, p) == Exists(Path(i, n, p)) /\ folder[Path(i, n, p)] = Ours(i, p, Size)

\* A copy never replaces a file of another program, though that appears under the name chosen
\* for the copy at any moment; what is listed as copied is there, whole, a video with its
\* subtitles under the same name; and a call that returned has left nothing in the folder
\* that its lists do not name.  No part file and no helper outlives its file.
FolderMatchesReport ==
    /\ \A path \in foreign : Exists(path) /\ folder[path] = Foreign
    /\ \A c \in copied : /\ Whole(c.item, c.number, "media")
                         /\ c.item \in Sidecars => Whole(c.item, c.number, "m4t")
    /\ how = "returned" =>
         \A path \in DOMAIN folder :
            \/ folder[path] = Foreign
            \/ \E c \in copied : path \in {Path(c.item, c.number, "media"), Path(c.item, c.number, "m4t")}
            \/ \E f \in failed : path = Path(f.item, f.partial, "media")
    /\ at \notin {"chunk", "poll", "published"} => got = 0 /\ helper = "none"
=============================================================================
